------------------------------ MODULE LanguageMatching ------------------------------
(***************************************************************************)
(* language_matching.go: which registered language answers a person's.     *)
(*                                                                         *)
(* A tag is its parts, and whether it is written as a manifest writes it   *)
(* (lower case, hyphens); "" is a part that is not there.  The embedded    *)
(* CLDR tables are cut down to the languages the instances use.            *)
(***************************************************************************)
EXTENDS Integers, Sequences, FiniteSets, SequencesExt

CONSTANT NoTag  \* no language

Tag(l, s, r, plain) == [language |-> l, script |-> s, region |-> r, plain |-> plain]

\* Two spellings of one tag (SameLanguage: intents.go 152-160).
Fold(t) == [t EXCEPT !.plain = TRUE]

SameLanguage(a, b) == Fold(a) = Fold(b)

--------------------------------------------------------------------------------
\* data/language-matching.json, in part.
Aliases == [eng |-> <<"en", "", "">>, cnr |-> <<"sr", "", "ME">>, sh |-> <<"sr", "Latn", "">>]

DefaultScripts == [en |-> "Latn", es |-> "Latn", pt |-> "Latn", da |-> "Latn", nb |-> "Latn",
                   ar |-> "Arab"]

Macrolanguages == [cmn |-> "zh"]

Likely ==
  <<"en", "", "">>     :> <<"en", "Latn", "US">> @@ <<"es", "", "">>      :> <<"es", "Latn", "ES">> @@
  <<"pt", "", "">>     :> <<"pt", "Latn", "BR">> @@ <<"zh", "", "">>      :> <<"zh", "Hans", "CN">> @@
  <<"zh", "Hant", "">> :> <<"zh", "Hant", "TW">> @@ <<"zh", "", "TW">>    :> <<"zh", "Hant", "TW">> @@
  <<"zh", "", "HK">>   :> <<"zh", "Hant", "HK">> @@ <<"sr", "", "">>      :> <<"sr", "Cyrl", "RS">> @@
  <<"sr", "", "ME">>   :> <<"sr", "Latn", "ME">> @@ <<"nb", "", "">>      :> <<"nb", "Latn", "NO">> @@
  <<"ar", "", "">>     :> <<"ar", "Arab", "EG">> @@
  <<"da", "", "">>     :> <<"da", "Latn", "DK">> @@ <<"und", "", "">>     :> <<"en", "Latn", "US">>

LanguageDistances == <<"da", "nb">> :> 8 @@ <<"nb", "da">> :> 8

ScriptDistances == <<"sr", "Cyrl", "sr", "Latn">> :> 5 @@ <<"sr", "Latn", "sr", "Cyrl">> :> 5

Regions ==
  [US |-> {"US", "PR"}, LATIN_AMERICA |-> {"419", "MX", "BR"}, CNSAR |-> {"HK", "MO"},
   MAGHREB |-> {"DZ", "MA", "TN"},
   AMERICAS |-> {"US", "PR", "CA", "419", "MX", "BR"}]

--------------------------------------------------------------------------------
\* An alias stands for its language and what goes with it; a script that goes
\* without saying is dropped, and bare Portuguese is Portugal's.
Parsed(t) ==
  LET base   == IF t.language \in DOMAIN Aliases THEN Aliases[t.language] ELSE <<t.language, "", "">>
      said   == IF t.script # "" THEN t.script ELSE base[2]
      script == IF base[1] \in DOMAIN DefaultScripts /\ said = DefaultScripts[base[1]] THEN "" ELSE said
      region == IF t.region # "" THEN t.region ELSE base[3]
  IN <<base[1], script, IF base[1] = "pt" /\ script = "" /\ region = "" THEN "PT" ELSE region>>

\* What is not said is taken from the first probe the tables know; a language
\* they do not know keeps its name and gets the root's script and region.
Maximized(p) ==
  IF p = <<"und", "", "">> THEN <<"und", "Zzzz", "ZZ">>
  ELSE LET probes(l) == SelectSeq(<<<<l, p[2], p[3]>>, <<l, "", p[3]>>, <<l, p[2], "">>, <<l, "", "">>,
                                    <<"und", p[2], "">>, <<"und", "", "">>>>, LAMBDA q : q \in DOMAIN Likely)
           filled(l, known) == <<IF l = "und" THEN known[1] ELSE l,
                                 IF p[2] = "" THEN known[2] ELSE p[2],
                                 IF p[3] = "" THEN known[3] ELSE p[3]>>
           of(l) == filled(l, Likely[probes(l)[1]])
       IN of(IF p[1] \in DOMAIN Macrolanguages THEN Macrolanguages[p[1]] ELSE p[1])

Apart(group, r, s) == (r \in Regions[group]) # (s \in Regions[group])

RegionDistance(a, b) ==
  LET likeUS(r) == r \in Regions["US"] IN
  IF a[3] = b[3] THEN 0
  ELSE IF <<a[1], a[2]>> # <<b[1], b[2]>> THEN 4
  ELSE IF a[1] = "ar" THEN (IF Apart("MAGHREB", a[3], b[3]) THEN 5 ELSE 4)
  ELSE IF a[1] = "en" THEN
    (IF (a[3] = "GB" /\ ~likeUS(b[3])) \/ (~likeUS(a[3]) /\ b[3] = "GB") THEN 3
     ELSE IF Apart("US", a[3], b[3]) THEN 5 ELSE 4)
  ELSE IF a[3] \in Regions["LATIN_AMERICA"] /\ b[3] = "419" THEN 1
  ELSE IF a[1] \in {"es", "pt"} /\ Apart("AMERICAS", a[3], b[3]) THEN 5
  ELSE IF a[1] = "zh" /\ a[2] = "Hant" /\ Apart("CNSAR", a[3], b[3]) THEN 5
  ELSE 4

Distance(wanted, candidate) ==
  LET of(table, pair, otherwise) == IF pair \in DOMAIN table THEN table[pair] ELSE otherwise
      between(a, b) ==
        (IF a[1] = b[1] THEN 0 ELSE of(LanguageDistances, <<a[1], b[1]>>, 80))
        + (IF a[2] = b[2] THEN 0 ELSE of(ScriptDistances, <<a[1], a[2], b[1], b[2]>>, 50))
        + RegionDistance(a, b)
  IN between(Maximized(Parsed(wanted)), Maximized(Parsed(candidate)))

\* The form a language is usually written in, as a manifest is keyed.
UsualForm(t) ==
  LET base  == Parsed(t)[1]
      usual == LET m == Maximized(<<base, "", "">>) IN Tag(m[1], "", m[3], TRUE)
  IN IF base = "und" \/ <<base, "", "">> \notin DOMAIN Likely \/ usual = t THEN NoTag ELSE usual

MaxDistance == 10

\* The place of the nearest, the first of equals, when it is near enough.
Nearest(distance) ==
  {n \in DOMAIN distance :
     /\ distance[n] =< MaxDistance
     /\ \A m \in DOMAIN distance :
          distance[n] < distance[m] \/ (distance[n] = distance[m] /\ n =< m)}

\* The tag at the place, when there is one.
TagAt(places, available) == IF places = {} THEN NoTag ELSE available[CHOOSE n \in places : TRUE]

ClosestLanguage(target, available) ==
  TagAt(Nearest([n \in DOMAIN available |-> Distance(target, available[n])]), available)
================================================================================
