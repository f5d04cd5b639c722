-------------------------------- MODULE IntentQueries --------------------------------
(***************************************************************************)
(* intents.go: Client.Intents, what a hub can be asked in a person's       *)
(* languages.                                                              *)
(*                                                                         *)
(* The call lists each language, tries its usual form and then the hub's   *)
(* whole manifest when nothing listed can carry a sentence, describes what *)
(* it listed in batches, and falls back to the engines' names when the     *)
(* hub does not list.  A hub may refuse, fail, stay silent, answer late or *)
(* twice, and leave the request ids out; its skills stay as they are       *)
(* during the call.  An answer arrives and is read in one step: what waits *)
(* in a subscription when a query ends is lost with it.                    *)
(***************************************************************************)
EXTENDS LanguageMatching, TLC

CONSTANTS
  DescribeBatch,    \* registrations described together
  MaxCopies         \* how often an answer is delivered

VARIABLES
  languages,  \* the languages asked, in order
  options,    \* what the caller left on
  runtime,    \* the hub: its rows, whether it attaches definitions and echoes ids
  at,         \* what the call is doing
  sent,       \* the queries sent, the request id of each its position
  copies,     \* how often each was answered
  waiting,    \* the ids the call waits for
  own,        \* what the language's own tag listed
  whole,      \* the hub's whole manifest
  listed,     \* the rows of each tag listed
  listedIn,   \* the tag each language was listed under
  found,      \* what each registration described was found to be
  late,       \* those whose batch was over first
  answered,   \* how many of the batch were answered
  outcome     \* what the caller is told

intentVars == <<languages, options, runtime, at, sent, copies, waiting, own, whole, listed,
                listedIn, found, late, answered, outcome>>

Row(i, t, template) == [intent |-> i, lang |-> t, template |-> template]

CanCarrySentences(rows) == \E n \in DOMAIN rows : rows[n].template

Whole(known, rows) == [known |-> known, rows |-> rows]
Unasked    == Whole("unasked", << >>)
Unanswered == Whole("unanswered", << >>)
None       == [rows |-> << >>, tag |-> NoTag]

\* What a hub knows of a registration is named after it.
Samples(key) == {key}

IntentsInitWith(spoken, runtimes, choices) ==
  /\ languages \in spoken /\ runtime \in runtimes /\ options \in choices
  /\ at = "own" /\ outcome = "none"
  /\ sent = << >> /\ copies = << >> /\ waiting = {}
  /\ own = None /\ whole = Unasked /\ answered = 0
  /\ listed = << >> /\ listedIn = << >> /\ found = << >> /\ late = {}

--------------------------------------------------------------------------------
Language == languages[Len(listedIn) + 1]

\* The tag a stage lists under; no tag asks for the whole manifest.
Tagged == CASE at = "own" -> Language [] at = "usual" -> UsualForm(Language) [] OTHER -> NoTag

\* It holds a part of the hub's rows, in their order.
Listing(t) ==
  IF t = NoTag THEN runtime.rows
  ELSE Restrict(runtime.rows, {n \in DOMAIN runtime.rows : runtime.rows[n].lang = t})

\* The registrations a describe is wanted for.
Wanted ==
  IF ~options.describe \/ runtime.attaches THEN {}
  ELSE UNION {{<<listed[t][n].intent, t>> : n \in {m \in DOMAIN listed[t] : listed[t][m].template}} :
                t \in ToSet(listedIn)}

QueryOver(what) ==
  /\ outcome' = what /\ at' = "over" /\ waiting' = {}
  /\ UNCHANGED <<own, whole, listed, listedIn, found, late>>

\* One key per language, under the first spelling; then the next language, or
\* the descriptions.
ListedUnder(rows, tag) ==
  LET seen == {t \in DOMAIN listed : SameLanguage(t, tag)}
      key  == IF seen = {} THEN tag ELSE CHOOSE t \in seen : TRUE
  IN /\ listed' = [t \in DOMAIN listed \union {key} |-> IF t = key THEN rows ELSE listed[t]]
     /\ listedIn' = Append(listedIn, key)
     /\ at' = IF Len(listedIn') < Len(languages) THEN "own" ELSE "describe"
     /\ own' = None /\ waiting' = {}
     /\ UNCHANGED <<found, late, outcome>>

--------------------------------------------------------------------------------
\* Where a manifest names each of its languages first, and so how it spells it.
Groups(rows) == {n \in DOMAIN rows : \A m \in DOMAIN rows : m < n => ~SameLanguage(rows[m].lang, rows[n].lang)}

RowsOf(rows, t) == Restrict(rows, {n \in DOMAIN rows : SameLanguage(rows[n].lang, t)})

\* The person's language, else the hub's own, else the one that says most.
NearestHubLanguage(t, rows) ==
  LET says(n) == Cardinality({m \in DOMAIN rows : rows[m].template /\ SameLanguage(rows[m].lang, rows[n].lang)})
      speakable == {n \in Groups(rows) : says(n) > 0}
      candidates == [n \in speakable |-> rows[n].lang]
      closest == ClosestLanguage(t, candidates)
      theirs == IF runtime.speaks = NoTag THEN NoTag ELSE ClosestLanguage(runtime.speaks, candidates)
      most == {n \in speakable : \A m \in speakable : says(n) > says(m) \/ (says(n) = says(m) /\ n =< m)}
  IN  IF closest # NoTag THEN closest
      ELSE IF theirs # NoTag THEN theirs
      ELSE IF most = {} THEN NoTag ELSE candidates[CHOOSE n \in most : TRUE]

\* The whole manifest is listed in the language nearest, and never makes the
\* answer worse.
InNearest(w, rows, tag) ==
  LET takes(chosen) == IF chosen = NoTag THEN ListedUnder(rows, tag)
                         ELSE ListedUnder(RowsOf(w.rows, chosen), chosen)
  IN whole' = w /\ takes(NearestHubLanguage(Language, w.rows))

Keeps(rows, tag) ==
  /\ own' = [rows |-> rows, tag |-> tag] /\ waiting' = {}
  /\ UNCHANGED <<whole, listed, listedIn, found, late, outcome>>

\* What was listed stands when it can be spoken; else the whole manifest is
\* tried, which is asked for once.
Nearer(rows, tag) ==
  IF ~options.nearest \/ CanCarrySentences(rows) THEN ListedUnder(rows, tag) /\ UNCHANGED whole
  ELSE IF whole = Unasked THEN Keeps(rows, tag) /\ at' = "whole"
  ELSE InNearest(whole, rows, tag)

OwnListed(rows) ==
  IF options.nearest /\ ~CanCarrySentences(rows) /\ UsualForm(Language) # NoTag
  THEN Keeps(rows, Language) /\ at' = "usual"
  ELSE Nearer(rows, Language)

\* As a hasty retry would: whatever the usual form lists is better.
UsualTaken(rows) == Nearer(rows, UsualForm(Language))

\* The usual form's listing is taken when it can be spoken, or when there was
\* nothing before it.
UsualListed(rows) ==
  IF CanCarrySentences(rows) \/ (rows # << >> /\ own.rows = << >>)
  THEN Nearer(rows, UsualForm(Language))
  ELSE Nearer(own.rows, own.tag)

UsualFailed(what) == IF own.rows = << >> THEN QueryOver(what) ELSE Nearer(own.rows, own.tag)

--------------------------------------------------------------------------------
NamesNext(stage) == /\ at' = stage /\ waiting' = {}
                /\ UNCHANGED <<own, whole, listed, listedIn, found, late, outcome>>

\* The hub listed, or named, what it was asked for.
Listed(rows) ==
  \/ at = "own"       /\ OwnListed(rows)
  \/ at = "usual"     /\ UsualListed(rows)
  \/ at = "whole"     /\ InNearest(Whole("manifest", rows), own.rows, own.tag)
  \/ at = "adapt"     /\ NamesNext("padatious")
  \/ at = "padatious" /\ QueryOver("names")

\* It did not: a refusal or a silence is made up for by the engines' names, a
\* retry by what was listed before it, and an error of the link by nothing.
Unlisted(why) ==
  IF at = "own" /\ why \in {"denied", "silent"} /\ options.fallback THEN NamesNext("adapt")
  ELSE IF at = "usual" /\ why # "broken" THEN UsualFailed(why)
  ELSE IF at = "whole" /\ why # "broken" THEN InNearest(Unanswered, own.rows, own.tag)
  ELSE QueryOver(why)

HasDefinitions(f) == \E k \in DOMAIN f : f[k] # {}

\* A batch is over: what it found stands, and its silence fails the call only
\* when nothing has been described at all.
BatchSilent ==
  IF HasDefinitions(found)
  THEN /\ late' = late \union ({sent[n].about : n \in waiting} \ DOMAIN found)
       /\ waiting' = {}
       /\ UNCHANGED <<at, own, whole, listed, listedIn, found, outcome>>
  ELSE QueryOver("silent")

--------------------------------------------------------------------------------
\* A query of a listing, of an engine's names, or of a batch of descriptions.
Kind(stage) == IF stage \in {"own", "usual", "whole"} THEN "list" ELSE stage

Given == <<languages, options, runtime>>

QuerySent ==
  /\ waiting = {} /\ at \in {"own", "usual", "whole", "adapt", "padatious"}
  /\ sent' = Append(sent, [kind |-> Kind(at), about |-> Tagged])
  /\ copies' = Append(copies, 0)
  /\ waiting' = {Len(sent')}
  /\ UNCHANGED <<Given, at, own, whole, listed, listedIn, found, late, answered, outcome>>

\* The registrations not asked about yet, of which a batch takes as many as fit.
Left == Wanted \ ({sent[n].about : n \in {m \in DOMAIN sent : sent[m].kind = "describe"}} \union late)

Batches == {b \in SUBSET Left : Cardinality(b) = Min({DescribeBatch, Cardinality(Left)})}

BatchSent ==
  /\ waiting = {} /\ at = "describe" /\ Left # {}
  /\ \E batch \in Batches :
       /\ sent' = sent \o SetToSeq({[kind |-> "describe", about |-> k] : k \in batch})
       /\ copies' = copies \o [n \in 1..Cardinality(batch) |-> 0]
  /\ waiting' = (Len(sent) + 1) .. Len(sent')
  /\ answered' = 0
  /\ UNCHANGED <<Given, at, own, whole, listed, listedIn, found, late, outcome>>

\* A batch's send fails with the deadline, the batch's or the caller's own: a
\* silence, like any other.
BatchUnsent ==
  /\ waiting = {} /\ at = "describe" /\ Left # {}
  /\ IF HasDefinitions(found)
     THEN /\ \E batch \in Batches : late' = late \union batch
          /\ UNCHANGED <<at, waiting, own, whole, listed, listedIn, found, outcome>>
     ELSE QueryOver("silent")
  /\ UNCHANGED <<Given, sent, copies, answered>>

\* Everything was described, or its time is over.
InventoryMade ==
  /\ waiting = {} /\ at = "describe" /\ Left = {}
  /\ QueryOver("inventory")
  /\ UNCHANGED <<Given, sent, copies, answered>>

--------------------------------------------------------------------------------
\* An answer to query n arrives, once more than before.  One of another kind
\* than is waited for would be dropped, and is left out.
Delivered(n) ==
  /\ waiting # {} /\ copies[n] < MaxCopies
  /\ sent[n].kind = Kind(at) /\ sent[n].kind \notin runtime.denies
  /\ copies' = [copies EXCEPT ![n] = @ + 1]
  /\ UNCHANGED <<Given, sent>>

\* What a query takes: an answer of its kind, and its own when it says whose.
Mine(n) == n \in waiting \/ ~runtime.echoes

QueryAnswered(n) ==
  /\ Delivered(n) /\ at # "describe" /\ Mine(n)
  /\ \/ Listed(Listing(sent[n].about))
     \/ Kind(at) = "list" /\ Unlisted("failed")
  /\ UNCHANGED answered

Notes(key, definitions) ==
  found' = [k \in DOMAIN found \union {key} |-> IF k = key THEN definitions ELSE found[k]]

\* As a batch that counts what arrives would: repeats count too.
DescribedAgain(n) ==
  /\ Delivered(n) /\ at = "describe" /\ n \in waiting
  /\ Notes(sent[n].about, Samples(sent[n].about))
  /\ answered' = answered + 1
  /\ waiting' = IF answered' = Cardinality(waiting) THEN {} ELSE waiting
  /\ UNCHANGED <<at, own, whole, listed, listedIn, late, outcome>>

\* Which registration an answer is about: the one its request id was for, or,
\* without one, the one its definition names.
About(n) ==
  IF runtime.echoes THEN {sent[m].about : m \in waiting \intersect {n}}
  ELSE {sent[m].about : m \in waiting} \intersect {sent[n].about}

\* A description is taken once; an unknown registration is an answer too, when
\* it says of what.
Described(n) ==
  /\ Delivered(n) /\ at = "describe"
  /\ \E definitions \in {{}, Samples(sent[n].about)} :
     \E key \in About(n) \ DOMAIN found :
       /\ definitions # {} \/ runtime.echoes
       /\ Notes(key, definitions)
       /\ answered' = answered + 1
       /\ waiting' = IF answered' = Cardinality(waiting) THEN {} ELSE waiting
  /\ UNCHANGED <<at, own, whole, listed, listedIn, late, outcome>>

\* Anything else is somebody else's, or a repeat.
Ignored(n) ==
  /\ Delivered(n)
  /\ IF at = "describe" THEN About(n) \subseteq DOMAIN found ELSE ~Mine(n)
  /\ UNCHANGED <<at, waiting, own, whole, listed, listedIn, found, late, answered, outcome>>

\* A hub refuses the types its policy leaves out, and names no request.
HubDenies ==
  /\ waiting # {} /\ Kind(at) \in runtime.denies
  /\ IF at = "describe" THEN QueryOver("denied") ELSE Unlisted("denied")
  /\ UNCHANGED <<Given, sent, copies, answered>>

QueryDeadline ==
  /\ waiting # {}
  /\ IF at = "describe" THEN BatchSilent ELSE Unlisted("silent")
  /\ UNCHANGED <<Given, sent, copies, answered>>

\* The link ends under the call, or the caller leaves.
LinkEnds ==
  /\ at # "over"
  /\ IF at = "describe" THEN QueryOver("broken") ELSE Unlisted("broken")
  /\ UNCHANGED <<Given, sent, copies, answered>>

IntentsCanceled ==
  /\ waiting # {}
  /\ QueryOver("canceled")
  /\ UNCHANGED <<Given, sent, copies, answered>>

IntentsNext ==
  \/ QuerySent \/ BatchSent \/ BatchUnsent \/ InventoryMade
  \/ \E n \in DOMAIN sent : QueryAnswered(n) \/ Described(n) \/ Ignored(n)
  \/ HubDenies \/ QueryDeadline \/ LinkEnds \/ IntentsCanceled

\* Each query has a deadline, and what follows needs nobody.
IntentsFairness ==
  WF_intentVars(QueryDeadline) /\ WF_intentVars(QuerySent \/ BatchSent \/ InventoryMade)

--------------------------------------------------------------------------------
IntentsTypeOK ==
  /\ at \in {"own", "usual", "whole", "adapt", "padatious", "describe", "over"}
  /\ outcome \in {"none", "inventory", "names", "denied", "silent", "failed", "broken", "canceled"}
  /\ (at = "over") = (outcome # "none")
  /\ waiting \subseteq DOMAIN sent /\ DOMAIN copies = DOMAIN sent
  /\ Len(listedIn) =< Len(languages) /\ ToSet(listedIn) = DOMAIN listed
  /\ answered =< Len(sent)
  /\ DOMAIN found \subseteq Wanted /\ late \subseteq Wanted \ DOMAIN found

\* Trying further never takes away what a language had: one whose own tag
\* listed sentences is listed under it, one that listed anything is listed
\* with something (intents.go:572-577, 533-535).
NeverWorse ==
  runtime.echoes =>
    \A i \in DOMAIN listedIn :
      LET mine == Listing(languages[i]) IN
      /\ CanCarrySentences(mine) => /\ SameLanguage(listedIn[i], languages[i])
                                    /\ CanCarrySentences(listed[listedIn[i]])
      /\ mine # << >> => listed[listedIn[i]] # << >>

\* Nobody is shown a hub without a sentence by a hub that gave some: where the
\* whole manifest came and has one, every language has (intents.go:585-597).
SomethingToSay ==
  runtime.echoes /\ options.nearest /\ CanCarrySentences(whole.rows) =>
    \A i \in DOMAIN listedIn : CanCarrySentences(listed[listedIn[i]])

\* A description is of the registration it is filed under, whoever answers
\* late or twice; an inventory lacks none but those whose batch was over
\* first, and a silence fails it only when there is nothing to show
\* (intents.go:1017-1029, 1108-1122).
DescriptionsTrue ==
  /\ \A k \in DOMAIN found : found[k] \subseteq Samples(k)
  /\ outcome = "inventory" => Wanted \subseteq DOMAIN found \union late
  /\ outcome = "silent" => ~HasDefinitions(found)
  /\ late # {} => HasDefinitions(found)

\* "en-us asked and en-US chosen for another tag are the same listing"
\* (intents.go:628-629): what is filed under a key that is there is what was
\* there.
OneListing == [][runtime.echoes => \A t \in DOMAIN listed : listed'[t] = listed[t]]_intentVars

\* The call ends: every query has its deadline (intents.go:992-1003, 1030-1045).
IntentsEnd == outcome = "none" ~> outcome # "none"
================================================================================
