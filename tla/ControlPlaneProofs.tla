----------------------------- MODULE ControlPlaneProofs -----------------------------
(***************************************************************************)
(* What callers of a ControlPlane are told is so, tokens are only given up *)
(* for their own revocation, and waits keep their pace, for any number of  *)
(* calls, tokens, connections and configurations, and any timeouts.        *)
(*                                                                         *)
(* Each part has an inductive invariant of its own (MergeKnows,            *)
(* TokenKnows, ClientsKnow, WaitsKnow); a step is of one part and leaves   *)
(* the variables of the others alone.                                      *)
(***************************************************************************)
EXTENDS ControlPlane, TLAPS

(***************************************************************************)
(* The configuration.                                                      *)
(***************************************************************************)
\* A call that is not over has changed nothing, and one that is has changed
\* what it says.
MergeKnows ==
  /\ DOMAIN merge = Merges /\ DOMAIN replace = Replacements
  /\ made \in [Merges \cup Replacements -> {0, 1}]
  /\ \A m \in Merges :
       /\ DOMAIN merge[m] = {"at", "delta", "base", "attempt", "told"}
       /\ merge[m].at \in {"idle", "read", "write", "done"}
       /\ merge[m].at # "done" => made[m] = 0 /\ merge[m].told = "none"
       /\ merge[m].told = "ok" => made[m] = 1
       /\ merge[m].told \in {"error", "conflict"} => made[m] = 0
  /\ \A r \in Replacements :
       /\ DOMAIN replace[r] = {"at", "new", "told"}
       /\ replace[r].at = "idle" => made[r] = 0

\* A call of UpdateRuntimeGroupConfig.
LEMMA MergeStepKeeps ==
  ASSUME MergeKnows, NEW m \in Merges,
         MergeBegins(m) \/ MergeReads(m) \/ MergeWrites(m) \/ MergeConflicts(m)
  PROVE  MergeKnows'
<1> DEFINE Fields == {"at", "delta", "base", "attempt", "told"}
<1>0. UNCHANGED replace
  BY DEF MergeBegins, MergeReads, MergeWrites, MergeConflicts
<1>1. ASSUME NEW fields, MergeIs(m, fields), UNCHANGED made, DOMAIN fields = Fields,
             \/ fields.at \in {"read", "write"} /\ fields.told = "none"
             \/ fields.at = "done" /\ fields.told \in {"error", "conflict", "unknown"},
             merge[m].at # "done"
      PROVE  MergeKnows'
  <2>1. DOMAIN merge' = Merges /\ merge'[m] = fields
    BY <1>1 DEF MergeIs, MergeKnows
  <2>2. \A n \in Merges \ {m} : merge'[n] = merge[n]
    BY <1>1 DEF MergeIs, MergeKnows
  <2> QED
    BY <1>0, <1>1, <2>1, <2>2 DEF MergeKnows
<1>2. CASE MergeBegins(m)
  BY <1>1, <1>2 DEF MergeBegins, MergeKnows
<1>3. CASE MergeReads(m)
  BY <1>1, <1>3 DEF MergeReads, MergeKnows
<1>4. CASE MergeConflicts(m)
  BY <1>1, <1>4 DEF MergeConflicts, ReadsAgain, Unanswered, MergeKnows
<1>5. ASSUME MergeWrites(m) PROVE merge[m].at = "write" /\ made[m] = 0
  BY <1>5 DEF MergeWrites, MergeKnows
<1>6. CASE MergeWrites(m) /\ ~Writes(m, Merged(m))
  BY <1>1, <1>5, <1>6 DEF MergeWrites, MergeKnows
<1>7. CASE MergeWrites(m) /\ Writes(m, Merged(m))
  <2>1. made[m] = 0
    BY <1>5, <1>7
  <2>2. made' = [made EXCEPT ![m] = 1]
    BY <1>7, <2>1 DEF Writes
  <2> DEFINE done(what) == [merge[m] EXCEPT !.at = "done", !.told = what]
  <2>a. \A what : DOMAIN done(what) = Fields /\ done(what).at = "done" /\ done(what).told = what
    BY DEF MergeKnows
  <2>b. MergeIs(m, done("ok")) \/ MergeIs(m, done("unknown"))
    <3>1. ~UNCHANGED made
      BY <2>1, <2>2 DEF MergeKnows
    <3> QED
      BY <1>7, <3>1 DEF MergeWrites, Unanswered
  <2>3. PICK fields : /\ MergeIs(m, fields) /\ DOMAIN fields = Fields
                      /\ fields.at = "done" /\ fields.told \in {"ok", "unknown"}
    <3> HIDE DEF done
    <3> QED
      BY <2>a, <2>b
  <2>4. DOMAIN merge' = Merges /\ merge'[m] = fields
    BY <2>3 DEF MergeIs, MergeKnows
  <2>5. \A n \in Merges \ {m} : merge'[n] = merge[n]
    BY <2>3 DEF MergeIs, MergeKnows
  <2>6. /\ made' \in [Merges \cup Replacements -> {0, 1}] /\ made'[m] = 1
        /\ \A w \in (Merges \cup Replacements) \ {m} : made'[w] = made[w]
    BY <2>2 DEF MergeKnows
  <2>7. m \notin Replacements
    BY MergeAssumption
  <2> QED
    BY <1>0, <2>3, <2>4, <2>5, <2>6, <2>7 DEF MergeKnows
<1> QED
  BY <1>2, <1>3, <1>4, <1>6, <1>7

\* A call of ReplaceRuntimeGroupConfig.
LEMMA ReplaceStepKeeps ==
  ASSUME MergeKnows, NEW r \in Replacements, ReplaceWrites(r)
  PROVE  MergeKnows'
<1>1. UNCHANGED merge /\ DOMAIN replace' = Replacements /\ replace[r].at = "idle"
  BY DEF ReplaceWrites, MergeKnows
<1>a. DOMAIN replace'[r] = {"at", "new", "told"}
  BY DEF ReplaceWrites, MergeKnows
<1>2. \A q \in Replacements \ {r} : replace'[q] = replace[q]
  BY DEF ReplaceWrites, MergeKnows
<1>3. r \notin Merges /\ made[r] = 0
  BY <1>1, MergeAssumption DEF MergeKnows
<1>4. CASE UNCHANGED made
  BY <1>1, <1>a, <1>2, <1>3, <1>4 DEF MergeKnows
<1>5. CASE made' # made
  <2>1. made' = [made EXCEPT ![r] = 1]
    BY <1>3, <1>5 DEF ReplaceWrites, Writes
  <2>2. replace'[r].at = "done"
    BY <1>5, <1>1 DEF ReplaceWrites, MergeKnows
  <2>3. /\ made' \in [Merges \cup Replacements -> {0, 1}]
        /\ \A w \in (Merges \cup Replacements) \ {r} : made'[w] = made[w]
    BY <2>1 DEF MergeKnows
  <2> QED
    BY <1>1, <1>a, <1>2, <1>3, <2>2, <2>3 DEF MergeKnows
<1> QED
  BY <1>4, <1>5

\* Of the configuration, callers are told what was done.
LEMMA MergeTold == ASSUME MergeKnows PROVE MergeToldTruth
BY DEF MergeKnows, MergeToldTruth

(***************************************************************************)
(* Merging, fact by fact.                                                  *)
(***************************************************************************)
LEMMA ConfigParts ==
  ASSUME NEW c \in Configs
  PROVE  /\ DOMAIN c \subseteq Options
         /\ c \in [DOMAIN c -> Entries]
         /\ \A k \in DOMAIN c :
              /\ c[k].object => c[k].value \in Maps(Settings) /\ c[k] = Object(c[k].value)
              /\ ~c[k].object => c[k].value \in Settings /\ c[k] = Leaf(c[k].value)
              /\ c[k].object \in BOOLEAN
<1>1. PICK keys \in SUBSET Options : c \in [keys -> Entries]
  BY DEF Configs, Maps
<1>2. ASSUME NEW e \in Entries
      PROVE  /\ e.object => e.value \in Maps(Settings) /\ e = Object(e.value)
             /\ ~e.object => e.value \in Settings /\ e = Leaf(e.value)
             /\ e.object \in BOOLEAN
  <2>1. CASE e \in {Leaf(v) : v \in Settings}
    <3>1. PICK v \in Settings : e = Leaf(v)
      BY <2>1
    <3>2. e.object = FALSE /\ e.value = v
      BY <3>1 DEF Leaf
    <3> QED
      BY <3>1, <3>2
  <2>2. CASE e \in {Object(map) : map \in Maps(Settings)}
    <3>1. PICK map \in Maps(Settings) : e = Object(map)
      BY <2>2
    <3>2. e.object = TRUE /\ e.value = map
      BY <3>1 DEF Object
    <3> QED
      BY <3>1, <3>2
  <2> QED
    BY <2>1, <2>2 DEF Entries
<1> QED
  BY <1>1, <1>2

LEMMA OverlayOfMaps ==
  ASSUME NEW S, NEW base \in Maps(S), NEW delta \in Maps(S)
  PROVE  Overlay(base, delta) \in Maps(S)
<1>1. PICK b \in SUBSET Options : base \in [b -> S]
  BY DEF Maps
<1>2. PICK d \in SUBSET Options : delta \in [d -> S]
  BY DEF Maps
<1>3. Overlay(base, delta) \in [d \cup b -> S]
  BY <1>1, <1>2 DEF Overlay
<1> QED
  BY <1>3 DEF Maps

\* mergeRuntimeConfig, key by key, gives a configuration again.
LEMMA MergedIs ==
  ASSUME NEW b \in Configs, NEW d \in Configs
  PROVE  /\ mergeRuntimeConfig(b, d) \in Configs
         /\ DOMAIN mergeRuntimeConfig(b, d) = DOMAIN d \cup DOMAIN b
         /\ \A k \in DOMAIN b \ DOMAIN d : mergeRuntimeConfig(b, d)[k] = b[k]
         /\ \A k \in DOMAIN d :
              mergeRuntimeConfig(b, d)[k] =
                IF k \in DOMAIN b /\ b[k].object /\ d[k].object
                THEN Object(Overlay(b[k].value, d[k].value)) ELSE d[k]
<1> DEFINE inner == [k \in DOMAIN d |->
                       IF k \in DOMAIN b /\ b[k].object /\ d[k].object
                       THEN Object(Overlay(b[k].value, d[k].value)) ELSE d[k]]
<1>1. mergeRuntimeConfig(b, d) = Overlay(b, inner) /\ DOMAIN inner = DOMAIN d
  BY DEF mergeRuntimeConfig
<1>2. ASSUME NEW k \in DOMAIN d
      PROVE  inner[k] \in Entries
  <2>1. CASE k \in DOMAIN b /\ b[k].object /\ d[k].object
    <3>1. Overlay(b[k].value, d[k].value) \in Maps(Settings)
      BY <2>1, ConfigParts, OverlayOfMaps
    <3> QED
      BY <2>1, <3>1 DEF Entries
  <2>2. CASE ~(k \in DOMAIN b /\ b[k].object /\ d[k].object)
    BY <2>2, ConfigParts
  <2> QED
    BY <2>1, <2>2
<1>3. inner \in Maps(Entries)
  BY <1>2, ConfigParts DEF Maps
<1>4. mergeRuntimeConfig(b, d) \in Configs
  BY <1>1, <1>3, OverlayOfMaps DEF Configs
<1>5. Overlay(b, inner) = [k \in DOMAIN d \cup DOMAIN b |-> IF k \in DOMAIN d THEN inner[k] ELSE b[k]]
  BY <1>1 DEF Overlay
<1> QED
  BY <1>1, <1>4, <1>5

\* A configuration states of a key what it holds, and of a key in an object too.
LEMMA FactsAre ==
  ASSUME NEW c \in Configs
  PROVE  /\ \A f \in Facts(c) : f = <<f[1], f[2], f[3]>>
         /\ \A k, n, v : <<k, n, v>> \in Facts(c) <=>
              /\ k \in DOMAIN c
              /\ \/ n = Itself /\ v = IF c[k].object THEN AnObject ELSE c[k].value
                 \/ c[k].object /\ n \in DOMAIN c[k].value /\ v = c[k].value[n]
BY DEF Facts

\* What SharedConfig says of the facts of a configuration.
LEMMA FactsMean ==
  ASSUME NEW c \in Configs, NEW k
  PROVE  /\ Shared!Mentions(Facts(c), k) <=> k \in DOMAIN c
         /\ Shared!Holds(Facts(c), k) <=> k \in DOMAIN c /\ c[k].object
         /\ \A n : Shared!States(Facts(c), k, n) <=>
              /\ k \in DOMAIN c
              /\ n = Itself \/ (c[k].object /\ n \in DOMAIN c[k].value)
<1>1. Shared!Mentions(Facts(c), k) <=> k \in DOMAIN c
  <2>1. ASSUME k \in DOMAIN c
        PROVE  Shared!Mentions(Facts(c), k)
    <3>1. <<k, Itself, IF c[k].object THEN AnObject ELSE c[k].value>> \in Facts(c)
      BY <2>1, FactsAre
    <3> QED
      BY <3>1 DEF Shared!Mentions
  <2>2. ASSUME NEW f \in Facts(c), f[1] = k
        PROVE  k \in DOMAIN c
    BY <2>2, FactsAre
  <2> QED
    BY <2>1, <2>2 DEF Shared!Mentions
<1>2. Shared!Holds(Facts(c), k) <=> k \in DOMAIN c /\ c[k].object
  <2>1. ASSUME k \in DOMAIN c, <<k, Itself, AnObject>> \in Facts(c), ~c[k].object
        PROVE  FALSE
    BY <2>1, FactsAre, ConfigParts, ConfigsAssumption
  <2> QED
    BY <2>1, FactsAre DEF Shared!Holds
<1>3. ASSUME NEW n
      PROVE  Shared!States(Facts(c), k, n) <=>
               /\ k \in DOMAIN c
               /\ n = Itself \/ (c[k].object /\ n \in DOMAIN c[k].value)
  <2>1. ASSUME k \in DOMAIN c, n = Itself
        PROVE  Shared!States(Facts(c), k, n)
    <3>1. <<k, n, IF c[k].object THEN AnObject ELSE c[k].value>> \in Facts(c)
      BY <2>1, FactsAre
    <3> QED
      BY <3>1 DEF Shared!States
  <2>2. ASSUME k \in DOMAIN c, c[k].object, n \in DOMAIN c[k].value
        PROVE  Shared!States(Facts(c), k, n)
    <3>1. <<k, n, c[k].value[n]>> \in Facts(c)
      BY <2>2, FactsAre
    <3> QED
      BY <3>1 DEF Shared!States
  <2>3. ASSUME NEW f \in Facts(c), f[1] = k, f[2] = n
        PROVE  /\ k \in DOMAIN c
               /\ n = Itself \/ (c[k].object /\ n \in DOMAIN c[k].value)
    <3>1. <<k, n, f[3]>> \in Facts(c)
      BY <2>3, FactsAre
    <3> QED
      BY <3>1, FactsAre
  <2> QED
    BY <2>1, <2>2, <2>3 DEF Shared!States
<1> QED
  BY <1>1, <1>2, <1>3

\* Of a key that only one side mentions, or that is not an object on both, the merge
\* states what the delta does, or else what was there; of one that is an object on both
\* it states what either does, the delta first.
LEMMA MergedFacts ==
  ASSUME NEW b \in Configs, NEW d \in Configs
  PROVE  Facts(mergeRuntimeConfig(b, d)) = Facts(d) \cup Shared!Stays(Facts(b), Facts(d))
<1> DEFINE c == mergeRuntimeConfig(b, d)
           both(k) == k \in DOMAIN b /\ b[k].object /\ k \in DOMAIN d /\ d[k].object
<1>1. c \in Configs /\ DOMAIN c = DOMAIN d \cup DOMAIN b
  BY MergedIs
<1>2. \A f \in Facts(c) \cup Facts(d) \cup Facts(b) : f = <<f[1], f[2], f[3]>>
  BY <1>1, FactsAre
<1>3. ASSUME NEW k, NEW n, NEW v
      PROVE  <<k, n, v>> \in Shared!Stays(Facts(b), Facts(d)) <=>
               /\ <<k, n, v>> \in Facts(b)
               /\ \/ k \notin DOMAIN d
                  \/ both(k) /\ n # Itself /\ n \notin DOMAIN d[k].value
  BY FactsMean DEF Shared!Stays
<1>4. ASSUME NEW k, NEW n, NEW v, both(k)
      PROVE  <<k, n, v>> \in Facts(c) <=>
               <<k, n, v>> \in Facts(d) \cup Shared!Stays(Facts(b), Facts(d))
  <2> DEFINE o == Overlay(b[k].value, d[k].value)
  <2>1. c[k] = Object(o) /\ k \in DOMAIN c
    BY <1>1, <1>4, MergedIs
  <2>2. c[k].object /\ c[k].value = o
    BY <2>1 DEF Object
  <2>3. /\ DOMAIN o = DOMAIN d[k].value \cup DOMAIN b[k].value
        /\ \A m \in DOMAIN d[k].value : o[m] = d[k].value[m]
        /\ \A m \in DOMAIN b[k].value \ DOMAIN d[k].value : o[m] = b[k].value[m]
    BY DEF Overlay
  <2>4. Itself \notin DOMAIN b[k].value /\ Itself \notin DOMAIN d[k].value
    BY <1>4, ConfigParts, ConfigsAssumption DEF Maps
  <2> HIDE DEF o, c
  <2>5. <<k, n, v>> \in Facts(c) <=>
          (n = Itself /\ v = AnObject) \/ (n \in DOMAIN o /\ v = o[n])
    BY <1>1, <2>1, <2>2, FactsAre
  <2>6. <<k, n, v>> \in Facts(d) <=>
          (n = Itself /\ v = AnObject) \/ (n \in DOMAIN d[k].value /\ v = d[k].value[n])
    BY <1>4, FactsAre
  <2>7. <<k, n, v>> \in Facts(b) <=>
          (n = Itself /\ v = AnObject) \/ (n \in DOMAIN b[k].value /\ v = b[k].value[n])
    BY <1>4, FactsAre
  <2> QED
    BY <1>3, <1>4, <2>3, <2>4, <2>5, <2>6, <2>7
<1>5. ASSUME NEW k, NEW n, NEW v, ~both(k)
      PROVE  <<k, n, v>> \in Facts(c) <=>
               <<k, n, v>> \in Facts(d) \cup Shared!Stays(Facts(b), Facts(d))
  <2>1. k \in DOMAIN d => c[k] = d[k]
    BY <1>5, MergedIs
  <2>2. k \in DOMAIN b \ DOMAIN d => c[k] = b[k]
    BY MergedIs
  <2> HIDE DEF c, both
  <2>3. CASE k \in DOMAIN d
    BY <1>1, <1>3, <1>5, <2>1, <2>3, FactsAre
  <2>4. CASE k \notin DOMAIN d
    BY <1>1, <1>3, <1>5, <2>2, <2>4, FactsAre
  <2> QED
    BY <2>3, <2>4
<1>6. \A f \in Shared!Stays(Facts(b), Facts(d)) : f \in Facts(b)
  BY DEF Shared!Stays
<1> HIDE DEF c, both
<1>7. \A k, n, v : <<k, n, v>> \in Facts(c) <=>
                     <<k, n, v>> \in Facts(d) \cup Shared!Stays(Facts(b), Facts(d))
  BY <1>4, <1>5
<1> QED
  BY <1>2, <1>6, <1>7 DEF c

MergeFields == [at : {"idle", "read", "write", "done"}, delta : Configs, base : Configs,
                attempt : 0..2, told : {"none", "ok", "error", "conflict", "unknown"}]
ReplaceFields == [at : {"idle", "done"}, new : Configs, told : {"none", "ok", "error", "unknown"}]

\* A step of a call of UpdateRuntimeGroupConfig keeps what it merges in; it changes
\* nothing, or the configuration as it is into the one with its own changes.
LEMMA MergeStepAtomic ==
  ASSUME MergeKnows, MergeTypeOK, NEW m \in Merges,
         MergeBegins(m) \/ MergeReads(m) \/ MergeWrites(m) \/ MergeConflicts(m)
  PROVE  /\ merge' \in [Merges -> MergeFields] /\ replace' = replace
         /\ \A n \in Merges : merge'[n].delta = merge[n].delta
         /\ \/ UNCHANGED <<stored, made>>
            \/ Writes(m, mergeRuntimeConfig(stored, merge[m].delta))
<1> DEFINE x == merge[m]
<1>1. /\ merge \in [Merges -> MergeFields] /\ x \in MergeFields /\ stored \in Configs
      /\ x.attempt \in 0..2
  BY DEF MergeTypeOK, MergeFields
<1>2. ASSUME NEW fields \in MergeFields, MergeIs(m, fields), fields.delta = x.delta
      PROVE  /\ merge' \in [Merges -> MergeFields]
             /\ \A n \in Merges : merge'[n].delta = merge[n].delta
  BY <1>1, <1>2 DEF MergeIs
<1>3. ASSUME NEW told \in {"none", "ok", "error", "conflict", "unknown"},
             MergeIs(m, [x EXCEPT !.at = "done", !.told = told])
      PROVE  /\ merge' \in [Merges -> MergeFields]
             /\ \A n \in Merges : merge'[n].delta = merge[n].delta
  <2> DEFINE y == [x EXCEPT !.at = "done", !.told = told]
  <2>1. y \in MergeFields /\ y.delta = x.delta /\ MergeIs(m, y)
    BY <1>1, <1>3 DEF MergeFields
  <2> HIDE DEF y
  <2> QED
    BY <1>2, <2>1
<1>4. CASE MergeBegins(m)
  <2> DEFINE y == [x EXCEPT !.at = "read"]
  <2>1. y \in MergeFields /\ y.delta = x.delta /\ MergeIs(m, y)
    BY <1>1, <1>4 DEF MergeFields, MergeBegins
  <2> HIDE DEF y
  <2> QED
    BY <1>2, <1>4, <2>1 DEF MergeBegins
<1>5. CASE MergeReads(m)
  <2> DEFINE y == [x EXCEPT !.at = "write", !.base = stored]
  <2>1. y \in MergeFields /\ y.delta = x.delta
    BY <1>1 DEF MergeFields
  <2>2. MergeIs(m, y) \/ MergeIs(m, [x EXCEPT !.at = "done", !.told = "error"])
    BY <1>5 DEF MergeReads
  <2> HIDE DEF y
  <2> QED
    BY <1>2, <1>3, <1>5, <2>1, <2>2 DEF MergeReads
<1>6. CASE MergeConflicts(m)
  <2>1. CASE MergeIs(m, Unanswered(m))
    BY <1>3, <1>6, <2>1 DEF MergeConflicts, Unanswered
  <2>2. CASE TriedOut(m) /\ MergeIs(m, [x EXCEPT !.at = "done", !.told = "conflict"])
    BY <1>3, <1>6, <2>2 DEF MergeConflicts
  <2>3. CASE ~TriedOut(m) /\ MergeIs(m, ReadsAgain(m))
    <3> DEFINE y == [x EXCEPT !.at = "read", !.attempt = x.attempt + 1]
    <3>1. x.attempt + 1 \in 0..2
      BY <1>1, <2>3 DEF TriedOut
    <3>2. y \in MergeFields /\ y.delta = x.delta
      BY <1>1, <3>1 DEF MergeFields
    <3>3. MergeIs(m, y)
      BY <2>3 DEF ReadsAgain
    <3> HIDE DEF y
    <3> QED
      BY <1>2, <1>6, <3>2, <3>3 DEF MergeConflicts
  <2> QED
    BY <1>6, <2>1, <2>2, <2>3 DEF MergeConflicts
<1>7. CASE MergeWrites(m)
  <2>1. PICK told \in {"ok", "error", "unknown"} :
          MergeIs(m, [x EXCEPT !.at = "done", !.told = told])
    BY <1>7 DEF MergeWrites, Unanswered
  <2>2. \/ UNCHANGED <<stored, made>>
        \/ Writes(m, mergeRuntimeConfig(stored, merge[m].delta))
    BY <1>7 DEF MergeWrites, RevisionHolds, Merged
  <2> QED
    BY <1>3, <1>7, <2>1, <2>2 DEF MergeWrites
<1> QED
  BY <1>4, <1>5, <1>6, <1>7

\* A step of a call of ReplaceRuntimeGroupConfig writes its configuration, or nothing.
LEMMA ReplaceStepAtomic ==
  ASSUME MergeTypeOK, NEW r \in Replacements, ReplaceWrites(r)
  PROVE  /\ replace' \in [Replacements -> ReplaceFields] /\ merge' = merge
         /\ \A q \in Replacements : replace'[q].new = replace[q].new
         /\ UNCHANGED <<stored, made>> \/ Writes(r, replace[r].new)
<1> DEFINE x == replace[r]
<1>1. replace \in [Replacements -> ReplaceFields] /\ x \in ReplaceFields
  BY DEF MergeTypeOK, ReplaceFields
<1>2. PICK told \in {"ok", "error", "unknown"} :
        replace' = [replace EXCEPT ![r] = [x EXCEPT !.at = "done", !.told = told]]
  <2>1. PICK told \in {"ok", "error", "unknown"} :
          replace' = [replace EXCEPT ![r].at = "done", ![r].told = told]
    BY DEF ReplaceWrites
  <2>2. replace' = [replace EXCEPT ![r] = [x EXCEPT !.at = "done", !.told = told]]
    BY <1>1, <2>1
  <2> QED
    BY <2>2
<1> DEFINE y == [x EXCEPT !.at = "done", !.told = told]
<1>3. y \in ReplaceFields /\ y.new = x.new
  BY <1>1 DEF ReplaceFields
<1> HIDE DEF y
<1>4. /\ replace' \in [Replacements -> ReplaceFields]
      /\ \A q \in Replacements : replace'[q].new = replace[q].new
  <2>1. replace' = [replace EXCEPT ![r] = y]
    BY <1>2 DEF y
  <2> QED
    BY <1>1, <1>3, <2>1
<1> QED
  BY <1>4 DEF ReplaceWrites

\* The types of calls and configurations, and that what each call states stays.
LEMMA MergeTyped ==
  ASSUME MergeKnows, MergeTypeOK, MergeKnows', MergeNext
  PROVE  MergeTypeOK' /\ Wanted' = Wanted
<1>0. /\ merge \in [Merges -> MergeFields] /\ replace \in [Replacements -> ReplaceFields]
      /\ stored \in Configs
  BY DEF MergeTypeOK, MergeFields, ReplaceFields
<1>1. made' \in [Merges \cup Replacements -> 0..3]
  BY DEF MergeKnows
<1>2. ASSUME NEW m \in Merges,
             MergeBegins(m) \/ MergeReads(m) \/ MergeWrites(m) \/ MergeConflicts(m)
      PROVE  MergeTypeOK' /\ Wanted' = Wanted
  <2>1. /\ merge' \in [Merges -> MergeFields] /\ replace' = replace
        /\ \A n \in Merges : merge'[n].delta = merge[n].delta
    BY <1>2, MergeStepAtomic
  <2>2. stored' \in Configs
    <3>1. stored' = stored \/ stored' = mergeRuntimeConfig(stored, merge[m].delta)
      BY <1>2, MergeStepAtomic DEF Writes
    <3>2. merge[m].delta \in Configs
      BY <1>0 DEF MergeFields
    <3> QED
      BY <1>0, <3>1, <3>2, MergedIs
  <2>3. MergeTypeOK'
    BY <1>0, <1>1, <2>1, <2>2 DEF MergeTypeOK, MergeFields, ReplaceFields
  <2> QED
    BY <2>1, <2>3 DEF Wanted
<1>3. ASSUME NEW r \in Replacements, ReplaceWrites(r)
      PROVE  MergeTypeOK' /\ Wanted' = Wanted
  <2>1. /\ replace' \in [Replacements -> ReplaceFields] /\ merge' = merge
        /\ \A q \in Replacements : replace'[q].new = replace[q].new
    BY <1>3, ReplaceStepAtomic
  <2>2. stored' \in Configs
    <3>1. stored' = stored \/ stored' = replace[r].new
      BY <1>3, ReplaceStepAtomic DEF Writes
    <3> QED
      BY <1>0, <3>1 DEF ReplaceFields
  <2>3. MergeTypeOK'
    BY <1>0, <1>1, <2>1, <2>2 DEF MergeTypeOK, MergeFields, ReplaceFields
  <2> QED
    BY <2>1, <2>3 DEF Wanted
<1> QED
  BY <1>2, <1>3 DEF MergeNext

\* Every step of a call is a change of SharedConfig, or changes nothing there.
LEMMA MergeStepShared ==
  ASSUME MergeKnows, MergeTypeOK, MergeKnows', MergeNext
  PROVE  [Shared!Next]_<<Facts(stored), Wanted, made>>
<1>1. Wanted' = Wanted
  BY MergeTyped
<1>2. ASSUME NEW m \in Merges, Writes(m, mergeRuntimeConfig(stored, merge[m].delta))
      PROVE  Shared!Change(m)
  <2>1. stored \in Configs /\ merge[m].delta \in Configs
    BY DEF MergeTypeOK
  <2>2. Facts(stored)' = Facts(merge[m].delta) \cup Shared!Stays(Facts(stored), Facts(merge[m].delta))
    <3>1. Facts(stored)' = Facts(mergeRuntimeConfig(stored, merge[m].delta))
      BY <1>2 DEF Writes, Facts
    <3> QED
      BY <2>1, <3>1, MergedFacts
  <2>3. Wanted[m].states = Facts(merge[m].delta) /\ ~Wanted[m].alone
    BY DEF Wanted
  <2> QED
    BY <1>1, <1>2, <2>2, <2>3 DEF Shared!Change, Writes
<1>3. ASSUME NEW r \in Replacements, Writes(r, replace[r].new)
      PROVE  Shared!Change(r)
  <2>1. Facts(stored)' = Facts(replace[r].new)
    BY <1>3 DEF Writes, Facts
  <2>2. Wanted[r].states = Facts(replace[r].new) /\ Wanted[r].alone
    BY MergeAssumption DEF Wanted
  <2> QED
    BY <1>1, <1>3, <2>1, <2>2 DEF Shared!Change, Writes
<1>4. UNCHANGED <<stored, made>> => UNCHANGED <<Facts(stored), Wanted, made>>
  BY <1>1 DEF Facts
<1> QED
  BY <1>2, <1>3, <1>4, MergeStepAtomic, ReplaceStepAtomic DEF MergeNext, Shared!Next

(***************************************************************************)
(* The token.                                                              *)
(***************************************************************************)
\* Why a revoke may be told as done: its token is dead, or the one it sent is
\* and was another.
Revoked(r) ==
  \/ life[revoke[r].target] = "dead"
  \/ revoke[r].by # revoke[r].target /\ life[revoke[r].by] = "dead"

\* What a revoke at its place knows: which token it is about, and that this
\* token, if it was the one held and another was sent, is held no more.
RevokeKnows(r) ==
  LET v == revoke[r]
  IN  /\ v.at = "idle" => v.target = NoToken
      /\ v.at # "done" => v.told = "none"
      /\ v.at \in {"sending", "sent", "forgetting"} =>
           v.target # NoToken /\ (v.own => signIn[v.target].at = "done")
      /\ v.at \in {"sent", "forgetting"} =>
           v.by # NoToken /\ (v.own /\ v.by # v.target => held.id # v.target)
      /\ v.at = "forgetting" => Revoked(r)
      /\ v.told = "ok" /\ v.target # NoToken => Revoked(r) /\ v.by # NoToken

\* A token is issued once, kept once, and named by its own id.
TokenKnows ==
  /\ TokenTypeOK
  /\ \A s \in SignIns : signIn[s].at = "idle" <=> life[s] = "unissued"
  /\ held.id \in {held.access, NoToken}
  /\ held.access # NoToken => signIn[held.access].at = "done"
  /\ \A r \in Revokes : RevokeKnows(r)

\* Sign-ins, and tokens that expire: a dead token stays dead, and one that was
\* kept once is never kept again.
LEMMA SignInStepKeeps ==
  ASSUME TokenKnows, NEW s \in SignIns, SignInAnswered(s) \/ SignInKept(s) \/ TokenExpires(s)
  PROVE  TokenKnows'
<1>0. UNCHANGED revoke
  BY DEF SignInAnswered, SignInKept, TokenExpires
<1>1. \A t \in SignIns : life[t] = "dead" => life'[t] = "dead"
  BY DEF SignInAnswered, SignInKept, TokenExpires, TokenKnows, TokenTypeOK
<1>2. \A t \in SignIns : signIn[t].at = "done" => signIn'[t].at = "done"
  BY DEF SignInAnswered, SignInKept, TokenExpires, TokenKnows, TokenTypeOK
<1>3. TokenTypeOK'
  <2>1. held' \in [access : MaybeToken, id : MaybeToken, revokedOwn : BOOLEAN]
    <3>1. s \in MaybeToken /\ IdOf(s) \in MaybeToken
      BY DEF IdOf, MaybeToken
    <3>2. [access |-> s, id |-> IdOf(s), revokedOwn |-> FALSE]
            \in [access : MaybeToken, id : MaybeToken, revokedOwn : BOOLEAN]
      BY <3>1
    <3>3. held' = held \/ held' = [access |-> s, id |-> IdOf(s), revokedOwn |-> FALSE]
      BY DEF SignInAnswered, SignInKept, TokenExpires
    <3> QED
      BY <3>2, <3>3 DEF TokenKnows, TokenTypeOK
  <2>2. life' \in [SignIns -> {"unissued", "alive", "dead"}]
    BY DEF SignInAnswered, SignInKept, TokenExpires, TokenKnows, TokenTypeOK
  <2>3. signIn' \in [SignIns -> [at : {"idle", "answered", "done"}, named : BOOLEAN]]
    <3>1. CASE SignInAnswered(s)
      BY <3>1 DEF SignInAnswered, TokenKnows, TokenTypeOK
    <3>2. CASE SignInKept(s)
      <4>1. [signIn[s] EXCEPT !.at = "done"] \in [at : {"idle", "answered", "done"}, named : BOOLEAN]
        BY DEF TokenKnows, TokenTypeOK
      <4>2. signIn' = [signIn EXCEPT ![s] = [signIn[s] EXCEPT !.at = "done"]]
        BY <3>2 DEF SignInKept, TokenKnows, TokenTypeOK
      <4> QED
        BY <4>1, <4>2 DEF TokenKnows, TokenTypeOK
    <3>3. CASE TokenExpires(s)
      BY <3>3 DEF TokenExpires, TokenKnows, TokenTypeOK
    <3> QED
      BY <3>1, <3>2, <3>3
  <2> QED
    BY <1>0, <2>1, <2>2, <2>3 DEF TokenKnows, TokenTypeOK
<1>4. \A t \in SignIns : signIn'[t].at = "idle" <=> life'[t] = "unissued"
  BY DEF SignInAnswered, SignInKept, TokenExpires, TokenKnows, TokenTypeOK
<1>5. held'.id \in {held'.access, NoToken}
  BY DEF SignInAnswered, SignInKept, TokenExpires, TokenKnows, IdOf
<1>6. held'.access # NoToken => signIn'[held'.access].at = "done"
  BY <1>2 DEF SignInAnswered, SignInKept, TokenExpires, TokenKnows, TokenTypeOK, MaybeToken
<1>7. ASSUME NEW t \in SignIns, signIn[t].at = "done", held.id # t PROVE held'.id # t
  BY <1>7, TokenAssumption
     DEF SignInAnswered, SignInKept, TokenExpires, TokenKnows, TokenTypeOK, IdOf
<1>8. ASSUME NEW r \in Revokes PROVE RevokeKnows(r)'
  <2>1. RevokeKnows(r) /\ revoke[r].target \in MaybeToken /\ revoke[r].by \in MaybeToken
    BY DEF TokenKnows, TokenTypeOK
  <2>2. Revoked(r) /\ revoke[r].target # NoToken /\ revoke[r].by # NoToken => Revoked(r)'
    BY <1>0, <1>1, <2>1 DEF Revoked, MaybeToken
  <2> QED
    BY <1>0, <1>2, <1>7, <2>1, <2>2 DEF RevokeKnows, MaybeToken
<1> QED
  BY <1>3, <1>4, <1>5, <1>6, <1>8 DEF TokenKnows

\* A call of RevokeAPIToken.
LEMMA RevokeStepKeeps ==
  ASSUME TokenKnows, NEW r \in Revokes,
         RevokeBegins(r) \/ RevokeSends(r) \/ RevokeAnswered(r) \/ RevokeForgets(r)
  PROVE  TokenKnows'
<1> DEFINE v == revoke[r]
<1>0. UNCHANGED signIn
  BY DEF RevokeBegins, RevokeSends, RevokeAnswered, RevokeForgets
<1>a. v \in [at : {"idle", "sending", "sent", "forgetting", "done"}, target : MaybeToken,
             own : BOOLEAN, by : MaybeToken, told : {"none", "ok", "error"}] /\ RevokeKnows(r)
  BY DEF TokenKnows, TokenTypeOK
<1>b. \A t \in SignIns : life[t] = "dead" => life'[t] = "dead"
  BY DEF RevokeBegins, RevokeSends, RevokeAnswered, RevokeForgets, TokenKnows, TokenTypeOK
<1>c. held' = held \/ held' = [access |-> NoToken, id |-> NoToken, revokedOwn |-> TRUE]
  BY DEF RevokeBegins, RevokeSends, RevokeAnswered, RevokeForgets
<1>d. /\ life' \in [SignIns -> {"unissued", "alive", "dead"}]
      /\ \A t \in SignIns : life'[t] = "unissued" <=> life[t] = "unissued"
  BY DEF RevokeBegins, RevokeSends, RevokeAnswered, RevokeForgets, TokenKnows, TokenTypeOK
<1>e. ASSUME NEW q \in Revokes \ {r}, revoke'[q] = revoke[q] PROVE RevokeKnows(q)'
  <2>1. RevokeKnows(q) /\ revoke[q].target \in MaybeToken /\ revoke[q].by \in MaybeToken
    BY DEF TokenKnows, TokenTypeOK
  <2>2. Revoked(q) /\ revoke[q].target # NoToken /\ revoke[q].by # NoToken => Revoked(q)'
    BY <1>b, <1>e, <2>1 DEF Revoked, MaybeToken
  <2> QED
    BY <1>0, <1>c, <1>e, <2>1, <2>2 DEF RevokeKnows, MaybeToken
<1>f. ASSUME NEW w \in [at : {"idle", "sending", "sent", "forgetting", "done"}, target : MaybeToken,
                        own : BOOLEAN, by : MaybeToken, told : {"none", "ok", "error"}],
             revoke' = [revoke EXCEPT ![r] = w], revoke'[r] = w => RevokeKnows(r)'
      PROVE  TokenKnows'
  <2>1. revoke'[r] = w /\ \A q \in Revokes \ {r} : revoke'[q] = revoke[q]
    BY <1>f DEF TokenKnows, TokenTypeOK
  <2>a. held' \in [access : MaybeToken, id : MaybeToken, revokedOwn : BOOLEAN]
    <3>1. [access |-> NoToken, id |-> NoToken, revokedOwn |-> TRUE]
            \in [access : MaybeToken, id : MaybeToken, revokedOwn : BOOLEAN]
      BY DEF MaybeToken
    <3> QED
      BY <1>c, <3>1 DEF TokenKnows, TokenTypeOK
  <2>b. revoke' \in [Revokes -> [at : {"idle", "sending", "sent", "forgetting", "done"},
          target : MaybeToken, own : BOOLEAN, by : MaybeToken, told : {"none", "ok", "error"}]]
    BY <1>f DEF TokenKnows, TokenTypeOK
  <2>2. TokenTypeOK'
    BY <1>0, <1>d, <2>a, <2>b DEF TokenKnows, TokenTypeOK
  <2>3. \A q \in Revokes : RevokeKnows(q)'
    BY <1>e, <1>f, <2>1
  <2> QED
    BY <1>0, <1>c, <1>d, <2>2, <2>3 DEF TokenKnows
<1>1. ASSUME NEW what \in {"ok", "error"}, Told(r, what), what = "ok" /\ v.target # NoToken =>
             Revoked(r)' /\ v.by # NoToken
      PROVE  TokenKnows'
  <2> DEFINE w == [v EXCEPT !.at = "done", !.told = what]
  <2>1. w.at = "done" /\ w.told = what /\ w.target = v.target /\ w.by = v.by
    BY <1>a
  <2>2. w \in [at : {"idle", "sending", "sent", "forgetting", "done"}, target : MaybeToken,
               own : BOOLEAN, by : MaybeToken, told : {"none", "ok", "error"}]
    BY <1>a
  <2>3. revoke' = [revoke EXCEPT ![r] = w]
    BY <1>1 DEF Told, RevokeIs
  <2> HIDE DEF w
  <2>4. revoke'[r] = w => RevokeKnows(r)'
    BY <1>1, <2>1 DEF RevokeKnows
  <2> QED
    BY <1>f, <2>2, <2>3, <2>4
<1>2. CASE RevokeBegins(r)
  <2>1. v.at = "idle" /\ v.target = NoToken
    BY <1>2, <1>a DEF RevokeBegins, RevokeKnows
  <2>2. PICK given \in MaybeToken :
          LET target == IF given # NoToken THEN given ELSE held.id
          IN  IF target = NoToken
              THEN Told(r, IF held.revokedOwn /\ held.access = NoToken THEN "ok" ELSE "error")
              ELSE RevokeIs(r, [v EXCEPT !.at = "sending", !.target = target, !.own = target = held.id])
    BY <1>2 DEF RevokeBegins
  <2> DEFINE target == IF given # NoToken THEN given ELSE held.id
             w == [v EXCEPT !.at = "sending", !.target = target, !.own = target = held.id]
  <2>3. CASE target = NoToken
    BY <1>1, <2>1, <2>2, <2>3
  <2>4. CASE target # NoToken
    <3>1. target \in MaybeToken /\ held.id \in {held.access, NoToken}
          /\ (held.access # NoToken => signIn[held.access].at = "done")
      BY DEF TokenKnows, TokenTypeOK
    <3>2. /\ w.at = "sending" /\ w.target = target /\ (w.own => target = held.id)
          /\ w.told = v.told /\ w.by = v.by
      BY <1>a
    <3>3. w \in [at : {"idle", "sending", "sent", "forgetting", "done"}, target : MaybeToken,
                 own : BOOLEAN, by : MaybeToken, told : {"none", "ok", "error"}]
      BY <1>a, <3>1
    <3>4. revoke' = [revoke EXCEPT ![r] = w]
      BY <2>2, <2>4 DEF RevokeIs
    <3>5. v.told = "none"
      BY <1>a, <2>1 DEF RevokeKnows
    <3> HIDE DEF w
    <3>6. revoke'[r] = w => RevokeKnows(r)'
      BY <1>0, <2>4, <3>1, <3>2, <3>5 DEF RevokeKnows
    <3> QED
      BY <1>f, <3>3, <3>4, <3>6
  <2> QED
    BY <2>3, <2>4
<1>3. CASE RevokeSends(r)
  <2>1. CASE held.access = NoToken
    BY <1>1, <1>3, <2>1 DEF RevokeSends
  <2>2. CASE held.access # NoToken
    <3> DEFINE w == [v EXCEPT !.at = "sent", !.by = held.access]
    <3>1. /\ w.at = "sent" /\ w.by = held.access /\ w.target = v.target /\ w.own = v.own
          /\ w.told = v.told
      BY <1>a
    <3>2. w \in [at : {"idle", "sending", "sent", "forgetting", "done"}, target : MaybeToken,
                 own : BOOLEAN, by : MaybeToken, told : {"none", "ok", "error"}]
      BY <1>a DEF TokenKnows, TokenTypeOK
    <3>3. revoke' = [revoke EXCEPT ![r] = w] /\ held' = held /\ v.at = "sending"
      BY <1>3, <2>2 DEF RevokeSends, RevokeIs
    <3>4. held.id \in {held.access, NoToken}
      BY DEF TokenKnows
    <3> HIDE DEF w
    <3>5. revoke'[r] = w => RevokeKnows(r)'
      BY <1>0, <1>a, <2>2, <3>1, <3>3, <3>4 DEF RevokeKnows
    <3> QED
      BY <1>f, <3>2, <3>3, <3>5
  <2> QED
    BY <2>1, <2>2
<1>4. CASE RevokeAnswered(r)
  <2> DEFINE w == [v EXCEPT !.at = "forgetting"]
  <2>1. v.at = "sent" /\ held' = held
    BY <1>4 DEF RevokeAnswered
  <2>2. CASE Told(r, "error")
    BY <1>1, <2>2
  <2>3. CASE ~Told(r, "error")
    <3>1. /\ w.at = "forgetting" /\ w.by = v.by /\ w.target = v.target /\ w.own = v.own
          /\ w.told = v.told
      BY <1>a
    <3>2. w \in [at : {"idle", "sending", "sent", "forgetting", "done"}, target : MaybeToken,
                 own : BOOLEAN, by : MaybeToken, told : {"none", "ok", "error"}]
      BY <1>a
    <3>3. revoke' = [revoke EXCEPT ![r] = w]
      BY <1>4, <2>3 DEF RevokeAnswered, RevokeIs
    <3>4. life'[v.target] = "dead" \/ (v.by # v.target /\ life'[v.by] = "dead")
      <4>1. v.target \in SignIns /\ v.by \in SignIns
        BY <1>a, <2>1 DEF RevokeKnows, MaybeToken
      <4>2. CASE life[v.by] = "dead"
        BY <1>b, <4>1, <4>2
      <4>3. CASE life[v.by] # "dead"
        <5>1. life' = [life EXCEPT ![v.target] = "dead"]
          BY <1>4, <2>3, <4>3 DEF RevokeAnswered
        <5>2. life \in [SignIns -> {"unissued", "alive", "dead"}]
          BY DEF TokenKnows, TokenTypeOK
        <5>3. life'[v.target] = "dead"
          BY <4>1, <5>1, <5>2
        <5> QED
          BY <5>3
      <4> QED
        BY <4>2, <4>3
    <3> HIDE DEF w
    <3>5. revoke'[r] = w => RevokeKnows(r)'
      BY <1>0, <1>a, <2>1, <3>1, <3>4 DEF RevokeKnows, Revoked
    <3> QED
      BY <1>f, <3>2, <3>3, <3>5
  <2> QED
    BY <2>2, <2>3
<1>5. CASE RevokeForgets(r)
  <2>1. Told(r, "ok") /\ life' = life /\ v.at = "forgetting"
    BY <1>5 DEF RevokeForgets
  <2>2. revoke'[r].by = v.by /\ revoke'[r].target = v.target
    BY <1>a, <2>1 DEF Told, RevokeIs, TokenKnows, TokenTypeOK
  <2> QED
    BY <1>1, <1>a, <2>1, <2>2 DEF RevokeKnows, Revoked
<1> QED
  BY <1>2, <1>3, <1>4, <1>5

\* Of tokens, callers are told what is so.
LEMMA TokenTold == ASSUME TokenKnows PROVE TokenTruth
BY DEF TokenKnows, RevokeKnows, Revoked, TokenTruth

\* Only a dead token is forgotten.
LEMMA LiveTokenStays ==
  ASSUME TokenKnows, TokenNext
  PROVE  LiveTokenKept
<1> SUFFICES ASSUME held.access # NoToken, held'.access = NoToken
             PROVE  life[held.access] = "dead"
  BY DEF LiveTokenKept
<1>1. ASSUME NEW s \in SignIns, SignInAnswered(s) \/ SignInKept(s) \/ TokenExpires(s)
      PROVE  FALSE
  BY <1>1, TokenAssumption DEF SignInAnswered, SignInKept, TokenExpires
<1>2. PICK r \in Revokes : RevokeForgets(r)
  BY <1>1 DEF TokenNext, RevokeBegins, RevokeSends, RevokeAnswered
<1>3. StillHeld(r) /\ revoke[r].at = "forgetting"
  BY <1>2 DEF RevokeForgets
<1>4. RevokeKnows(r) /\ held.id \in {held.access, NoToken}
  BY DEF TokenKnows
<1>5. revoke[r].target = held.access /\ revoke[r].by = revoke[r].target
  BY <1>3, <1>4 DEF StillHeld, RevokeKnows
<1> QED
  BY <1>3, <1>4, <1>5 DEF RevokeKnows, Revoked

(***************************************************************************)
(* Connections.                                                            *)
(***************************************************************************)
CallFields == [op : {"create", "delete"}, kind : ConnectionKinds, etag : NoEtag..MaxRevision,
               at : {"idle", "made", "reading", "deleting", "done"}, attempt : 0..1,
               told : {"none", "ok", "refused", "failed", "deleted", "undeleted"}]

\* A call that is not over has told nobody anything, one that creates has made
\* nothing before it posts, and what a call told stays so.
ClientsKnow ==
  /\ ClientsTypeOK
  /\ call \in [Calls -> CallFields]
  /\ \A c \in Calls :
       /\ call[c].at # "done" => call[c].told = "none"
       /\ call[c].op = "create" /\ call[c].at = "idle" => client[c].is = "unmade"
       /\ client[c].is = "unmade" => call[c].op = "create" /\ call[c].at \in {"idle", "done"}
  /\ ClientsTruth

ClientFields == [is : {"unmade", "there", "gone"}, kind : ConnectionKinds \cup {Ordinary},
                 revision : 0..MaxRevision]

\* What is said of one connection and of the call that is about it.
ConnectionKnows(x, k) ==
  /\ x.at # "done" => x.told = "none"
  /\ x.op = "create" /\ x.at = "idle" => k.is = "unmade"
  /\ k.is = "unmade" => x.op = "create" /\ x.at \in {"idle", "done"}
  /\ x.op = "create" /\ x.told = "ok" => k.kind = x.kind
  /\ x.told = "deleted" => k.is = "gone"
  /\ x.told = "refused" => k.is = "unmade"

\* Every step is about one connection and its call.
LEMMA OneConnection ==
  ASSUME ClientsKnow, NEW c \in Calls, NEW x \in CallFields, NEW k \in ClientFields,
         call' = [call EXCEPT ![c] = x], client' = [client EXCEPT ![c] = k], ConnectionKnows(x, k)
  PROVE  ClientsKnow'
<1>1. /\ call' \in [Calls -> CallFields] /\ call'[c] = x
      /\ \A d \in Calls \ {c} : call'[d] = call[d]
  BY DEF ClientsKnow
<1>2. /\ client' \in [Calls -> ClientFields] /\ client'[c] = k
      /\ \A d \in Calls \ {c} : client'[d] = client[d]
  BY DEF ClientsKnow, ClientsTypeOK, ClientFields
<1>3. ClientsTypeOK'
  BY <1>1, <1>2 DEF ClientsKnow, ClientsTypeOK, ClientFields, CallFields
<1>4. \A d \in Calls : ConnectionKnows(call'[d], client'[d])
  BY <1>1, <1>2 DEF ClientsKnow, ClientsTruth, ConnectionKnows
<1> QED
  BY <1>1, <1>3, <1>4 DEF ClientsKnow, ClientsTruth, ConnectionKnows

\* A call of CreateClientIdentity or DeleteClient, or another writer.
LEMMA ClientStepKeeps ==
  ASSUME ClientsKnow, ClientsNext
  PROVE  ClientsKnow'
<1>0. PICK c \in Calls : \/ ClientPosted(c) \/ ClientChecked(c) \/ DeleteBegins(c) \/ DeleteReads(c)
                         \/ DeleteSends(c) \/ ElseChanges(c)
  BY DEF ClientsNext
<1> DEFINE x == call[c]
           k == client[c]
<1>a. x \in CallFields /\ k \in ClientFields /\ ConnectionKnows(x, k) /\ MaxRevision \in Nat
  BY ClientsAssumption
     DEF ClientsKnow, ClientsTypeOK, ClientsTruth, CallFields, ClientFields, ConnectionKnows
<1>b. call = [call EXCEPT ![c] = x] /\ client = [client EXCEPT ![c] = k]
  BY DEF ClientsKnow, ClientsTypeOK
<1>1. ASSUME NEW what \in {"ok", "refused", "failed", "deleted", "undeleted"}, Says(c, what),
             NEW d \in ClientFields, client' = [client EXCEPT ![c] = d],
             what = "ok" => x.op = "create" /\ d.kind = x.kind,
             what = "deleted" => d.is = "gone",
             what = "refused" => d.is = "unmade",
             d.is = "unmade" => k.is = "unmade"
      PROVE  ClientsKnow'
  <2> DEFINE y == [x EXCEPT !.at = "done", !.told = what]
  <2>1. y \in CallFields /\ y.at = "done" /\ y.told = what /\ y.op = x.op /\ y.kind = x.kind
    BY <1>a DEF CallFields
  <2>2. call' = [call EXCEPT ![c] = y]
    BY <1>1, <1>a DEF Says, ClientsKnow, CallFields
  <2> HIDE DEF y
  <2>3. ConnectionKnows(y, d)
    BY <1>1, <1>a, <2>1 DEF ConnectionKnows
  <2> QED
    BY <1>1, <2>1, <2>2, <2>3, OneConnection
<1>2. ASSUME NEW at \in {"made", "reading", "deleting"}, Goes(c, at), x.at # "done",
             NEW d \in ClientFields, client' = [client EXCEPT ![c] = d],
             d.is # "unmade"
      PROVE  ClientsKnow'
  <2> DEFINE y == [x EXCEPT !.at = at]
  <2>1. y \in CallFields /\ y.at = at /\ y.told = "none" /\ y.op = x.op /\ y.kind = x.kind
    BY <1>2, <1>a DEF CallFields, ConnectionKnows
  <2>2. call' = [call EXCEPT ![c] = y]
    BY <1>2, <1>a DEF Goes, ClientsKnow, CallFields
  <2> HIDE DEF y
  <2>3. ConnectionKnows(y, d)
    BY <1>2, <2>1 DEF ConnectionKnows
  <2> QED
    BY <1>2, <2>1, <2>2, <2>3, OneConnection
<1>3. CASE ClientPosted(c)
  <2>1. x.op = "create" /\ x.at = "idle" /\ k.is = "unmade"
    BY <1>3, <1>a DEF ClientPosted, ConnectionKnows
  <2>2. CASE UNCHANGED client /\ (Says(c, "refused") \/ Says(c, "failed"))
    BY <1>1, <1>a, <1>b, <2>1, <2>2
  <2>3. ASSUME NEW kind \in {x.kind, Ordinary},
               client' = [client EXCEPT ![c].is = "there", ![c].kind = kind],
               Goes(c, "made") \/ Says(c, "failed")
        PROVE  ClientsKnow'
    <3> DEFINE d == [k EXCEPT !.is = "there", !.kind = kind]
    <3>1. d \in ClientFields /\ d.is = "there"
      BY <1>a, <2>3 DEF ClientFields, CallFields
    <3>2. client' = [client EXCEPT ![c] = d]
      BY <2>3, <1>a DEF ClientsKnow, ClientsTypeOK, ClientFields
    <3> HIDE DEF d
    <3> QED
      BY <1>1, <1>2, <2>1, <2>3, <3>1, <3>2
  <2> QED
    BY <1>3, <2>2, <2>3 DEF ClientPosted
<1>4. CASE ClientChecked(c)
  <2>1. x.op = "create" /\ x.at = "made" /\ UNCHANGED client /\ k.is # "unmade"
    BY <1>4, <1>a DEF ClientChecked, ConnectionKnows
  <2>2. CASE KindHonoured(c)
    BY <1>1, <1>4, <1>a, <1>b, <2>1, <2>2 DEF ClientChecked, KindHonoured
  <2>3. CASE ~KindHonoured(c)
    BY <1>1, <1>2, <1>4, <1>a, <1>b, <2>1, <2>3 DEF ClientChecked
  <2> QED
    BY <2>2, <2>3
<1>5. CASE DeleteBegins(c)
  <2>1. x.op = "delete" /\ x.at = "idle" /\ UNCHANGED client
    BY <1>5 DEF DeleteBegins
  <2>2. k.is # "unmade"
    BY <1>a, <2>1 DEF ConnectionKnows
  <2>3. Goes(c, "reading") \/ Goes(c, "deleting")
    BY <1>5 DEF DeleteBegins
  <2> QED
    BY <1>2, <1>a, <1>b, <2>1, <2>2, <2>3
<1>6. CASE DeleteReads(c)
  <2>1. x.at = "reading" /\ UNCHANGED client /\ k.is # "unmade"
    BY <1>6, <1>a DEF DeleteReads, ConnectionKnows
  <2>2. ASSUME call' = [call EXCEPT ![c].at = "deleting", ![c].etag = k.revision], k.is = "there"
        PROVE  ClientsKnow'
    <3> DEFINE y == [x EXCEPT !.at = "deleting", !.etag = k.revision]
    <3>1. k.revision \in NoEtag..MaxRevision
      BY <1>a DEF ClientFields, NoEtag
    <3>2. /\ y \in CallFields /\ y.at = "deleting" /\ y.told = "none" /\ y.op = x.op
      BY <1>a, <2>1, <3>1 DEF CallFields, ConnectionKnows
    <3>3. call' = [call EXCEPT ![c] = y]
      BY <2>2, <1>a DEF ClientsKnow, CallFields
    <3> HIDE DEF y
    <3> QED
      BY <1>a, <1>b, <2>1, <2>2, <3>2, <3>3, OneConnection DEF ConnectionKnows
  <2> QED
    BY <1>1, <1>6, <1>a, <1>b, <2>1, <2>2 DEF DeleteReads
<1>7. CASE DeleteSends(c)
  <2>1. x.at = "deleting" /\ x.told = "none" /\ k.is # "unmade"
    BY <1>7, <1>a DEF DeleteSends, ConnectionKnows
  <2>2. CASE /\ client' = [client EXCEPT ![c].is = "gone"]
             /\ Says(c, "deleted") \/ Says(c, "undeleted")
    <3> DEFINE d == [k EXCEPT !.is = "gone"]
    <3>1. d \in ClientFields /\ d.is = "gone"
      BY <1>a DEF ClientFields
    <3>2. client' = [client EXCEPT ![c] = d]
      BY <2>2, <1>a DEF ClientsKnow, ClientsTypeOK, ClientFields
    <3> HIDE DEF d
    <3> QED
      BY <1>1, <2>2, <3>1, <3>2
  <2>3. ASSUME UNCHANGED client,
               call' = [call EXCEPT ![c].at = "reading", ![c].etag = NoEtag, ![c].attempt = 1]
        PROVE  ClientsKnow'
    <3> DEFINE y == [x EXCEPT !.at = "reading", !.etag = NoEtag, !.attempt = 1]
    <3>1. NoEtag \in NoEtag..MaxRevision
      BY <1>a DEF NoEtag
    <3> DEFINE z == [x EXCEPT !.at = "reading", !.etag = NoEtag]
    <3>a. z \in CallFields /\ z.at = "reading" /\ z.told = "none" /\ z.op = x.op
      BY <1>a, <2>1, <3>1 DEF CallFields
    <3>b. y = [z EXCEPT !.attempt = 1]
      BY <1>a DEF CallFields
    <3>c. 1 \in 0..1
      OBVIOUS
    <3> HIDE DEF y, z
    <3>2. y \in CallFields /\ y.at = "reading" /\ y.told = "none" /\ y.op = x.op
      BY <3>a, <3>b, <3>c DEF CallFields
    <3> USE DEF y
    <3>3. call' = [call EXCEPT ![c] = y]
      BY <2>3, <1>a DEF ClientsKnow, CallFields
    <3> HIDE DEF y
    <3> QED
      BY <1>a, <1>b, <2>1, <2>3, <3>2, <3>3, OneConnection DEF ConnectionKnows
  <2>4. CASE UNCHANGED client /\ (Says(c, "undeleted") \/ (k.is = "gone" /\ Says(c, "deleted")))
    BY <1>1, <1>a, <1>b, <2>4
  <2> QED
    BY <1>7, <2>2, <2>3, <2>4 DEF DeleteSends, Otherwise
<1>8. CASE ElseChanges(c)
  <2>1. call' = call /\ k.is = "there"
    BY <1>8 DEF ElseChanges
  <2>2. ASSUME NEW d \in ClientFields, client' = [client EXCEPT ![c] = d], d.kind = k.kind,
               d.is # "unmade"
        PROVE  ClientsKnow'
    BY <1>a, <1>b, <2>1, <2>2, OneConnection DEF ConnectionKnows
  <2>3. CASE k.revision < MaxRevision /\ client' = [client EXCEPT ![c].revision = @ + 1]
    <3> DEFINE d == [k EXCEPT !.revision = @ + 1]
    <3>1. d \in ClientFields /\ d.kind = k.kind /\ d.is = k.is
      BY <1>a, <2>3 DEF ClientFields
    <3>2. client' = [client EXCEPT ![c] = d]
      BY <2>3, <1>a DEF ClientsKnow, ClientsTypeOK, ClientFields
    <3> HIDE DEF d
    <3> QED
      BY <2>1, <2>2, <3>1, <3>2
  <2>4. CASE client' = [client EXCEPT ![c].is = "gone"]
    <3> DEFINE d == [k EXCEPT !.is = "gone"]
    <3>1. d \in ClientFields /\ d.kind = k.kind /\ d.is = "gone"
      BY <1>a DEF ClientFields
    <3>2. client' = [client EXCEPT ![c] = d]
      BY <2>4, <1>a DEF ClientsKnow, ClientsTypeOK, ClientFields
    <3> HIDE DEF d
    <3> QED
      BY <2>2, <3>1, <3>2
  <2> QED
    BY <1>8, <2>3, <2>4 DEF ElseChanges
<1> QED
  BY <1>0, <1>3, <1>4, <1>5, <1>6, <1>7, <1>8


(***************************************************************************)
(* Waits.                                                                  *)
(***************************************************************************)
WaitFields == [kind : Kinds, at : {"idle", "asking", "sleeping", "done"}, left : 0..Timeout,
               interval : Nat, nap : Nat, asked : Nat, slept : Nat, over : BOOLEAN,
               told : WaitOutcomes \cup {"none"}]

\* A sleep goes on until what was asked for has passed, unless the deadline cut
\* it, which only happens to the interval.
SleepKnows(v) ==
  v.at = "sleeping" =>
    \/ v.slept + v.nap >= v.asked
    \/ v.nap = v.left /\ v.asked = v.interval

WaitsKnow == wait \in [Waits -> WaitFields] /\ \A w \in Waits : SleepKnows(wait[w])

\* One wait goes on: it only asks again when its sleep is over.
GoesOn(w, v) ==
  /\ wait' = [wait EXCEPT ![w] = v]
  /\ SleepKnows(v)
  /\ wait[w].at = "sleeping" /\ v.at = "asking" => wait[w].nap = 0

\* A step of one wait keeps what is known of all, and their pace.
LEMMA OneWait ==
  ASSUME WaitsKnow, NEW w \in Waits, NEW v \in WaitFields, GoesOn(w, v)
  PROVE  WaitsKnow' /\ WaitsPaced
<1>1. /\ wait' \in [Waits -> WaitFields] /\ wait'[w] = v
      /\ \A u \in Waits \ {w} : wait'[u] = wait[u]
  BY DEF WaitsKnow, GoesOn
<1>2. WaitsKnow'
  BY <1>1 DEF WaitsKnow, GoesOn
<1>3. ASSUME NEW u \in Waits, wait[u].at = "sleeping", wait'[u].at = "asking",
             wait[u].slept < wait[u].asked
      PROVE  wait[u].left = 0 /\ wait[u].asked = wait[u].interval
  <2>1. u = w /\ wait[w].nap = 0
    BY <1>1, <1>3 DEF GoesOn
  <2>2. wait[w] \in WaitFields /\ SleepKnows(wait[w])
    BY DEF WaitsKnow
  <2>3. wait[w].slept \in Nat /\ wait[w].asked \in Nat
    BY <2>2 DEF WaitFields
  <2> QED
    BY <1>3, <2>1, <2>2, <2>3 DEF SleepKnows
<1> QED
  BY <1>2, <1>3 DEF WaitsPaced

\* A call that ends, is cancelled or begins sleeps no more, or as before.
LEMMA WaitEnds ==
  ASSUME WaitsKnow, NEW w \in Waits, NEW told \in WaitOutcomes,
         wait' = [wait EXCEPT ![w] = [wait[w] EXCEPT !.at = "done", !.told = told]]
  PROVE  WaitsKnow' /\ WaitsPaced
<1> DEFINE v == [wait[w] EXCEPT !.at = "done", !.told = told]
<1>1. v \in WaitFields /\ v.at = "done"
  BY DEF WaitsKnow, WaitFields
<1>2. wait' = [wait EXCEPT ![w] = v]
  OBVIOUS
<1> HIDE DEF v
<1>3. GoesOn(w, v)
  BY <1>1, <1>2 DEF GoesOn, SleepKnows
<1> QED
  BY <1>1, <1>3, OneWait

\* Sleeping for what was asked for, cut at the deadline when that is the
\* interval.
LEMMA WaitSleeps ==
  ASSUME WaitsKnow, NEW w \in Waits, NEW asked \in Nat, Sleeps(w, asked),
         wait[w].at = "asking",
         asked <= wait[w].interval \/ NextWait(w, asked) <= wait[w].left
  PROVE  WaitsKnow' /\ WaitsPaced
<1> DEFINE x == wait[w]
           next == IF asked > x.interval THEN asked ELSE x.interval
           nap == AtMost(next, x.left)
           v == [x EXCEPT !.at = "sleeping", !.slept = 0, !.asked = next, !.nap = nap]
<1>1. x \in WaitFields /\ x.left \in Nat /\ x.interval \in Nat
  BY DEF WaitsKnow, WaitFields
<1>2. next \in Nat /\ nap \in Nat
  BY <1>1 DEF AtMost
<1>3. wait' = [wait EXCEPT ![w] = v]
  BY DEF Sleeps, WaitIs, NextWait
<1>4. (0 + nap >= next) \/ (nap = x.left /\ next = x.interval)
  BY <1>1 DEF AtMost, NextWait
<1> HIDE DEF next, nap
<1>5. /\ v \in WaitFields /\ v.at = "sleeping" /\ v.slept = 0 /\ v.asked = next
      /\ v.nap = nap /\ v.left = x.left /\ v.interval = x.interval
  BY <1>1, <1>2 DEF WaitFields
<1> HIDE DEF v
<1>6. GoesOn(w, v)
  BY <1>3, <1>4, <1>5 DEF GoesOn, SleepKnows
<1> QED
  BY <1>5, <1>6, OneWait

\* Asking again: at the deadline the wait is over.
LEMMA WaitAsksAgain ==
  ASSUME WaitsKnow, NEW w \in Waits, NEW asked \in Nat, AskAgain(w, asked),
         wait[w].at = "asking",
         asked <= wait[w].interval \/ NextWait(w, asked) <= wait[w].left
  PROVE  WaitsKnow' /\ WaitsPaced
<1>1. "timeout" \in WaitOutcomes
  BY DEF WaitOutcomes
<1>2. CASE wait[w].left = 0
  BY <1>1, <1>2, WaitEnds DEF AskAgain, Ends, WaitIs
<1>3. CASE wait[w].left # 0
  BY <1>3, WaitSleeps DEF AskAgain
<1> QED
  BY <1>2, <1>3

\* An answer to WaitForAdmission, to WaitForHubSkillOperation or to a device
\* sign-in's poll.
LEMMA WaitAnswered ==
  ASSUME WaitsKnow, NEW w \in Waits,
         AdmissionAnswered(w) \/ SkillAnswered(w) \/ DeviceAnswered(w)
  PROVE  WaitsKnow' /\ WaitsPaced
<1>0. /\ wait[w] \in WaitFields /\ wait[w].left \in Nat /\ wait[w].interval \in Nat
      /\ 0 \in Nat /\ 0 <= wait[w].interval /\ SlowDown \in Nat \ {0} /\ MaxAsked \in Nat
  BY WaitsAssumption DEF WaitsKnow, WaitFields
<1>1. ASSUME NEW told \in WaitOutcomes, Ends(w, told) PROVE WaitsKnow' /\ WaitsPaced
  BY <1>1, WaitEnds DEF Ends, WaitIs
<1>2. ASSUME AskAgain(w, 0), wait[w].at = "asking" PROVE WaitsKnow' /\ WaitsPaced
  BY <1>0, <1>2, WaitAsksAgain
<1>3. CASE AdmissionAnswered(w)
  <2>1. ASSUME NEW asked \in 0..MaxAsked, AskAgain(w, asked), ~(NextWait(w, asked) > wait[w].left)
        PROVE  WaitsKnow' /\ WaitsPaced
    <3>1. asked \in Nat /\ wait[w].at = "asking"
      BY <1>0, <1>3 DEF AdmissionAnswered, Asks
    <3>2. NextWait(w, asked) <= wait[w].left
      BY <1>0, <2>1, <3>1 DEF NextWait
    <3> QED
      BY <2>1, <3>1, <3>2, WaitAsksAgain
  <2> QED
    BY <1>1, <1>2, <1>3, <2>1 DEF AdmissionAnswered, Asks, WaitOutcomes
<1>4. CASE SkillAnswered(w)
  BY <1>1, <1>2, <1>4 DEF SkillAnswered, Asks, WaitOutcomes
<1>5. CASE DeviceAnswered(w)
  <2>1. ASSUME NEW told \in {"ok", "error"},
               wait' = [wait EXCEPT ![w].at = "done", ![w].told = told]
        PROVE  WaitsKnow' /\ WaitsPaced
    <3>1. wait' = [wait EXCEPT ![w] = [wait[w] EXCEPT !.at = "done", !.told = told]]
      BY <2>1 DEF WaitsKnow, WaitFields
    <3> QED
      BY <3>1, WaitEnds DEF WaitOutcomes
  <2>2. ASSUME NEW longer, longer = wait[w].interval + SlowDown, wait[w].at = "asking",
               wait' = [wait EXCEPT ![w].at = "sleeping", ![w].slept = 0, ![w].interval = longer,
                          ![w].asked = longer, ![w].nap = AtMost(longer, wait[w].left)]
        PROVE  WaitsKnow' /\ WaitsPaced
    <3> DEFINE nap == AtMost(longer, wait[w].left)
               x == [wait[w] EXCEPT !.at = "sleeping", !.slept = 0, !.interval = longer]
               v == [x EXCEPT !.asked = longer, !.nap = nap]
    <3>1. longer \in Nat /\ nap \in Nat /\ (0 + nap >= longer \/ nap = wait[w].left)
      BY <1>0, <2>2 DEF AtMost
    <3>2. wait' = [wait EXCEPT ![w] = v]
      BY <1>0, <2>2 DEF WaitsKnow, WaitFields
    <3> HIDE DEF nap
    <3>3. /\ x \in WaitFields /\ x.at = "sleeping" /\ x.slept = 0 /\ x.interval = longer
          /\ x.left = wait[w].left
      BY <1>0, <3>1 DEF WaitFields
    <3> HIDE DEF x
    <3>4. /\ v \in WaitFields /\ v.at = "sleeping" /\ v.slept = 0 /\ v.interval = longer
          /\ v.left = wait[w].left /\ v.asked = longer /\ v.nap = nap
      BY <3>1, <3>3 DEF WaitFields
    <3> HIDE DEF v
    <3>5. GoesOn(w, v)
      BY <3>1, <3>2, <3>4 DEF GoesOn, SleepKnows
    <3> QED
      BY <3>4, <3>5, OneWait
  <2> QED
    BY <1>1, <1>2, <1>5, <2>1, <2>2 DEF DeviceAnswered, Asks, WaitOutcomes
<1> QED
  BY <1>3, <1>4, <1>5

\* A call of WaitForAdmission, of WaitForHubSkillOperation or of a device
\* sign-in, the clocks, and the work that is waited for.
LEMMA WaitStepKeeps ==
  ASSUME WaitsKnow, WaitsNext
  PROVE  WaitsKnow' /\ WaitsPaced
<1>0. PICK w \in Waits : \/ WorkGoesOn(w) \/ WorkFails(w) \/ WaitBegins(w) \/ WaitContextEnds(w)
                         \/ Tick(w) \/ WaitStep(w)
  BY DEF WaitsNext
<1> DEFINE x == wait[w]
<1>a. x \in WaitFields /\ SleepKnows(x)
  BY DEF WaitsKnow
<1>1. CASE WorkGoesOn(w) \/ WorkFails(w)
  <2>1. wait' = wait
    BY <1>1 DEF WorkGoesOn, WorkFails
  <2> QED
    BY <2>1 DEF WaitsKnow, WaitsPaced
<1>2. ASSUME WaitIs(w, [x EXCEPT !.at = "asking"]), x.at = "sleeping" => x.nap = 0
      PROVE  WaitsKnow' /\ WaitsPaced
  <2> DEFINE v == [x EXCEPT !.at = "asking"]
  <2>1. v \in WaitFields /\ v.at = "asking"
    BY <1>a DEF WaitFields
  <2>2. wait' = [wait EXCEPT ![w] = v]
    BY <1>2 DEF WaitIs
  <2> HIDE DEF v
  <2>3. GoesOn(w, v)
    BY <1>2, <2>1, <2>2 DEF GoesOn, SleepKnows
  <2> QED
    BY <2>1, <2>3, OneWait
<1>3. CASE WaitContextEnds(w)
  <2> DEFINE v == [x EXCEPT !.over = TRUE]
  <2>1. /\ v \in WaitFields /\ v.at = x.at /\ v.slept = x.slept /\ v.nap = x.nap
        /\ v.asked = x.asked /\ v.left = x.left /\ v.interval = x.interval
    BY <1>a DEF WaitFields
  <2>2. wait' = [wait EXCEPT ![w] = v]
    BY <1>3 DEF WaitContextEnds, WaitIs
  <2> HIDE DEF v
  <2>3. GoesOn(w, v)
    BY <1>a, <2>1, <2>2 DEF GoesOn, SleepKnows
  <2> QED
    BY <2>1, <2>3, OneWait
<1>4. CASE Tick(w)
  <2> DEFINE slept == IF x.at = "sleeping" THEN x.slept + 1 ELSE x.slept
             v == [x EXCEPT !.left = Less(x.left), !.nap = Less(x.nap), !.slept = slept]
  <2>1. /\ x.left \in Nat /\ x.nap \in Nat /\ x.slept \in Nat /\ x.asked \in Nat
        /\ x.interval \in Nat
    BY <1>a DEF WaitFields
  <2>2. Less(x.left) \in 0..Timeout /\ Less(x.nap) \in Nat /\ slept \in Nat
    <3>1. x.left \in 0..Timeout /\ Timeout \in Nat
      BY <1>a, WaitsAssumption DEF WaitFields
    <3> QED
      BY <2>1, <3>1 DEF Less
  <2>3. wait' = [wait EXCEPT ![w] = v]
    BY <1>4 DEF Tick, WaitIs
  <2>4. /\ v \in WaitFields /\ v.at = x.at /\ v.slept = slept /\ v.nap = Less(x.nap)
        /\ v.asked = x.asked /\ v.left = Less(x.left) /\ v.interval = x.interval
    <3> HIDE DEF slept
    <3> QED
      BY <1>a, <2>2 DEF WaitFields
  <2> HIDE DEF v
  <2>5. SleepKnows(v)
    <3> SUFFICES ASSUME v.at = "sleeping"
                 PROVE  v.slept + v.nap >= v.asked \/ (v.nap = v.left /\ v.asked = v.interval)
      BY DEF SleepKnows
    <3>1. x.at = "sleeping" /\ x.nap > 0 /\ v.slept = x.slept + 1 /\ v.nap = x.nap - 1
      BY <1>4, <2>1, <2>4 DEF Tick, Less
    <3>2. CASE x.slept + x.nap >= x.asked
      BY <2>1, <2>4, <3>1, <3>2
    <3>3. CASE x.nap = x.left /\ x.asked = x.interval
      BY <2>1, <2>4, <3>1, <3>3
    <3> QED
      BY <1>a, <3>1, <3>2, <3>3 DEF SleepKnows
  <2>6. GoesOn(w, v)
    BY <2>3, <2>4, <2>5 DEF GoesOn
  <2> QED
    BY <2>4, <2>6, OneWait
<1>5. CASE WaitBegins(w)
  BY <1>2, <1>5 DEF WaitBegins
<1>6. CASE Wakes(w)
  <2>1. ASSUME NEW told \in WaitOutcomes, Ends(w, told) PROVE WaitsKnow' /\ WaitsPaced
    BY <2>1, WaitEnds DEF Ends, WaitIs
  <2> QED
    BY <1>2, <1>6, <2>1 DEF Wakes, WaitOutcomes
<1> QED
  BY <1>0, <1>1, <1>3, <1>4, <1>5, <1>6, WaitAnswered DEF WaitStep

\* What the API works on stays one of its states.
WorkTyped == work \in [Waits -> Pending \cup {"ready", "failed", "gone"}]

LEMMA WorkStepTyped ==
  ASSUME WorkTyped, WaitsNext
  PROVE  WorkTyped'
<1> PICK w \in Waits : \/ WorkGoesOn(w) \/ WorkFails(w) \/ WaitBegins(w) \/ WaitContextEnds(w)
                       \/ Tick(w) \/ WaitStep(w)
  BY DEF WaitsNext
<1>1. CASE WorkGoesOn(w)
  <2>1. PICK state \in {"committed", "applied", "ready", "gone"} :
          work' = [work EXCEPT ![w] = state]
    BY <1>1 DEF WorkGoesOn
  <2> QED
    BY <2>1 DEF WorkTyped, Pending
<1>2. CASE WorkFails(w)
  BY <1>2 DEF WorkFails, WorkTyped
<1>3. work' = work \/ work' = [work EXCEPT ![w] = "gone"] \/ WorkGoesOn(w) \/ WorkFails(w)
  BY DEF WaitBegins, WaitContextEnds, Tick, WaitStep, AdmissionAnswered, SkillAnswered,
         DeviceAnswered, Wakes, AskAgain, Ends, Sleeps, WaitIs
<1> QED
  BY <1>1, <1>2, <1>3 DEF WorkTyped

(***************************************************************************)
(* The parts together.                                                     *)
(***************************************************************************)
ControlKnows ==
  /\ control \in ControlParts
  /\ MergeKnows /\ MergeTypeOK /\ TokenKnows /\ WaitsKnow /\ WorkTyped /\ ClientsKnow

\* Before any call, nothing was done and nobody was told anything.
LEMMA KnownAtFirst == Init => ControlKnows
<1> SUFFICES ASSUME Init PROVE ControlKnows
  OBVIOUS
<1>1. MergeKnows
  <2>1. PICK starts, changes, others : MergeInitWith(starts, changes, others)
    BY DEF Init
  <2>2. PICK deltas, news :
          /\ merge = [m \in Merges |-> [at |-> "idle", delta |-> deltas[m], base |-> NoConfig,
                                        attempt |-> 0, told |-> "none"]]
          /\ replace = [r \in Replacements |-> [at |-> "idle", new |-> news[r], told |-> "none"]]
    BY <2>1 DEF MergeInitWith
  <2>3. made = [w \in Merges \cup Replacements |-> 0]
    BY <2>1 DEF MergeInitWith
  <2> QED
    BY <2>2, <2>3 DEF MergeKnows
<1>a. MergeTypeOK /\ control \in ControlParts
  <2>1. NoConfig \in Configs
    BY DEF NoConfig, Configs, Maps
  <2>2. PICK starts \in SUBSET Configs, changes \in SUBSET Configs, others \in SUBSET Configs :
          MergeInitWith(starts, changes, others)
    <3>1. /\ Starts \in SUBSET Configs /\ Changes \in SUBSET Configs
          /\ Others \in SUBSET Configs /\ {NoConfig} \in SUBSET Configs
      BY <2>1, ConfigsAssumption
    <3> QED
      BY <3>1 DEF Init
  <2>3. PICK deltas \in [Merges -> changes], news \in [Replacements -> others] :
          /\ merge = [m \in Merges |-> [at |-> "idle", delta |-> deltas[m], base |-> NoConfig,
                                        attempt |-> 0, told |-> "none"]]
          /\ replace = [r \in Replacements |-> [at |-> "idle", new |-> news[r], told |-> "none"]]
    BY <2>2 DEF MergeInitWith
  <2>4. /\ made = [w \in Merges \cup Replacements |-> 0] /\ stored \in Configs
        /\ \A m \in Merges : deltas[m] \in Configs
        /\ \A r \in Replacements : news[r] \in Configs
    BY <2>2 DEF MergeInitWith
  <2>5. made \in [Merges \cup Replacements -> 0..3]
    BY <2>4
  <2> QED
    BY <2>1, <2>3, <2>4, <2>5 DEF MergeTypeOK, Init
<1>2. TokenKnows
  <2>1. TokenInit
    BY DEF Init
  <2>2. TokenTypeOK
    BY <2>1 DEF TokenInit, TokenTypeOK, MaybeToken
  <2> QED
    BY <2>1, <2>2 DEF TokenInit, TokenKnows, RevokeKnows
<1>3. WaitsKnow
  <2>1. PICK waitKinds \in {{"skill"}, Kinds} : WaitsInitOf(waitKinds)
    BY DEF Init, WaitsInit
  <2>2. PICK kinds \in [Waits -> waitKinds] :
          wait = [w \in Waits |-> [kind |-> kinds[w], at |-> "idle", left |-> Timeout,
                    interval |-> Interval, nap |-> 0, asked |-> 0, slept |-> 0, over |-> FALSE,
                    told |-> "none"]]
    BY <2>1 DEF WaitsInitOf
  <2>3. kinds \in [Waits -> Kinds] /\ Timeout \in Nat /\ Interval \in Nat /\ 0 \in Nat
    BY WaitsAssumption DEF Kinds
  <2>4. wait \in [Waits -> WaitFields] /\ \A w \in Waits : wait[w].at = "idle"
    BY <2>2, <2>3 DEF WaitFields
  <2> QED
    BY <2>4 DEF WaitsKnow, SleepKnows
<1>b. WorkTyped
  BY DEF Init, WaitsInit, WaitsInitOf, WorkTyped, Pending
<1>4. ClientsKnow
  <2>1. PICK wanted \in {{"create"}, {"create", "delete"}} : ClientsInitOf(wanted)
    BY DEF Init, ClientsInit
  <2>2. PICK kinds \in [Calls -> ConnectionKinds], ops \in [Calls -> wanted],
             etags \in [Calls -> {NoEtag, 0}] :
          /\ client = [c \in Calls |-> [is |-> IF ops[c] = "create" THEN "unmade" ELSE "there",
                                        kind |-> kinds[c], revision |-> 0]]
          /\ call = [c \in Calls |-> [op |-> ops[c], kind |-> kinds[c], etag |-> etags[c],
                                      at |-> "idle", attempt |-> 0, told |-> "none"]]
    BY <2>1 DEF ClientsInitOf
  <2>3. NoEtag \in NoEtag..MaxRevision /\ 0 \in NoEtag..MaxRevision /\ 0 \in 0..MaxRevision
        /\ 0 \in 0..1
    BY ClientsAssumption DEF NoEtag
  <2>4. \A c \in Calls : kinds[c] \in ConnectionKinds /\ etags[c] \in NoEtag..MaxRevision
                         /\ ops[c] \in {"create", "delete"}
    BY <2>3
  <2>5. call \in [Calls -> CallFields] /\ client \in [Calls -> ClientFields]
    BY <2>2, <2>3, <2>4 DEF CallFields, ClientFields
  <2>6. \A c \in Calls : /\ call[c].at = "idle" /\ call[c].told = "none" /\ call[c].op = ops[c]
                         /\ client[c].is = (IF ops[c] = "create" THEN "unmade" ELSE "there")
    BY <2>2
  <2> QED
    BY <2>4, <2>5, <2>6 DEF ClientsKnow, ClientsTypeOK, ClientsTruth, CallFields, ClientFields
<1> QED
  BY <1>1, <1>a, <1>2, <1>3, <1>b, <1>4 DEF ControlKnows

\* What leaves a part's variables alone keeps what is known of it.
LEMMA OthersKeep ==
  ASSUME ControlKnows
  PROVE  /\ UNCHANGED mergeVars => MergeKnows' /\ MergeTypeOK'
         /\ UNCHANGED tokenVars => TokenKnows' /\ LiveTokenKept
         /\ UNCHANGED waitVars => WaitsKnow' /\ WorkTyped' /\ WaitsPaced
         /\ UNCHANGED clientVars => ClientsKnow'
<1>1. UNCHANGED mergeVars => MergeKnows' /\ MergeTypeOK'
  BY DEF ControlKnows, mergeVars, MergeKnows, MergeTypeOK
<1>2. UNCHANGED tokenVars => TokenKnows' /\ LiveTokenKept
  BY DEF ControlKnows, tokenVars, TokenKnows, TokenTypeOK, RevokeKnows, Revoked, LiveTokenKept
<1>3. UNCHANGED waitVars => WaitsKnow' /\ WorkTyped' /\ WaitsPaced
  BY DEF ControlKnows, waitVars, WaitsKnow, WorkTyped, WaitsPaced
<1>4. UNCHANGED clientVars => ClientsKnow'
  BY DEF ControlKnows, clientVars, ClientsKnow, ClientsTypeOK, ClientsTruth
<1> QED
  BY <1>1, <1>2, <1>3, <1>4

\* A step of any call keeps all of it, forgets no token that lives, and cuts
\* no wait short.
LEMMA ControlStep ==
  ASSUME ControlKnows, [Next]_controlVars
  PROVE  ControlKnows' /\ LiveTokenKept /\ WaitsPaced
<1>0. control' \in ControlParts
  BY DEF Next, controlVars, ControlKnows
<1>1. CASE MergeNext /\ UNCHANGED <<tokenVars, waitVars, clientVars>>
  <2>1. MergeKnows'
    BY <1>1, MergeStepKeeps, ReplaceStepKeeps DEF MergeNext, ControlKnows
  <2>2. MergeTypeOK'
    BY <1>1, <2>1, MergeTyped DEF ControlKnows
  <2> QED
    BY <1>0, <1>1, <2>1, <2>2, OthersKeep DEF ControlKnows
<1>2. CASE TokenNext /\ UNCHANGED <<mergeVars, waitVars, clientVars>>
  <2>1. TokenKnows' /\ LiveTokenKept
    BY <1>2, SignInStepKeeps, RevokeStepKeeps, LiveTokenStays DEF TokenNext, ControlKnows
  <2> QED
    BY <1>0, <1>2, <2>1, OthersKeep DEF ControlKnows
<1>3. CASE WaitsNext /\ UNCHANGED <<mergeVars, tokenVars, clientVars>>
  BY <1>0, <1>3, WaitStepKeeps, WorkStepTyped, OthersKeep DEF ControlKnows
<1>4. CASE ClientsNext /\ UNCHANGED <<mergeVars, tokenVars, waitVars>>
  BY <1>0, <1>4, ClientStepKeeps, OthersKeep DEF ControlKnows
<1>5. CASE UNCHANGED controlVars
  <2>1. UNCHANGED <<mergeVars, tokenVars, waitVars, clientVars>>
    BY <1>5 DEF controlVars
  <2> QED
    BY <1>0, <2>1, OthersKeep DEF ControlKnows
<1> QED
  BY <1>1, <1>2, <1>3, <1>4, <1>5 DEF Next

\* What callers were told is so, and tokens, connections and waits are where
\* their calls left them (control.go, device_login.go, connections.go).
THEOREM ControlInvariance == Spec => []ControlKnows
<1>1. ControlKnows /\ [Next]_controlVars => ControlKnows'
  BY ControlStep
<1> QED
  BY <1>1, KnownAtFirst, PTL DEF Spec

\* What a call of the control plane tells its caller is what the API did:
\* a merge that is stored, a token that is dead, a connection that is gone, of
\* the kind that was asked for, or was never made.
THEOREM ToldTruthAlways == Spec => []ToldTruth
<1>1. ControlKnows => ToldTruth
  BY MergeTold, TokenTold DEF ControlKnows, ClientsKnow, ToldTruth
<1> QED
  BY <1>1, ControlInvariance, PTL

\* A token in use is forgotten only once it is dead, and a wait asks no more
\* often than it was told, whatever the API answers.
THEOREM TokensAndPaceAlways == Spec => TokensAndPace
<1>1. ControlKnows /\ [Next]_controlVars => [LiveTokenKept /\ WaitsPaced]_controlVars
  BY ControlStep
<1> QED
  BY <1>1, ControlInvariance, PTL DEF Spec, TokensAndPace

\* Every variable keeps its type: a merge of configurations is one again, a call tries
\* three times at most, and a wait's clock stays within its timeout (control.go,
\* connections.go).
THEOREM ControlTyped == Spec => []TypeOK
<1>1. ControlKnows => TypeOK
  BY DEF ControlKnows, TypeOK, TokenKnows, ClientsKnow, WaitsKnow, WorkTyped, WaitsTypeOK,
         WaitFields
<1> QED
  BY <1>1, ControlInvariance, PTL

\* Every change of a configuration falls, whole and once, on the configuration as it
\* then is: however calls interleave, none undoes what another did between its read and
\* its write, and a merge changes what it states and nothing else (control.go:713-795).
THEOREM MergesAlwaysAtomic == Spec => MergesAreAtomic
<1>1. Init => Shared!Init
  BY DEF Init, MergeInitWith, Shared!Init
<1>2. ControlKnows /\ ControlKnows' /\ [Next]_controlVars
        => [Shared!Next]_<<Facts(stored), Wanted, made>>
  <2> SUFFICES ASSUME ControlKnows, ControlKnows', [Next]_controlVars
               PROVE  [Shared!Next]_<<Facts(stored), Wanted, made>>
    OBVIOUS
  <2>1. CASE MergeNext
    BY <2>1, MergeStepShared DEF ControlKnows
  <2>2. CASE UNCHANGED mergeVars
    BY <2>2 DEF mergeVars, Facts, Wanted
  <2> QED
    BY <2>1, <2>2 DEF Next, controlVars
<1> QED
  BY <1>1, <1>2, ControlInvariance, PTL DEF Spec, MergesAreAtomic, Shared!Spec
================================================================================
