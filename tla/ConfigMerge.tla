--------------------------------- MODULE ConfigMerge ---------------------------------
(***************************************************************************)
(* Changing a runtime group's configuration (control.go): a merge reads    *)
(* the configuration and its revision, and writes the result under that    *)
(* revision, at most three times; a replacement writes whatever there is.  *)
(* Requests of several clients interleave, and an answer may be lost after *)
(* its request was done.                                                   *)
(***************************************************************************)
EXTENDS Integers

CONSTANTS
  Merges,        \* the calls of UpdateRuntimeGroupConfig
  Replacements,  \* the calls of ReplaceRuntimeGroupConfig
  Options,       \* the keys of the configuration and of the objects in it
  Settings,      \* the values that are no objects
  Starts,        \* the configurations there may be at first
  Changes,       \* what the calls merge in
  Others,        \* what the calls replace it with
  Itself, AnObject  \* how SharedConfig names a key and an object

ASSUME MergeAssumption == Merges \cap Replacements = {}

VARIABLES
  stored,  \* the configuration the API stores; its revision is its digest
  merge,   \* merge[m]: one call, what it read, how often it tried, its outcome
  replace, \* replace[r]: one call, its configuration, its outcome
  made     \* made[w]: how often w's change was made

mergeVars == <<stored, merge, replace, made>>

Overlay(base, delta) ==
  [k \in DOMAIN delta \cup DOMAIN base |-> IF k \in DOMAIN delta THEN delta[k] ELSE base[k]]

Leaf(v)     == [object |-> FALSE, value |-> v]
Object(map) == [object |-> TRUE, value |-> map]

\* Configurations of objects one level deep, which is where merging recurses.
Maps(range) == UNION {[keys -> range] : keys \in SUBSET Options}
Entries     == {Leaf(v) : v \in Settings} \cup {Object(map) : map \in Maps(Settings)}
Configs     == Maps(Entries)

ASSUME ConfigsAssumption ==
  /\ Starts \cup Changes \cup Others \subseteq Configs
  /\ Itself \notin Options /\ AnObject \notin Settings

\* Mutant: an object in the delta takes the place of the one there is.
ShallowMerge(base, delta) == Overlay(base, delta)

\* mergeRuntimeConfig: two objects are merged, anything else is replaced.
mergeRuntimeConfig(base, delta) ==
  Overlay(base, [k \in DOMAIN delta |->
    IF k \in DOMAIN base /\ base[k].object /\ delta[k].object
    THEN Object(Overlay(base[k].value, delta[k].value)) ELSE delta[k]])

MergeTypeOK ==
  /\ stored \in Configs
  /\ merge \in [Merges ->
       [at : {"idle", "read", "write", "done"}, delta : Configs, base : Configs,
        attempt : 0..2, told : {"none", "ok", "error", "conflict", "unknown"}]]
  /\ replace \in [Replacements ->
       [at : {"idle", "done"}, new : Configs, told : {"none", "ok", "error", "unknown"}]]
  /\ made \in [Merges \cup Replacements -> 0..3]

NoConfig == [k \in {} |-> Leaf(k)]

\* Inputs: configurations to start from, to merge and to replace with.
MergeInitWith(starts, changes, others) ==
  /\ stored \in starts
  /\ \E deltas \in [Merges -> changes], news \in [Replacements -> others] :
       /\ merge = [m \in Merges |-> [at |-> "idle", delta |-> deltas[m], base |-> NoConfig,
                                     attempt |-> 0, told |-> "none"]]
       /\ replace = [r \in Replacements |-> [at |-> "idle", new |-> news[r], told |-> "none"]]
  /\ made = [w \in Merges \cup Replacements |-> 0]

--------------------------------------------------------------------------------
MergeIs(m, fields) == merge' = [merge EXCEPT ![m] = fields]

MergeBegins(m) ==
  /\ merge[m].at = "idle"
  /\ MergeIs(m, [merge[m] EXCEPT !.at = "read"])
  /\ UNCHANGED <<stored, replace, made>>

\* GET: a snapshot without a valid configuration and revision is refused, as
\* is an answer that is none.
MergeReads(m) ==
  /\ merge[m].at = "read"
  /\ \/ MergeIs(m, [merge[m] EXCEPT !.at = "write", !.base = stored])
     \/ MergeIs(m, [merge[m] EXCEPT !.at = "done", !.told = "error"])
  /\ UNCHANGED <<stored, replace, made>>

Writes(w, config) ==
  /\ stored' = config
  /\ made' = [made EXCEPT ![w] = @ + 1]

Merged(m) == mergeRuntimeConfig(merge[m].base, merge[m].delta)

\* Mutant: the write carries no expected revision.
AnyRevision(m) == TRUE

\* The API's precondition: the revision read is still the configuration's.
RevisionHolds(m) == stored = merge[m].base

\* 412: the next attempt starts from a fresh read.
ReadsAgain(m) == [merge[m] EXCEPT !.at = "read", !.attempt = @ + 1]

\* Mutant: an answer that does not come is tried again.
TriesLost(m) == IF merge[m].attempt >= 2 THEN merge[m] ELSE ReadsAgain(m)

\* No answer ends the call.
Unanswered(m) == [merge[m] EXCEPT !.at = "done", !.told = "unknown"]

\* PUT under the revision: done, done with its answer lost, or refused.
MergeWrites(m) ==
  /\ merge[m].at = "write" /\ RevisionHolds(m)
  /\ \/ /\ Writes(m, Merged(m))
        /\ \/ MergeIs(m, [merge[m] EXCEPT !.at = "done", !.told = "ok"])
           \/ MergeIs(m, Unanswered(m))
     \/ /\ UNCHANGED <<stored, made>>
        /\ MergeIs(m, [merge[m] EXCEPT !.at = "done", !.told = "error"])
  /\ UNCHANGED replace

\* Mutant: one try more.
OnceMore(m) == merge[m].attempt > 2

TriedOut(m) == merge[m].attempt >= 2

\* 412, unless the answer is another error, or none.
MergeConflicts(m) ==
  /\ merge[m].at = "write" /\ ~RevisionHolds(m)
  /\ \/ MergeIs(m, IF TriedOut(m)
                   THEN [merge[m] EXCEPT !.at = "done", !.told = "conflict"] ELSE ReadsAgain(m))
     \/ MergeIs(m, Unanswered(m))
  /\ UNCHANGED <<stored, replace, made>>

\* PATCH, unconditional.
ReplaceWrites(r) ==
  /\ replace[r].at = "idle"
  /\ \/ /\ Writes(r, replace[r].new)
        /\ \E told \in {"ok", "unknown"} :
             replace' = [replace EXCEPT ![r].at = "done", ![r].told = told]
     \/ /\ UNCHANGED <<stored, made>>
        /\ replace' = [replace EXCEPT ![r].at = "done", ![r].told = "error"]
  /\ UNCHANGED merge

MergeNext ==
  \/ \E m \in Merges : MergeBegins(m) \/ MergeReads(m) \/ MergeWrites(m) \/ MergeConflicts(m)
  \/ \E r \in Replacements : ReplaceWrites(r)

--------------------------------------------------------------------------------
Facts(c) ==
  {<<k, Itself, IF c[k].object THEN AnObject ELSE c[k].value>> : k \in DOMAIN c}
    \cup UNION {{<<k, name, c[k].value[name]>> : name \in DOMAIN c[k].value} :
                 k \in {l \in DOMAIN c : c[l].object}}

Wanted == [w \in Merges \cup Replacements |->
             IF w \in Merges THEN [states |-> Facts(merge[w].delta), alone |-> FALSE]
             ELSE [states |-> Facts(replace[w].new), alone |-> TRUE]]

Shared == INSTANCE SharedConfig WITH
  Writers <- Merges \cup Replacements, facts <- Facts(stored), wanted <- Wanted, changed <- made

\* Every change is the one its caller asked for, made on the configuration as
\* it then is: nobody's change is lost to a merge that read before it, and a
\* merge changes no more than it states (control.go:713-715, 783-795).
MergesAreAtomic == Shared!Spec

\* What a caller is told is what was done: once when it was told so, never when
\* it was told of a refusal or of conflicts, and never twice, however often it
\* was tried (control.go:713-715).
MergeToldTruth ==
  /\ \A m \in Merges :
       /\ merge[m].told = "ok" => made[m] = 1
       /\ merge[m].told \in {"error", "conflict"} => made[m] = 0
  /\ \A w \in Merges \cup Replacements : made[w] <= 1
================================================================================
