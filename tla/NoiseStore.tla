------------------------------- MODULE NoiseStore -------------------------------
(***************************************************************************)
(* The files a client keeps its trust in (noise_store.go,                  *)
(* noise_store_file.go, noise_folder.go): its static key, the hub keys it  *)
(* has pinned and the PSKs it has derived, in a folder that any number of  *)
(* processes share.  An identity read from a file keeps them beside that   *)
(* file; before 0.9.1 they were in one folder for everything, here         *)
(* "legacy", whose key and pins are copied once.                           *)
(*                                                                         *)
(* Every read-modify-write holds the folder's lock, which dies with its    *)
(* process.  A file is staged and then appears at once, so a crash or a    *)
(* failed write falls between two files, never inside one.                 *)
(***************************************************************************)
EXTENDS Naturals

CONSTANTS
  Processes, \* programs that connect, pin and forget
  Nodes,     \* hubs, by node id
  HubKeys,   \* static keys a hub may present
  OldKey,    \* the client key in the legacy folder, when there is one
  Uses,      \* what processes do: a subset of "wss", "channel" (both connect),
             \* "named" (with a folder the caller names), "save", "forget"
  Faults,    \* what may go wrong: a subset of "crash", "publish", "unread",
             \* "unwritable"
  MaxCalls,  \* bound: calls begun, by all processes
  None

Folders == {"legacy", "beside"}

\* A key that was made rather than copied is named by its folder and its maker.
ClientKeys == {OldKey} \cup (Folders \X Processes)

ASSUME NamesAssumption ==
  /\ None \notin HubKeys \cup ClientKeys \cup Processes
  /\ OldKey \notin Folders \X Processes

ASSUME BoundAssumption == MaxCalls \in Nat

Pins == [Nodes -> HubKeys \cup {None}]

VARIABLES
  lock,     \* lock[f]: the process that holds f's .noise.lock, or None
  key,      \* key[f]: the noise_key file of f, or None
  pins,     \* pins[f]: noise_pins.json of f
  psks,     \* psks[f]: the nodes noise_psks.json of f has a key for
  met,      \* met[n]: the client key hub n has pinned (at the hub)
  proc,     \* proc[p]: what process p is doing
  calls,    \* calls begun so far
  accepted  \* history: hub keys accepted since f's pin of n was last forgotten

vars  == <<lock, key, pins, psks, met, proc, calls, accepted>>
files == <<key, pins, psks>>

\* Places that wait for a lock, and places that hold one.
Waits == {"legacyPins", "copy", "key", "psk", "pskSave", "pskForget", "pin", "forget"}
Holds == {"copyPins", "copyKey", "create", "pskSaving", "pskForgetting", "pinning",
          "forgetting"}
Places == {"idle", "legacyKey", "handshake"} \cup Waits \cup Holds

NoPins == [n \in Nodes |-> None]

Idle == [at |-> "idle", use |-> "none", fixed |-> FALSE, node |-> None,
         folder |-> "legacy", key |-> None, hubKey |-> None, read |-> NoPins,
         stored |-> {}, copy |-> NoPins]

Call == [at : Places, use : {"none", "wss", "channel"}, fixed : BOOLEAN,
         node : Nodes \cup {None}, folder : Folders, key : ClientKeys \cup {None},
         hubKey : HubKeys \cup {None}, read : Pins, stored : SUBSET Nodes,
         copy : Pins]

TypeOK ==
  /\ lock \in [Folders -> Processes \cup {None}]
  /\ key \in [Folders -> ClientKeys \cup {None}]
  /\ pins \in [Folders -> Pins]
  /\ psks \in [Folders -> SUBSET Nodes]
  /\ met \in [Nodes -> ClientKeys \cup {None}]
  /\ proc \in [Processes -> Call]
  /\ calls \in 0 .. MaxCalls
  /\ accepted \in [Folders -> [Nodes -> SUBSET HubKeys]]

\* A fresh installation, or one whose legacy key has met some hubs.
Init ==
  /\ lock = [f \in Folders |-> None]
  /\ \E old \in {None, OldKey} : key = [f \in Folders |->
                                          IF f = "legacy" THEN old ELSE None]
  /\ \E old \in IF key["legacy"] = None THEN {NoPins} ELSE Pins :
       /\ pins = [f \in Folders |-> IF f = "legacy" THEN old ELSE NoPins]
       /\ accepted = [f \in Folders |-> [n \in Nodes |->
                        IF pins[f][n] = None THEN {} ELSE {pins[f][n]}]]
       /\ met = [n \in Nodes |-> IF old[n] = None THEN None ELSE OldKey]
  /\ psks = [f \in Folders |-> {}]
  /\ proc = [p \in Processes |-> Idle]
  /\ calls = 0

--------------------------------------------------------------------------------
(***************************************************************************)
(* Locking and publishing.                                                 *)
(***************************************************************************)

Becomes(p, call) == proc' = [proc EXCEPT ![p] = call]
Goes(p, place)   == Becomes(p, [proc[p] EXCEPT !.at = place])

\* An idle process begins a call.
Begins(p) ==
  /\ proc[p].at = "idle"
  /\ calls < MaxCalls
  /\ calls' = calls + 1

Ends(p) == Becomes(p, Idle)

AlwaysFree(f) == TRUE                     \* mutant: no lock
LockFree(f) == lock[f] = None

\* p enters a transaction on its folder and reads the maps it will write back.
Locks(p, place) ==
  LET f == proc[p].folder
  IN /\ LockFree(f)
     /\ lock' = [lock EXCEPT ![f] = p]
     /\ Becomes(p, [proc[p] EXCEPT !.at = place, !.read = pins[f],
                                   !.stored = psks[f]])
     /\ UNCHANGED <<files, met, calls, accepted>>

Unlocks(p) == lock' = [lock EXCEPT ![proc[p].folder] = None]

\* p leaves the transaction and goes on.
GoesOn(p, place) ==
  Becomes(p, [proc[p] EXCEPT !.at = place, !.read = NoPins, !.stored = {},
                             !.copy = NoPins])

\* The lock is not had within five seconds.  A read of the legacy folder that
\* fails copies nothing, the PSK cache may fail, everything else ends in error.
LockTimesOut(p) ==
  /\ proc[p].at \in Waits
  /\ ~LockFree(IF proc[p].at = "legacyPins" THEN "legacy" ELSE proc[p].folder)
  /\ CASE proc[p].at = "legacyPins" -> Goes(p, "key")
       [] proc[p].at \in {"psk", "pskSave"} -> Goes(p, "handshake")
       [] OTHER -> Ends(p)
  /\ UNCHANGED <<lock, files, met, calls, accepted>>

\* What publishNoiseFile may do: a failure before the file appears, or one
\* after it did (the sync of the directory).
Published == {[written |-> TRUE, ok |-> TRUE]} \cup
             IF "publish" \notin Faults THEN {}
             ELSE {[written |-> FALSE, ok |-> FALSE], [written |-> TRUE, ok |-> FALSE]}

--------------------------------------------------------------------------------
(***************************************************************************)
(* Which folder, and the one-time copy.                                    *)
(***************************************************************************)

\* Where the files of an identity read from a file are: beside it when a key is
\* there or the folder can be written, which may fail for a while.
DefaultFolders ==
  IF key["beside"] = None /\ "unwritable" \in Faults THEN Folders ELSE {"beside"}

\* A connect learns which hub it meets.  The folder is named by the caller, or
\* found; when found beside the identity, without a key yet, a copy is due.
Connects(p) ==
  /\ Begins(p)
  /\ \E n \in Nodes, use \in Uses \cap {"wss", "channel"}, f \in Folders,
        named \in BOOLEAN :
       /\ IF named THEN "named" \in Uses ELSE f \in DefaultFolders
       /\ Becomes(p,
            [Idle EXCEPT !.use = use, !.node = n, !.folder = f,
                         !.fixed = named \/ use = "channel",
                         !.at = IF ~named /\ f = "beside" /\ key["beside"] = None
                                  THEN "legacyPins" ELSE "key"])
  /\ UNCHANGED <<lock, files, met, accepted>>

\* The legacy pins are read under the legacy folder's lock; only a key that has
\* met this hub is worth copying.
ReadsLegacyPins(p) ==
  /\ proc[p].at = "legacyPins"
  /\ LockFree("legacy")
  /\ IF pins["legacy"][proc[p].node] = None THEN Goes(p, "key")
     ELSE Becomes(p, [proc[p] EXCEPT !.at = "legacyKey", !.copy = pins["legacy"]])
  /\ UNCHANGED <<lock, files, met, calls, accepted>>

\* The legacy folder cannot be read, or holds no valid key.
LegacyUnread(p) ==
  /\ \/ proc[p].at \in {"legacyPins", "legacyKey"} /\ "unread" \in Faults
     \/ proc[p].at = "legacyKey" /\ key["legacy"] = None
  /\ GoesOn(p, "key")
  /\ UNCHANGED <<lock, files, met, calls, accepted>>

ReadsLegacyKey(p) ==
  /\ proc[p].at = "legacyKey"
  /\ key["legacy"] # None
  /\ Becomes(p, [proc[p] EXCEPT !.at = "copy", !.key = key["legacy"]])
  /\ UNCHANGED <<lock, files, met, calls, accepted>>

LocksForCopy(p) == proc[p].at = "copy" /\ Locks(p, "copyPins")

\* Another process has adopted, or started afresh, meanwhile.
CopyNotDue(p) ==
  /\ proc[p].at = "copyPins"
  /\ key["beside"] # None
  /\ Unlocks(p)
  /\ GoesOn(p, "key")
  /\ UNCHANGED <<files, met, calls, accepted>>

\* mutant: the copy wins over what is there
CopiedOver(p) == [n \in Nodes |-> IF proc[p].copy[n] = None THEN proc[p].read[n]
                                  ELSE proc[p].copy[n]]
Merged(p) == [n \in Nodes |-> IF proc[p].read[n] = None THEN proc[p].copy[n]
                              ELSE proc[p].read[n]]

CopyAnyway(o) == TRUE       \* mutant: the key is copied whatever became of the pins
PinsCopied(o) == o.ok

\* The pins go first ...
CopiesPins(p) ==
  /\ proc[p].at = "copyPins"
  /\ key["beside"] = None
  /\ \E o \in Published :
       /\ pins' = IF o.written THEN [pins EXCEPT !["beside"] = Merged(p)] ELSE pins
       /\ IF PinsCopied(o)
            THEN /\ Becomes(p, [proc[p] EXCEPT !.at = "copyKey", !.read = Merged(p)])
                 /\ UNCHANGED lock
            ELSE Ends(p) /\ Unlocks(p)
  /\ UNCHANGED <<key, psks, met, calls, accepted>>

AnyCopy(o) == TRUE               \* mutant: a copy that failed is not the end
KeyCopied(o) == o.ok

\* ... and the key last.
CopiesKey(p) ==
  /\ proc[p].at = "copyKey"
  /\ \E o \in Published :
       /\ key' = IF o.written THEN [key EXCEPT !["beside"] = proc[p].key] ELSE key
       /\ IF KeyCopied(o) THEN GoesOn(p, "key") ELSE Ends(p)
  /\ Unlocks(p)
  /\ UNCHANGED <<pins, psks, met, calls, accepted>>

--------------------------------------------------------------------------------
(***************************************************************************)
(* The client key and the PSK cache.                                       *)
(***************************************************************************)

\* With a key in hand, a WebSocket looks for a cached PSK; the other transports
\* derive it every time.
HasKey(p, k) ==
  Becomes(p, [proc[p] EXCEPT !.key = k, !.read = NoPins, !.stored = {},
                !.at = IF proc[p].use = "wss" THEN "psk" ELSE "handshake"])

LoadsKey(p) ==
  /\ proc[p].at = "key"
  /\ LockFree(proc[p].folder)
  /\ key[proc[p].folder] # None
  /\ HasKey(p, key[proc[p].folder])
  /\ UNCHANGED <<lock, files, met, calls, accepted>>

LocksForKey(p) ==
  /\ proc[p].at = "key"
  /\ key[proc[p].folder] = None
  /\ Locks(p, "create")

UsesAnyway(o) == TRUE           \* mutant: the error of publishNoiseFile is dropped
KeyMade(o) == o.ok

\* The key is linked, never put over another one.
CreatesKey(p) ==
  LET f == proc[p].folder
  IN /\ proc[p].at = "create"
     /\ \E o \in Published :
          /\ key' = IF o.written /\ key[f] = None
                      THEN [key EXCEPT ![f] = <<f, p>>] ELSE key
          /\ IF KeyMade(o) /\ key[f] = None THEN HasKey(p, <<f, p>>) ELSE Ends(p)
     /\ Unlocks(p)
     /\ UNCHANGED <<pins, psks, met, calls, accepted>>

\* A WebSocket works out its folder anew for each use.
FoldersNow(p) ==
  IF ~proc[p].fixed THEN DefaultFolders ELSE {proc[p].folder}

LoadsPsk(p) ==
  /\ proc[p].at = "psk"
  /\ \E f \in FoldersNow(p) :
       /\ LockFree(f)
       /\ Becomes(p, [proc[p] EXCEPT !.folder = f,
            !.at = IF proc[p].node \in psks[f] THEN "handshake" ELSE "pskSave"])
  /\ UNCHANGED <<lock, files, met, calls, accepted>>

LocksToSavePsk(p) == proc[p].at = "pskSave" /\ Locks(p, "pskSaving")

\* The cache saves work: what comes of writing it does not matter.
SavesPsk(p) ==
  LET f == proc[p].folder
  IN /\ proc[p].at = "pskSaving"
     /\ \E o \in Published : psks' =
          IF o.written THEN [psks EXCEPT ![f] = proc[p].stored \cup {proc[p].node}]
          ELSE psks
     /\ Unlocks(p)
     /\ GoesOn(p, "handshake")
     /\ UNCHANGED <<key, pins, met, calls, accepted>>

LocksToForgetPsk(p) == proc[p].at = "pskForget" /\ Locks(p, "pskForgetting")

ForgetsPsk(p) ==
  LET f == proc[p].folder
  IN /\ proc[p].at = "pskForgetting"
     /\ \E o \in Published : psks' =
          IF o.written THEN [psks EXCEPT ![f] = proc[p].stored \ {proc[p].node}]
          ELSE psks
     /\ Unlocks(p)
     /\ Ends(p)
     /\ UNCHANGED <<key, pins, met, calls, accepted>>

--------------------------------------------------------------------------------
(***************************************************************************)
(* The handshake, and what comes of it.                                    *)
(***************************************************************************)

\* The hub at the node presents a key, and pins the client's at first sight.
HubAnswers(p) ==
  /\ proc[p].at = "handshake"
  /\ met[proc[p].node] \in {None, proc[p].key}
  /\ met' = [met EXCEPT ![proc[p].node] = proc[p].key]
  /\ \E k \in HubKeys, f \in FoldersNow(p) :
       Becomes(p, [Idle EXCEPT !.at = "pin", !.node = proc[p].node, !.folder = f,
                               !.hubKey = k])
  /\ UNCHANGED <<lock, files, calls, accepted>>

\* It refuses another client key, or nothing comes of it.
HubRefuses(p) ==
  /\ proc[p].at = "handshake"
  /\ Ends(p)
  /\ UNCHANGED <<lock, files, met, calls, accepted>>

\* Its answer does not authenticate: the PSK may be one of an old password.
AnswerRefused(p) ==
  /\ proc[p].at = "handshake"
  /\ proc[p].use = "wss"
  /\ \E f \in FoldersNow(p) :
       Becomes(p, [Idle EXCEPT !.at = "pskForget", !.node = proc[p].node,
                               !.folder = f])
  /\ UNCHANGED <<lock, files, met, calls, accepted>>

\* SaveNoisePin, for a key the caller got elsewhere.
Saves(p) ==
  /\ Begins(p) /\ "save" \in Uses
  /\ \E n \in Nodes, f \in Folders, k \in HubKeys :
       Becomes(p, [Idle EXCEPT !.at = "pin", !.node = n, !.folder = f, !.hubKey = k])
  /\ UNCHANGED <<lock, files, met, accepted>>

LocksForPin(p) == proc[p].at = "pin" /\ Locks(p, "pinning")

PinsWhatever(p) == TRUE         \* mutant: the pin is not looked at
PinAgrees(p) == proc[p].read[proc[p].node] \in {None, proc[p].hubKey}

Accepts(p) ==
  accepted' = [accepted EXCEPT ![proc[p].folder][proc[p].node] = @ \cup {proc[p].hubKey}]

\* The hub's key is not the pinned one.
PinRefused(p) ==
  /\ proc[p].at = "pinning"
  /\ ~PinAgrees(p)
  /\ Unlocks(p)
  /\ Ends(p)
  /\ UNCHANGED <<files, met, calls, accepted>>

\* It is, or it is the first and is recorded.
PinsPeer(p) ==
  LET f == proc[p].folder
      n == proc[p].node
  IN /\ proc[p].at = "pinning"
     /\ PinAgrees(p)
     /\ \/ proc[p].read[n] = proc[p].hubKey /\ Accepts(p) /\ UNCHANGED pins
        \/ /\ proc[p].read[n] # proc[p].hubKey
           /\ \E o \in Published :
                /\ pins' = IF o.written
                             THEN [pins EXCEPT ![f] =
                                     [proc[p].read EXCEPT ![n] = proc[p].hubKey]]
                             ELSE pins
                /\ IF o.ok THEN Accepts(p) ELSE UNCHANGED accepted
     /\ Unlocks(p)
     /\ Ends(p)
     /\ UNCHANGED <<key, psks, met, calls>>

Forgets(p) ==
  /\ Begins(p) /\ "forget" \in Uses
  /\ \E n \in Nodes, f \in Folders :
       Becomes(p, [Idle EXCEPT !.at = "forget", !.node = n, !.folder = f])
  /\ UNCHANGED <<lock, files, met, accepted>>

LocksForForget(p) == proc[p].at = "forget" /\ Locks(p, "forgetting")

ForgetsPin(p) ==
  LET f == proc[p].folder
      n == proc[p].node
  IN /\ proc[p].at = "forgetting"
     /\ \E o \in Published :
          /\ pins' = IF o.written
                       THEN [pins EXCEPT ![f] = [proc[p].read EXCEPT ![n] = None]]
                       ELSE pins
          /\ accepted' = IF o.written THEN [accepted EXCEPT ![f][n] = {}]
                         ELSE accepted
     /\ Unlocks(p)
     /\ Ends(p)
     /\ UNCHANGED <<key, psks, met, calls>>

\* The process is killed; the system gives its lock back.
Crashes(p) ==
  /\ "crash" \in Faults
  /\ proc[p].at # "idle"
  /\ lock' = [f \in Folders |-> IF lock[f] = p THEN None ELSE lock[f]]
  /\ Ends(p)
  /\ UNCHANGED <<files, met, calls, accepted>>

--------------------------------------------------------------------------------
Copying(p) ==
  \/ ReadsLegacyPins(p) \/ LegacyUnread(p) \/ ReadsLegacyKey(p)
  \/ LocksForCopy(p)
  \/ CopyNotDue(p) \/ CopiesPins(p) \/ CopiesKey(p)

Keys(p) == LoadsKey(p) \/ LocksForKey(p) \/ CreatesKey(p)

Psks(p) ==
  \/ LoadsPsk(p) \/ LocksToSavePsk(p) \/ SavesPsk(p)
  \/ LocksToForgetPsk(p) \/ ForgetsPsk(p)

Pinning(p) ==
  \/ Saves(p) \/ LocksForPin(p) \/ PinRefused(p) \/ PinsPeer(p)
  \/ Forgets(p) \/ LocksForForget(p) \/ ForgetsPin(p)

Next == \E p \in Processes :
  \/ Connects(p) \/ Copying(p) \/ Keys(p) \/ Psks(p)
  \/ HubAnswers(p) \/ HubRefuses(p) \/ AnswerRefused(p) \/ Pinning(p)
  \/ LockTimesOut(p) \/ Crashes(p)

Spec == Init /\ [][Next]_vars

--------------------------------------------------------------------------------
(***************************************************************************)
(* The inductive invariant.                                                *)
(***************************************************************************)

\* A process is inside a transaction exactly when it holds its folder's lock,
\* and no lock is held otherwise.
LockOwned ==
  \A f \in Folders, p \in Processes :
    lock[f] = p <=> proc[p].at \in Holds /\ proc[p].folder = f

\* What a transaction has read is what is still there.
ReadTrue ==
  \A p \in Processes : proc[p].at \in Holds =>
    /\ proc[p].read = pins[proc[p].folder]
    /\ proc[p].stored = psks[proc[p].folder]

\* What a call knows at each place.
Knows(c) ==
  /\ c.at # "idle" => c.node \in Nodes
  /\ c.at \in {"pin", "pinning"} => c.hubKey \in HubKeys
  /\ c.at \in {"legacyPins", "legacyKey", "copy", "copyPins", "copyKey"} =>
       c.folder = "beside"
  /\ c.at \in {"legacyPins", "legacyKey"} => c.key = None
  /\ c.at \in {"copy", "copyPins", "copyKey"} => c.key # None
  /\ c.at \in {"create", "copyKey"} => key[c.folder] = None
  /\ c.at = "copyKey" => \A n \in Nodes : c.copy[n] # None => pins["beside"][n] # None
  /\ c.at = "key" /\ c.key # None => key[c.folder] # None

PlacesKnow == \A p \in Processes : Knows(proc[p])

--------------------------------------------------------------------------------
(***************************************************************************)
(* Safety.                                                                 *)
(***************************************************************************)

\* Since the pin of a hub was last forgotten, every key accepted for it in this
\* folder is the pinned one: of two processes that meet it for the first time
\* together, with different keys, one is refused (pinNoisePeer).
TrustIsOne == \A f \in Folders, n \in Nodes : accepted[f][n] \subseteq {pins[f][n]}

ShowsKept(c) ==
  c.at \in {"psk", "pskSave", "pskSaving", "handshake"} =>
    c.key # None /\ \E f \in Folders : key[f] = c.key

\* The key a process shows a hub is one a folder holds, and will hold: two first
\* uses of a folder never show two keys (LoadOrCreateNoiseKey).
KeyShownIsKept == \A p \in Processes : ShowsKept(proc[p])

\* A transaction touches its own node's entries alone: a recorded pin goes only
\* when that pin is forgotten, not when another is written, nor when the legacy
\* pins are copied; and so with the PSKs (every writer of the two maps).
OthersKept ==
  [][\A f \in Folders, n \in Nodes :
       /\ pins[f][n] \notin {None, pins'[f][n]} =>
            \E p \in Processes : /\ lock[f] = p /\ proc[p].node = n
                                 /\ proc[p].at = "forgetting"
       /\ (n \in psks[f]) # (n \in psks'[f]) =>
            \E p \in Processes : /\ lock[f] = p /\ proc[p].node = n
                                 /\ proc[p].at \in {"pskSaving", "pskForgetting"}]_vars

\* A copied key never comes without the pins it had met its hubs under, so a hub
\* that was known is not trusted at first sight again (adoptLegacyNoiseKey).
CopiedWithItsPins ==
  [][\A p \in Processes :
       proc[p].at = "copyKey" /\ key'["beside"] # key["beside"] =>
         \A n \in Nodes : proc[p].copy[n] # None => pins'["beside"][n] # None]_vars

\* A connect that set out to copy the old key makes none of its own, however the
\* copy fails and whoever gets there first (resolveNoiseStateDir).
NoKeyBesideFailedCopy ==
  \A p \in Processes : proc[p].at = "create" => proc[p].key = None

\* Inductive: the locks exclude one another, so what was read under one stays
\* true, and the three state properties above follow step by step.
IInv ==
  /\ TypeOK /\ LockOwned /\ ReadTrue /\ PlacesKnow
  /\ TrustIsOne /\ KeyShownIsKept /\ NoKeyBesideFailedCopy

(***************************************************************************)
(* What a comment says and the code does not do.                           *)
(***************************************************************************)

\* "so no device gets a new key and is locked out" (noise_folder.go): the hub
\* a connect meets knows no other key of this client.
NotLockedOut ==
  \A p \in Processes :
    proc[p].at = "handshake" => met[proc[p].node] \in {None, proc[p].key}

================================================================================
