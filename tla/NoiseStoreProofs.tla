---------------------------- MODULE NoiseStoreProofs ----------------------------
(***************************************************************************)
(* Proofs about NoiseStore, for any processes, hubs and keys, and with all *)
(* of its faults.  IInv is inductive.  A step outside a transaction and a  *)
(* step into one are each proved once (Outside, Entering); the steps that  *)
(* write a file are taken one by one.  The safety properties follow.       *)
(***************************************************************************)
EXTENDS NoiseStore, TLAPS

\* A file that is not there holds no pins.
LEMMA NoPinsType == NoPins \in Pins
BY DEF NoPins, Pins

\* A process between calls.
LEMMA IdleType == Idle \in Call /\ Idle.at = "idle"
BY NoPinsType DEF Call, Idle, Places, Folders

\* What the files hold, and what a process does, one by one.
LEMMA Types ==
  ASSUME TypeOK, NEW p \in Processes
  PROVE  /\ proc[p] \in Call
         /\ \A f \in Folders : /\ pins[f] \in Pins /\ psks[f] \in SUBSET Nodes
                               /\ key[f] \in ClientKeys \cup {None}
BY DEF TypeOK

\* One process goes on; the others stay where they are.
LEMMA Stepped ==
  ASSUME TypeOK, NEW p \in Processes, NEW c \in Call, Becomes(p, c)
  PROVE  /\ proc' \in [Processes -> Call]
         /\ proc'[p] = c
         /\ \A q \in Processes : q # p => proc'[q] = proc[q]
BY DEF TypeOK, Becomes

\* A step that starts and ends outside transactions writes no file; it keeps the
\* invariant when what the call then knows is true.
LEMMA Outside ==
  ASSUME IInv, NEW p \in Processes, NEW c \in Call, Becomes(p, c),
         proc[p].at \notin Holds, c.at \notin Holds, Knows(c), ShowsKept(c),
         UNCHANGED <<lock, files, accepted>>,
         met' \in [Nodes -> ClientKeys \cup {None}], calls' \in 0 .. MaxCalls
  PROVE  IInv'
<1>1. /\ proc' \in [Processes -> Call] /\ proc'[p] = c
      /\ \A q \in Processes : q # p => proc'[q] = proc[q]
  BY Stepped DEF IInv
<1>2. TypeOK'
  BY <1>1 DEF IInv, TypeOK, files
<1>3. LockOwned'
  BY <1>1 DEF IInv, LockOwned
<1>4. ReadTrue'
  BY <1>1 DEF IInv, ReadTrue, files
<1>5. PlacesKnow'
  BY <1>1 DEF IInv, PlacesKnow, Knows, files
<1>6. TrustIsOne'
  BY DEF IInv, TrustIsOne, files
<1>7. KeyShownIsKept'
  BY <1>1 DEF IInv, KeyShownIsKept, ShowsKept, files
<1>8. NoKeyBesideFailedCopy'
  BY <1>1 DEF IInv, NoKeyBesideFailedCopy, Holds
<1>9. QED
  BY <1>2, <1>3, <1>4, <1>5, <1>6, <1>7, <1>8 DEF IInv

\* A process that takes its folder's lock knows what it has read.
LEMMA Entering ==
  ASSUME IInv, NEW p \in Processes, NEW place \in Holds, Locks(p, place),
         proc[p].at \notin Holds, Knows([proc[p] EXCEPT !.at = place]),
         ShowsKept([proc[p] EXCEPT !.at = place]),
         place = "create" => proc[p].key = None,
         place # "copyKey"
  PROVE  IInv'
<1> DEFINE c == [proc[p] EXCEPT !.at = place, !.read = pins[proc[p].folder],
                                !.stored = psks[proc[p].folder]]
<1>1. /\ proc[p] \in Call
      /\ \A f \in Folders : pins[f] \in Pins /\ psks[f] \in SUBSET Nodes
  BY Types DEF IInv
<1>2. /\ c \in Call /\ c.at = place /\ c.folder = proc[p].folder /\ c.key = proc[p].key
      /\ c.node = proc[p].node /\ c.hubKey = proc[p].hubKey
      /\ c.read = pins[c.folder] /\ c.stored = psks[c.folder]
      /\ c.folder \in Folders
  BY <1>1 DEF Call, Places
<1>3. Becomes(p, c) /\ lock[c.folder] = None /\ lock' = [lock EXCEPT ![c.folder] = p]
  BY <1>2 DEF Locks, LockFree
<1>4. Knows(c) /\ ShowsKept(c)
  BY <1>1, <1>2 DEF Knows, ShowsKept, Call
<1> HIDE DEF c
<1>5. /\ proc' \in [Processes -> Call] /\ proc'[p] = c
      /\ \A q \in Processes : q # p => proc'[q] = proc[q]
  BY <1>2, <1>3, Stepped DEF IInv
<1>6. UNCHANGED <<key, pins, psks, met, calls, accepted>>
  BY DEF Locks, files
<1>7. TypeOK'
  BY <1>2, <1>3, <1>5, <1>6 DEF IInv, TypeOK
<1>8. LockOwned'
  BY NamesAssumption, <1>2, <1>3, <1>5 DEF IInv, TypeOK, LockOwned
<1>9. ReadTrue'
  BY <1>2, <1>5, <1>6 DEF IInv, ReadTrue
<1>10. PlacesKnow'
  BY <1>4, <1>5, <1>6 DEF IInv, PlacesKnow, Knows
<1>11. TrustIsOne'
  BY <1>6 DEF IInv, TrustIsOne
<1>12. KeyShownIsKept'
  BY <1>4, <1>5, <1>6 DEF IInv, KeyShownIsKept, ShowsKept
<1>13. NoKeyBesideFailedCopy'
  BY <1>2, <1>5 DEF IInv, NoKeyBesideFailedCopy
<1>14. QED
  BY <1>7, <1>8, <1>9, <1>10, <1>11, <1>12, <1>13 DEF IInv

\* A process that ends a transaction has changed its own folder alone, and no key
\* that was there; nobody else is inside.
LEMMA Leaving ==
  ASSUME IInv, NEW p \in Processes, NEW c \in Call, Becomes(p, c), Unlocks(p),
         proc[p].at \in Holds, c.at \notin Holds,
         key' \in [Folders -> ClientKeys \cup {None}],
         pins' \in [Folders -> Pins], psks' \in [Folders -> SUBSET Nodes],
         accepted' \in [Folders -> [Nodes -> SUBSET HubKeys]],
         UNCHANGED <<met, calls>>,
         \A f \in Folders : f # proc[p].folder =>
           key'[f] = key[f] /\ pins'[f] = pins[f] /\ psks'[f] = psks[f],
         \A f \in Folders : key[f] # None => key'[f] = key[f],
         TrustIsOne', Knows(c)', ShowsKept(c)'
  PROVE  IInv'
<1>1. /\ proc' \in [Processes -> Call] /\ proc'[p] = c
      /\ \A q \in Processes : q # p => proc'[q] = proc[q]
  BY Stepped DEF IInv
<1>2. /\ proc[p].folder \in Folders
      /\ lock[proc[p].folder] = p /\ lock' = [lock EXCEPT ![proc[p].folder] = None]
      /\ lock \in [Folders -> Processes \cup {None}]
  BY Types DEF IInv, TypeOK, LockOwned, Unlocks, Call
<1>3. \A q \in Processes : q # p /\ proc[q].at \in Holds =>
        proc[q].folder \in Folders \ {proc[p].folder}
  BY <1>2, Types DEF IInv, LockOwned, Call
<1>4. TypeOK'
  BY <1>1, <1>2 DEF IInv, TypeOK
<1>5. LockOwned'
  BY NamesAssumption, <1>1, <1>2 DEF IInv, LockOwned
<1>6. ReadTrue'
  BY <1>1, <1>3 DEF IInv, ReadTrue
<1>7. PlacesKnow'
  <2>1. ASSUME NEW q \in Processes, q # p PROVE Knows(proc[q])'
    <3>1. proc[q].folder \in Folders
      BY Types DEF IInv, Call
    <3>2. Knows(proc[q]) /\ proc'[q] = proc[q]
      BY <1>1, <2>1 DEF IInv, PlacesKnow
    <3>3. proc[q].at \in {"create", "copyKey"} =>
            key'[proc[q].folder] = key[proc[q].folder]
      BY <1>3, <2>1 DEF Holds
    <3>4. proc[q].at = "copyKey" => pins'["beside"] = pins["beside"]
      BY <1>3, <2>1, <3>2 DEF Knows, Holds
    <3>5. proc[q].at = "key" /\ proc[q].key # None => key'[proc[q].folder] # None
      BY <3>1, <3>2 DEF Knows
    <3>6. QED
      BY <3>2, <3>3, <3>4, <3>5 DEF Knows
  <2>2. QED
    BY <1>1, <2>1 DEF PlacesKnow
<1>8. KeyShownIsKept'
  BY <1>1 DEF IInv, KeyShownIsKept, ShowsKept
<1>9. NoKeyBesideFailedCopy'
  BY <1>1 DEF IInv, NoKeyBesideFailedCopy, Holds
<1>10. QED
  BY <1>4, <1>5, <1>6, <1>7, <1>8, <1>9 DEF IInv

\* A connect begins with nothing in hand.
LEMMA ConnectsKeeps ==
  ASSUME IInv, NEW p \in Processes, Connects(p)
  PROVE  IInv'
<1>1. PICK n \in Nodes, use \in Uses \cap {"wss", "channel"}, f \in Folders,
           named \in BOOLEAN :
        Becomes(p, [Idle EXCEPT !.use = use, !.node = n, !.folder = f,
                      !.fixed = named \/ use = "channel",
                      !.at = IF ~named /\ f = "beside" /\ key["beside"] = None
                               THEN "legacyPins" ELSE "key"])
  BY DEF Connects
<1> DEFINE fixed == named \/ use = "channel"
           place == IF ~named /\ f = "beside" /\ key["beside"] = None
                      THEN "legacyPins" ELSE "key"
           c == [Idle EXCEPT !.use = use, !.node = n, !.folder = f, !.fixed = fixed,
                             !.at = place]
<1>2. /\ fixed \in BOOLEAN /\ use \in {"none", "wss", "channel"}
      /\ place \in {"legacyPins", "key"} /\ place \in Places
      /\ place = "legacyPins" => f = "beside"
  BY DEF Places, Waits
<1> HIDE DEF fixed, place
<1>3. c \in Call
  BY <1>2, IdleType DEF Call
<1>4. c.at = place /\ c.node = n /\ c.folder = f /\ c.key = None
  BY <1>2, IdleType DEF Call, Idle
<1>5. Becomes(p, c)
  BY <1>1 DEF fixed, place
<1> HIDE DEF c
<1>6. c.at \notin Holds /\ Knows(c) /\ ShowsKept(c)
  BY <1>2, <1>4 DEF Holds, Knows, ShowsKept
<1>7. /\ proc[p].at \notin Holds /\ UNCHANGED <<lock, files, accepted>>
      /\ met' \in [Nodes -> ClientKeys \cup {None}] /\ calls' \in 0 .. MaxCalls
  BY BoundAssumption DEF Connects, Begins, Holds, IInv, TypeOK
<1>8. QED
  BY <1>3, <1>5, <1>6, <1>7, Outside

\* What is read of the legacy folder is a copy.
LEMMA ReadsLegacyPinsKeeps ==
  ASSUME IInv, NEW p \in Processes, ReadsLegacyPins(p)
  PROVE  IInv'
<1>1. proc[p] \in Call /\ Knows(proc[p])
  BY Types DEF IInv, PlacesKnow
<1>2. \A f \in Folders : pins[f] \in Pins /\ key[f] \in ClientKeys \cup {None}
  BY Types DEF IInv
<1>3. /\ proc[p].at \notin Holds /\ UNCHANGED <<lock, files, accepted>>
      /\ met' \in [Nodes -> ClientKeys \cup {None}] /\ calls' \in 0 .. MaxCalls
  BY DEF ReadsLegacyPins, Holds, IInv, TypeOK
<1>4. ASSUME Becomes(p, [proc[p] EXCEPT !.at = "key"])
      PROVE  IInv'
  <2> DEFINE c == [proc[p] EXCEPT !.at = "key"]
  <2>1. c \in Call
    BY <1>1, <1>2 DEF Call, Folders, Places, Waits
  <2>2. c.at \notin Holds /\ Knows(c) /\ ShowsKept(c)
    BY <1>1 DEF ReadsLegacyPins, Call, Holds, Knows, ShowsKept
  <2> HIDE DEF c
  <2>3. Becomes(p, c)
    BY <1>4 DEF c
  <2>4. QED
    BY <1>3, <2>1, <2>2, <2>3, Outside
<1>5. ASSUME Becomes(p, [proc[p] EXCEPT !.at = "legacyKey", !.copy = pins["legacy"]])
      PROVE  IInv'
  <2> DEFINE c == [proc[p] EXCEPT !.at = "legacyKey", !.copy = pins["legacy"]]
  <2>1. c \in Call
    BY <1>1, <1>2 DEF Call, Folders, Places, Waits
  <2>2. c.at \notin Holds /\ Knows(c) /\ ShowsKept(c)
    BY <1>1 DEF ReadsLegacyPins, Call, Holds, Knows, ShowsKept
  <2> HIDE DEF c
  <2>3. Becomes(p, c)
    BY <1>5 DEF c
  <2>4. QED
    BY <1>3, <2>1, <2>2, <2>3, Outside
<1>6. QED
  BY <1>4, <1>5 DEF ReadsLegacyPins, Goes

\* A legacy folder that cannot be read leaves no key in hand.
LEMMA LegacyUnreadKeeps ==
  ASSUME IInv, NEW p \in Processes, LegacyUnread(p)
  PROVE  IInv'
<1>1. proc[p] \in Call /\ Knows(proc[p])
  BY Types DEF IInv, PlacesKnow
<1>2. \A f \in Folders : pins[f] \in Pins /\ key[f] \in ClientKeys \cup {None}
  BY Types DEF IInv
<1>3. /\ proc[p].at \notin Holds /\ UNCHANGED <<lock, files, accepted>>
      /\ met' \in [Nodes -> ClientKeys \cup {None}] /\ calls' \in 0 .. MaxCalls
  BY DEF LegacyUnread, Holds, IInv, TypeOK
<1>4. ASSUME Becomes(p, [proc[p] EXCEPT !.at = "key", !.read = NoPins, !.stored = {}, !.copy = NoPins])
      PROVE  IInv'
  <2> DEFINE c == [proc[p] EXCEPT !.at = "key", !.read = NoPins, !.stored = {}, !.copy = NoPins]
  <2>1. c \in Call
    BY NoPinsType, <1>1, <1>2 DEF Call, Folders, Places, Waits
  <2>2. c.at \notin Holds /\ Knows(c) /\ ShowsKept(c)
    BY <1>1 DEF LegacyUnread, Call, Holds, Knows, ShowsKept
  <2> HIDE DEF c
  <2>3. Becomes(p, c)
    BY <1>4 DEF c
  <2>4. QED
    BY <1>3, <2>1, <2>2, <2>3, Outside
<1>5. QED
  BY <1>4 DEF LegacyUnread, GoesOn

\* The legacy key is read after its pins.
LEMMA ReadsLegacyKeyKeeps ==
  ASSUME IInv, NEW p \in Processes, ReadsLegacyKey(p)
  PROVE  IInv'
<1>1. proc[p] \in Call /\ Knows(proc[p])
  BY Types DEF IInv, PlacesKnow
<1>2. \A f \in Folders : pins[f] \in Pins /\ key[f] \in ClientKeys \cup {None}
  BY Types DEF IInv
<1>3. /\ proc[p].at \notin Holds /\ UNCHANGED <<lock, files, accepted>>
      /\ met' \in [Nodes -> ClientKeys \cup {None}] /\ calls' \in 0 .. MaxCalls
  BY DEF ReadsLegacyKey, Holds, IInv, TypeOK
<1>4. ASSUME Becomes(p, [proc[p] EXCEPT !.at = "copy", !.key = key["legacy"]])
      PROVE  IInv'
  <2> DEFINE c == [proc[p] EXCEPT !.at = "copy", !.key = key["legacy"]]
  <2>1. c \in Call
    BY <1>1, <1>2 DEF Call, Folders, Places, Waits
  <2>2. c.at \notin Holds /\ Knows(c) /\ ShowsKept(c)
    BY <1>1 DEF ReadsLegacyKey, Call, Holds, Knows, ShowsKept
  <2> HIDE DEF c
  <2>3. Becomes(p, c)
    BY <1>4 DEF c
  <2>4. QED
    BY <1>3, <2>1, <2>2, <2>3, Outside
<1>5. QED
  BY <1>4 DEF ReadsLegacyKey

\* A copy begins under the lock of the folder it goes to.
LEMMA LocksForCopyKeeps ==
  ASSUME IInv, NEW p \in Processes, LocksForCopy(p)
  PROVE  IInv'
<1>1. proc[p] \in Call /\ Knows(proc[p]) /\ ShowsKept(proc[p])
  BY Types DEF IInv, PlacesKnow, KeyShownIsKept
<1>2. /\ Knows([proc[p] EXCEPT !.at = "copyPins"])
      /\ ShowsKept([proc[p] EXCEPT !.at = "copyPins"])
      /\ "copyPins" = "create" => proc[p].key = None
  BY <1>1 DEF LocksForCopy, Call, Knows, ShowsKept
<1>3. Locks(p, "copyPins") /\ proc[p].at \notin Holds /\ "copyPins" \in Holds
  BY DEF LocksForCopy, Holds
<1>4. QED
  BY <1>2, <1>3, Entering

\* A key is made only by a process that has none in hand.
LEMMA LocksForKeyKeeps ==
  ASSUME IInv, NEW p \in Processes, LocksForKey(p)
  PROVE  IInv'
<1>1. proc[p] \in Call /\ Knows(proc[p]) /\ ShowsKept(proc[p])
  BY Types DEF IInv, PlacesKnow, KeyShownIsKept
<1>2. /\ Knows([proc[p] EXCEPT !.at = "create"])
      /\ ShowsKept([proc[p] EXCEPT !.at = "create"])
      /\ "create" = "create" => proc[p].key = None
  BY <1>1 DEF LocksForKey, Call, Knows, ShowsKept
<1>3. Locks(p, "create") /\ proc[p].at \notin Holds /\ "create" \in Holds
  BY DEF LocksForKey, Holds
<1>4. QED
  BY <1>2, <1>3, Entering

\* The PSK cache is read again under the lock.
LEMMA LocksToSavePskKeeps ==
  ASSUME IInv, NEW p \in Processes, LocksToSavePsk(p)
  PROVE  IInv'
<1>1. proc[p] \in Call /\ Knows(proc[p]) /\ ShowsKept(proc[p])
  BY Types DEF IInv, PlacesKnow, KeyShownIsKept
<1>2. /\ Knows([proc[p] EXCEPT !.at = "pskSaving"])
      /\ ShowsKept([proc[p] EXCEPT !.at = "pskSaving"])
      /\ "pskSaving" = "create" => proc[p].key = None
  BY <1>1 DEF LocksToSavePsk, Call, Knows, ShowsKept
<1>3. Locks(p, "pskSaving") /\ proc[p].at \notin Holds /\ "pskSaving" \in Holds
  BY DEF LocksToSavePsk, Holds
<1>4. QED
  BY <1>2, <1>3, Entering

\* So it is to forget one.
LEMMA LocksToForgetPskKeeps ==
  ASSUME IInv, NEW p \in Processes, LocksToForgetPsk(p)
  PROVE  IInv'
<1>1. proc[p] \in Call /\ Knows(proc[p]) /\ ShowsKept(proc[p])
  BY Types DEF IInv, PlacesKnow, KeyShownIsKept
<1>2. /\ Knows([proc[p] EXCEPT !.at = "pskForgetting"])
      /\ ShowsKept([proc[p] EXCEPT !.at = "pskForgetting"])
      /\ "pskForgetting" = "create" => proc[p].key = None
  BY <1>1 DEF LocksToForgetPsk, Call, Knows, ShowsKept
<1>3. Locks(p, "pskForgetting") /\ proc[p].at \notin Holds /\ "pskForgetting" \in Holds
  BY DEF LocksToForgetPsk, Holds
<1>4. QED
  BY <1>2, <1>3, Entering

\* The pin is compared and recorded under one lock.
LEMMA LocksForPinKeeps ==
  ASSUME IInv, NEW p \in Processes, LocksForPin(p)
  PROVE  IInv'
<1>1. proc[p] \in Call /\ Knows(proc[p]) /\ ShowsKept(proc[p])
  BY Types DEF IInv, PlacesKnow, KeyShownIsKept
<1>2. /\ Knows([proc[p] EXCEPT !.at = "pinning"])
      /\ ShowsKept([proc[p] EXCEPT !.at = "pinning"])
      /\ "pinning" = "create" => proc[p].key = None
  BY <1>1 DEF LocksForPin, Call, Knows, ShowsKept
<1>3. Locks(p, "pinning") /\ proc[p].at \notin Holds /\ "pinning" \in Holds
  BY DEF LocksForPin, Holds
<1>4. QED
  BY <1>2, <1>3, Entering

\* So is the pin to forget.
LEMMA LocksForForgetKeeps ==
  ASSUME IInv, NEW p \in Processes, LocksForForget(p)
  PROVE  IInv'
<1>1. proc[p] \in Call /\ Knows(proc[p]) /\ ShowsKept(proc[p])
  BY Types DEF IInv, PlacesKnow, KeyShownIsKept
<1>2. /\ Knows([proc[p] EXCEPT !.at = "forgetting"])
      /\ ShowsKept([proc[p] EXCEPT !.at = "forgetting"])
      /\ "forgetting" = "create" => proc[p].key = None
  BY <1>1 DEF LocksForForget, Call, Knows, ShowsKept
<1>3. Locks(p, "forgetting") /\ proc[p].at \notin Holds /\ "forgetting" \in Holds
  BY DEF LocksForForget, Holds
<1>4. QED
  BY <1>2, <1>3, Entering

\* A loaded key is in its folder.
LEMMA LoadsKeyKeeps ==
  ASSUME IInv, NEW p \in Processes, LoadsKey(p)
  PROVE  IInv'
<1>1. proc[p] \in Call /\ Knows(proc[p]) /\ ShowsKept(proc[p])
  BY Types DEF IInv, PlacesKnow, KeyShownIsKept
<1>2. \A f \in Folders : /\ pins[f] \in Pins /\ psks[f] \in SUBSET Nodes
                         /\ key[f] \in ClientKeys \cup {None}
  BY Types DEF IInv
<1>3. /\ proc[p].at \notin Holds /\ UNCHANGED <<lock, files, accepted>>
      /\ met' \in [Nodes -> ClientKeys \cup {None}] /\ calls' \in 0 .. MaxCalls
  BY DEF LoadsKey, Holds, IInv, TypeOK
<1>4. Becomes(p, [proc[p] EXCEPT !.key = key[proc[p].folder],
            !.read = NoPins, !.stored = {},
            !.at = IF proc[p].use = "wss" THEN "psk" ELSE "handshake"])
  BY DEF LoadsKey, HasKey
<1> DEFINE c == [proc[p] EXCEPT !.key = key[proc[p].folder],
            !.read = NoPins, !.stored = {},
            !.at = IF proc[p].use = "wss" THEN "psk" ELSE "handshake"]
<1>6. c \in Call
  <2>1. PICK at \in Places : at = IF proc[p].use = "wss" THEN "psk" ELSE "handshake"
    BY DEF Places, Waits
  <2>2. PICK found \in ClientKeys \cup {None} : found = key[proc[p].folder]
    BY <1>1, <1>2 DEF Call
  <2>3. c = [proc[p] EXCEPT !.key = found, !.read = NoPins, !.stored = {}, !.at = at]
    BY <2>1, <2>2
  <2> HIDE DEF c
  <2>4. QED
    BY NoPinsType, <1>1, <2>3 DEF Call
<1>7. c.at \notin Holds /\ Knows(c) /\ ShowsKept(c)
  BY NoPinsType, <1>1 DEF LoadsKey, Idle, Call, Holds, Knows, ShowsKept
<1> HIDE DEF c
<1>8. Becomes(p, c)
  BY <1>4 DEF c
<1>9. QED
  BY <1>3, <1>6, <1>7, <1>8, Outside

\* Reading the PSK cache changes neither key nor pins.
LEMMA LoadsPskKeeps ==
  ASSUME IInv, NEW p \in Processes, LoadsPsk(p)
  PROVE  IInv'
<1>1. proc[p] \in Call /\ Knows(proc[p]) /\ ShowsKept(proc[p])
  BY Types DEF IInv, PlacesKnow, KeyShownIsKept
<1>2. \A f \in Folders : /\ pins[f] \in Pins /\ psks[f] \in SUBSET Nodes
                         /\ key[f] \in ClientKeys \cup {None}
  BY Types DEF IInv
<1>3. /\ proc[p].at \notin Holds /\ UNCHANGED <<lock, files, accepted>>
      /\ met' \in [Nodes -> ClientKeys \cup {None}] /\ calls' \in 0 .. MaxCalls
  BY DEF LoadsPsk, Holds, IInv, TypeOK
<1>4. PICK f \in FoldersNow(p) : Becomes(p, [proc[p] EXCEPT !.folder = f,
            !.at = IF proc[p].node \in psks[f] THEN "handshake" ELSE "pskSave"])
  BY DEF LoadsPsk
<1>5. f \in Folders
  BY <1>1 DEF FoldersNow, DefaultFolders, Folders, Call
<1> DEFINE c == [proc[p] EXCEPT !.folder = f,
            !.at = IF proc[p].node \in psks[f] THEN "handshake" ELSE "pskSave"]
<1>6. c \in Call
  <2>1. PICK at \in Places : at = IF proc[p].node \in psks[f] THEN "handshake" ELSE "pskSave"
    BY DEF Places, Waits
  <2>2. c = [proc[p] EXCEPT !.folder = f, !.at = at]
    BY <2>1
  <2> HIDE DEF c
  <2>3. QED
    BY <1>1, <1>5, <2>2 DEF Call
<1>7. c.at \notin Holds /\ Knows(c) /\ ShowsKept(c)
  BY <1>1, <1>5 DEF LoadsPsk, Idle, Call, Holds, Knows, ShowsKept
<1> HIDE DEF c
<1>8. Becomes(p, c)
  BY <1>4 DEF c
<1>9. QED
  BY <1>3, <1>6, <1>7, <1>8, Outside

\* The hub shows its key, which the pin is to be compared with.
LEMMA HubAnswersKeeps ==
  ASSUME IInv, NEW p \in Processes, HubAnswers(p)
  PROVE  IInv'
<1>1. proc[p] \in Call /\ Knows(proc[p]) /\ ShowsKept(proc[p])
  BY Types DEF IInv, PlacesKnow, KeyShownIsKept
<1>2. \A f \in Folders : /\ pins[f] \in Pins /\ psks[f] \in SUBSET Nodes
                         /\ key[f] \in ClientKeys \cup {None}
  BY Types DEF IInv
<1>3. /\ proc[p].at \notin Holds /\ UNCHANGED <<lock, files, accepted>>
      /\ met' \in [Nodes -> ClientKeys \cup {None}] /\ calls' \in 0 .. MaxCalls
  BY <1>1 DEF HubAnswers, Call, Holds, IInv, TypeOK
<1>4. PICK k \in HubKeys, f \in FoldersNow(p) : Becomes(p, [Idle EXCEPT !.at = "pin", !.node = proc[p].node, !.folder = f,
                        !.hubKey = k])
  BY DEF HubAnswers
<1>5. f \in Folders
  BY <1>1 DEF FoldersNow, DefaultFolders, Folders, Call
<1> DEFINE c == [Idle EXCEPT !.at = "pin", !.node = proc[p].node, !.folder = f,
                        !.hubKey = k]
<1>6. c \in Call
  BY IdleType, <1>1, <1>2, <1>5 DEF Call, Folders, Places, Waits
<1>7. c.at \notin Holds /\ Knows(c) /\ ShowsKept(c)
  BY IdleType, <1>1, <1>5 DEF HubAnswers, Idle, Call, Holds, Knows, ShowsKept
<1> HIDE DEF c
<1>8. Becomes(p, c)
  BY <1>4 DEF c
<1>9. QED
  BY <1>3, <1>6, <1>7, <1>8, Outside

\* The hub refuses the key of this client.
LEMMA HubRefusesKeeps ==
  ASSUME IInv, NEW p \in Processes, HubRefuses(p)
  PROVE  IInv'
<1>1. proc[p] \in Call /\ Knows(proc[p]) /\ ShowsKept(proc[p])
  BY Types DEF IInv, PlacesKnow, KeyShownIsKept
<1>2. \A f \in Folders : /\ pins[f] \in Pins /\ psks[f] \in SUBSET Nodes
                         /\ key[f] \in ClientKeys \cup {None}
  BY Types DEF IInv
<1>3. /\ proc[p].at \notin Holds /\ UNCHANGED <<lock, files, accepted>>
      /\ met' \in [Nodes -> ClientKeys \cup {None}] /\ calls' \in 0 .. MaxCalls
  BY DEF HubRefuses, Holds, IInv, TypeOK
<1>4. Becomes(p, Idle)
  BY DEF HubRefuses, Ends
<1> DEFINE c == Idle
<1>6. c \in Call
  BY IdleType, <1>1, <1>2 DEF Call, Folders, Places, Waits
<1>7. c.at \notin Holds /\ Knows(c) /\ ShowsKept(c)
  BY IdleType, <1>1 DEF HubRefuses, Idle, Call, Holds, Knows, ShowsKept
<1> HIDE DEF c
<1>8. Becomes(p, c)
  BY <1>4 DEF c
<1>9. QED
  BY <1>3, <1>6, <1>7, <1>8, Outside

\* The PSK may be an old one.
LEMMA AnswerRefusedKeeps ==
  ASSUME IInv, NEW p \in Processes, AnswerRefused(p)
  PROVE  IInv'
<1>1. proc[p] \in Call /\ Knows(proc[p]) /\ ShowsKept(proc[p])
  BY Types DEF IInv, PlacesKnow, KeyShownIsKept
<1>2. \A f \in Folders : /\ pins[f] \in Pins /\ psks[f] \in SUBSET Nodes
                         /\ key[f] \in ClientKeys \cup {None}
  BY Types DEF IInv
<1>3. /\ proc[p].at \notin Holds /\ UNCHANGED <<lock, files, accepted>>
      /\ met' \in [Nodes -> ClientKeys \cup {None}] /\ calls' \in 0 .. MaxCalls
  BY DEF AnswerRefused, Holds, IInv, TypeOK
<1>4. PICK f \in FoldersNow(p) : Becomes(p, [Idle EXCEPT !.at = "pskForget", !.node = proc[p].node,
                        !.folder = f])
  BY DEF AnswerRefused
<1>5. f \in Folders
  BY <1>1 DEF FoldersNow, DefaultFolders, Folders, Call
<1> DEFINE c == [Idle EXCEPT !.at = "pskForget", !.node = proc[p].node,
                        !.folder = f]
<1>6. c \in Call
  BY IdleType, <1>1, <1>2, <1>5 DEF Call, Folders, Places, Waits
<1>7. c.at \notin Holds /\ Knows(c) /\ ShowsKept(c)
  BY IdleType, <1>1, <1>5 DEF AnswerRefused, Idle, Call, Holds, Knows, ShowsKept
<1> HIDE DEF c
<1>8. Becomes(p, c)
  BY <1>4 DEF c
<1>9. QED
  BY <1>3, <1>6, <1>7, <1>8, Outside

\* SaveNoisePin begins.
LEMMA SavesKeeps ==
  ASSUME IInv, NEW p \in Processes, Saves(p)
  PROVE  IInv'
<1>1. proc[p] \in Call /\ Knows(proc[p]) /\ ShowsKept(proc[p])
  BY Types DEF IInv, PlacesKnow, KeyShownIsKept
<1>2. \A f \in Folders : /\ pins[f] \in Pins /\ psks[f] \in SUBSET Nodes
                         /\ key[f] \in ClientKeys \cup {None}
  BY Types DEF IInv
<1>3. /\ proc[p].at \notin Holds /\ UNCHANGED <<lock, files, accepted>>
      /\ met' \in [Nodes -> ClientKeys \cup {None}] /\ calls' \in 0 .. MaxCalls
  BY BoundAssumption DEF Saves, Begins, Holds, IInv, TypeOK
<1>4. PICK n \in Nodes, f \in Folders, k \in HubKeys : Becomes(p, [Idle EXCEPT !.at = "pin", !.node = n, !.folder = f, !.hubKey = k])
  BY DEF Saves
<1> DEFINE c == [Idle EXCEPT !.at = "pin", !.node = n, !.folder = f, !.hubKey = k]
<1>6. c \in Call
  BY IdleType, <1>1, <1>2 DEF Call, Folders, Places, Waits
<1>7. c.at \notin Holds /\ Knows(c) /\ ShowsKept(c)
  BY IdleType, <1>1 DEF Saves, Idle, Call, Holds, Knows, ShowsKept
<1> HIDE DEF c
<1>8. Becomes(p, c)
  BY <1>4 DEF c
<1>9. QED
  BY <1>3, <1>6, <1>7, <1>8, Outside

\* ForgetNoisePin begins.
LEMMA ForgetsKeeps ==
  ASSUME IInv, NEW p \in Processes, Forgets(p)
  PROVE  IInv'
<1>1. proc[p] \in Call /\ Knows(proc[p]) /\ ShowsKept(proc[p])
  BY Types DEF IInv, PlacesKnow, KeyShownIsKept
<1>2. \A f \in Folders : /\ pins[f] \in Pins /\ psks[f] \in SUBSET Nodes
                         /\ key[f] \in ClientKeys \cup {None}
  BY Types DEF IInv
<1>3. /\ proc[p].at \notin Holds /\ UNCHANGED <<lock, files, accepted>>
      /\ met' \in [Nodes -> ClientKeys \cup {None}] /\ calls' \in 0 .. MaxCalls
  BY BoundAssumption DEF Forgets, Begins, Holds, IInv, TypeOK
<1>4. PICK n \in Nodes, f \in Folders : Becomes(p, [Idle EXCEPT !.at = "forget", !.node = n, !.folder = f])
  BY DEF Forgets
<1> DEFINE c == [Idle EXCEPT !.at = "forget", !.node = n, !.folder = f]
<1>6. c \in Call
  BY IdleType, <1>1, <1>2 DEF Call, Folders, Places, Waits
<1>7. c.at \notin Holds /\ Knows(c) /\ ShowsKept(c)
  BY IdleType, <1>1 DEF Forgets, Idle, Call, Holds, Knows, ShowsKept
<1> HIDE DEF c
<1>8. Becomes(p, c)
  BY <1>4 DEF c
<1>9. QED
  BY <1>3, <1>6, <1>7, <1>8, Outside

\* A lock that is not had is waited for no longer.
LEMMA LockTimesOutKeeps ==
  ASSUME IInv, NEW p \in Processes, LockTimesOut(p)
  PROVE  IInv'
<1>1. proc[p] \in Call /\ Knows(proc[p]) /\ ShowsKept(proc[p])
  BY Types DEF IInv, PlacesKnow, KeyShownIsKept
<1>2. \A f \in Folders : /\ pins[f] \in Pins /\ psks[f] \in SUBSET Nodes
                         /\ key[f] \in ClientKeys \cup {None}
  BY Types DEF IInv
<1>3. /\ proc[p].at \notin Holds /\ UNCHANGED <<lock, files, accepted>>
      /\ met' \in [Nodes -> ClientKeys \cup {None}] /\ calls' \in 0 .. MaxCalls
  BY DEF LockTimesOut, Waits, Holds, IInv, TypeOK
<1>4. \/ proc[p].at = "legacyPins" /\ Goes(p, "key")
      \/ proc[p].at \in {"psk", "pskSave"} /\ Goes(p, "handshake")
      \/ Ends(p)
  BY DEF LockTimesOut
<1>5. CASE proc[p].at = "legacyPins" /\ Goes(p, "key")
  <2> DEFINE c == [proc[p] EXCEPT !.at = "key"]
  <2>1. c \in Call /\ c.at \notin Holds /\ Knows(c) /\ ShowsKept(c)
    BY <1>1, <1>5 DEF Call, Places, Waits, Holds, Knows, ShowsKept
  <2>2. QED
    BY <1>3, <1>5, <2>1, Outside DEF Goes
<1>6. CASE proc[p].at \in {"psk", "pskSave"} /\ Goes(p, "handshake")
  <2> DEFINE c == [proc[p] EXCEPT !.at = "handshake"]
  <2>1. c \in Call /\ c.at \notin Holds /\ Knows(c) /\ ShowsKept(c)
    BY <1>1, <1>6 DEF Call, Places, Waits, Holds, Knows, ShowsKept
  <2>2. QED
    BY <1>3, <1>6, <2>1, Outside DEF Goes
<1>7. CASE Ends(p)
  <2>1. Idle \in Call /\ Idle.at \notin Holds /\ Knows(Idle) /\ ShowsKept(Idle)
    BY IdleType DEF Holds, Knows, ShowsKept
  <2>2. QED
    BY <1>3, <1>7, <2>1, Outside DEF Ends
<1>8. QED
  BY <1>4, <1>5, <1>6, <1>7

\* Another process has made or copied the key.
LEMMA CopyNotDueKeeps ==
  ASSUME IInv, NEW p \in Processes, CopyNotDue(p)
  PROVE  IInv'
<1>1. proc[p] \in Call /\ Knows(proc[p]) /\ proc[p].folder \in Folders
  BY Types DEF IInv, PlacesKnow, Call
<1>2. /\ key \in [Folders -> ClientKeys \cup {None}]
      /\ pins \in [Folders -> Pins] /\ psks \in [Folders -> SUBSET Nodes]
      /\ accepted \in [Folders -> [Nodes -> SUBSET HubKeys]]
  BY DEF IInv, TypeOK
<1>3. /\ proc[p].at = "copyPins" /\ proc[p].at \in Holds /\ Unlocks(p)
      /\ UNCHANGED <<met, calls>>
  BY DEF CopyNotDue, Holds
<1>0. PICK c \in Call : c = [proc[p] EXCEPT !.at = "key", !.read = NoPins,
                                          !.stored = {}, !.copy = NoPins]
  BY NoPinsType, <1>1 DEF Call, Places, Waits
<1>4. Becomes(p, c) /\ UNCHANGED <<files, accepted>> /\ key["beside"] # None
  BY <1>0 DEF CopyNotDue, GoesOn
<1>5. c.at = "key" /\ c.folder = "beside" /\ c.node \in Nodes
  BY <1>0, <1>1, <1>3 DEF Call, Knows
<1>6. c.at \notin Holds /\ Knows(c)' /\ ShowsKept(c)'
  BY <1>4, <1>5 DEF Holds, Knows, ShowsKept, files
<1>7. TrustIsOne'
  BY <1>4 DEF IInv, TrustIsOne, files
<1>8. QED
  BY <1>2, <1>3, <1>4, <1>5, <1>6, <1>7, Leaving DEF files

\* A key that is not the pinned one changes nothing.
LEMMA PinRefusedKeeps ==
  ASSUME IInv, NEW p \in Processes, PinRefused(p)
  PROVE  IInv'
<1>1. proc[p] \in Call /\ Knows(proc[p]) /\ proc[p].folder \in Folders
  BY Types DEF IInv, PlacesKnow, Call
<1>2. /\ key \in [Folders -> ClientKeys \cup {None}]
      /\ pins \in [Folders -> Pins] /\ psks \in [Folders -> SUBSET Nodes]
      /\ accepted \in [Folders -> [Nodes -> SUBSET HubKeys]]
  BY DEF IInv, TypeOK
<1>3. /\ proc[p].at = "pinning" /\ proc[p].at \in Holds /\ Unlocks(p)
      /\ UNCHANGED <<met, calls>>
  BY DEF PinRefused, Holds
<1>4. /\ Becomes(p, Idle) /\ Idle \in Call /\ Idle.at \notin Holds
      /\ Knows(Idle)' /\ ShowsKept(Idle)'
  BY IdleType DEF PinRefused, Ends, Holds, Knows, ShowsKept
<1>5. UNCHANGED <<files, accepted>>
  BY DEF PinRefused
<1>6. TrustIsOne'
  BY <1>5 DEF IInv, TrustIsOne, files
<1>7. QED
  BY <1>2, <1>3, <1>4, <1>5, <1>6, Leaving DEF files

\* A forgotten PSK is one entry less.
LEMMA ForgetsPskKeeps ==
  ASSUME IInv, NEW p \in Processes, ForgetsPsk(p)
  PROVE  IInv'
<1>1. proc[p] \in Call /\ Knows(proc[p]) /\ proc[p].folder \in Folders
  BY Types DEF IInv, PlacesKnow, Call
<1>2. /\ key \in [Folders -> ClientKeys \cup {None}]
      /\ pins \in [Folders -> Pins] /\ psks \in [Folders -> SUBSET Nodes]
      /\ accepted \in [Folders -> [Nodes -> SUBSET HubKeys]]
  BY DEF IInv, TypeOK
<1>3. /\ proc[p].at = "pskForgetting" /\ proc[p].at \in Holds /\ Unlocks(p)
      /\ UNCHANGED <<met, calls>>
  BY DEF ForgetsPsk, Holds
<1>4. /\ Becomes(p, Idle) /\ Idle \in Call /\ Idle.at \notin Holds
      /\ Knows(Idle)' /\ ShowsKept(Idle)'
  BY IdleType DEF ForgetsPsk, Ends, Holds, Knows, ShowsKept
<1>5. /\ UNCHANGED <<key, pins, accepted>> /\ psks' \in [Folders -> SUBSET Nodes]
      /\ \A f \in Folders : f # proc[p].folder => psks'[f] = psks[f]
  BY <1>1, <1>2 DEF ForgetsPsk, Call
<1>6. TrustIsOne'
  BY <1>5 DEF IInv, TrustIsOne
<1>7. QED
  BY <1>2, <1>3, <1>4, <1>5, <1>6, Leaving

\* A saved PSK leaves the key that was shown.
LEMMA SavesPskKeeps ==
  ASSUME IInv, NEW p \in Processes, SavesPsk(p)
  PROVE  IInv'
<1>1. proc[p] \in Call /\ Knows(proc[p]) /\ proc[p].folder \in Folders
  BY Types DEF IInv, PlacesKnow, Call
<1>2. /\ key \in [Folders -> ClientKeys \cup {None}]
      /\ pins \in [Folders -> Pins] /\ psks \in [Folders -> SUBSET Nodes]
      /\ accepted \in [Folders -> [Nodes -> SUBSET HubKeys]]
  BY DEF IInv, TypeOK
<1>3. /\ proc[p].at = "pskSaving" /\ proc[p].at \in Holds /\ Unlocks(p)
      /\ UNCHANGED <<met, calls>>
  BY DEF SavesPsk, Holds
<1>0. PICK c \in Call : c = [proc[p] EXCEPT !.at = "handshake", !.read = NoPins,
                                          !.stored = {}, !.copy = NoPins]
  BY NoPinsType, <1>1 DEF Call, Places
<1>4. Becomes(p, c) /\ UNCHANGED <<key, pins, accepted>>
  BY <1>0 DEF SavesPsk, GoesOn
<1>5. /\ psks' \in [Folders -> SUBSET Nodes]
      /\ \A f \in Folders : f # proc[p].folder => psks'[f] = psks[f]
  BY <1>1, <1>2, <1>3 DEF SavesPsk, Call, Knows
<1>6. /\ c.at = "handshake" /\ c.node \in Nodes /\ c.key # None
      /\ \E f \in Folders : key[f] = c.key
  BY <1>0, <1>1, <1>3 DEF IInv, KeyShownIsKept, ShowsKept, Call, Knows
<1>7. c.at \notin Holds /\ Knows(c)' /\ ShowsKept(c)'
  BY <1>4, <1>6 DEF Holds, Knows, ShowsKept
<1>8. TrustIsOne'
  BY <1>4 DEF IInv, TrustIsOne
<1>9. QED
  BY <1>2, <1>3, <1>4, <1>5, <1>6, <1>7, <1>8, Leaving

\* With the pin goes what was accepted under it.
LEMMA ForgetsPinKeeps ==
  ASSUME IInv, NEW p \in Processes, ForgetsPin(p)
  PROVE  IInv'
<1>1. proc[p] \in Call /\ Knows(proc[p]) /\ proc[p].folder \in Folders
  BY Types DEF IInv, PlacesKnow, Call
<1>2. /\ key \in [Folders -> ClientKeys \cup {None}]
      /\ pins \in [Folders -> Pins] /\ psks \in [Folders -> SUBSET Nodes]
      /\ accepted \in [Folders -> [Nodes -> SUBSET HubKeys]]
  BY DEF IInv, TypeOK
<1>3. /\ proc[p].at = "forgetting" /\ proc[p].at \in Holds /\ Unlocks(p)
      /\ UNCHANGED <<met, calls>>
  BY DEF ForgetsPin, Holds
<1>4. /\ Becomes(p, Idle) /\ Idle \in Call /\ Idle.at \notin Holds
      /\ Knows(Idle)' /\ ShowsKept(Idle)'
  BY IdleType DEF ForgetsPin, Ends, Holds, Knows, ShowsKept
<1> DEFINE f == proc[p].folder
           n == proc[p].node
           kept == [proc[p].read EXCEPT ![n] = None]
<1>5. PICK o \in Published :
        /\ pins' = IF o.written THEN [pins EXCEPT ![f] = kept] ELSE pins
        /\ accepted' = IF o.written THEN [accepted EXCEPT ![f][n] = {}] ELSE accepted
  BY DEF ForgetsPin
<1>6. UNCHANGED <<key, psks>> /\ n \in Nodes /\ f \in Folders /\ proc[p].read = pins[f]
  BY <1>1, <1>3 DEF ForgetsPin, Knows, IInv, ReadTrue
<1>7. kept \in Pins
  BY <1>2, <1>6 DEF Pins
<1>8. kept = [pins[f] EXCEPT ![n] = None]
  BY <1>6
<1> HIDE DEF f, n, kept
<1>9. /\ pins' \in [Folders -> Pins] /\ accepted' \in [Folders -> [Nodes -> SUBSET HubKeys]]
      /\ \A g \in Folders : g # f => pins'[g] = pins[g]
  BY <1>2, <1>5, <1>6, <1>7
<1>10. TrustIsOne'
  BY <1>2, <1>5, <1>6, <1>8 DEF IInv, TrustIsOne, Pins
<1>11. QED
  BY <1>2, <1>3, <1>4, <1>6, <1>9, <1>10, Leaving DEF f

\* Only the pinned key, or a first one that is recorded, is accepted.
LEMMA PinsPeerKeeps ==
  ASSUME IInv, NEW p \in Processes, PinsPeer(p)
  PROVE  IInv'
<1>1. proc[p] \in Call /\ Knows(proc[p]) /\ proc[p].folder \in Folders
  BY Types DEF IInv, PlacesKnow, Call
<1>2. /\ key \in [Folders -> ClientKeys \cup {None}]
      /\ pins \in [Folders -> Pins] /\ psks \in [Folders -> SUBSET Nodes]
      /\ accepted \in [Folders -> [Nodes -> SUBSET HubKeys]]
  BY DEF IInv, TypeOK
<1>3. /\ proc[p].at = "pinning" /\ proc[p].at \in Holds /\ Unlocks(p)
      /\ UNCHANGED <<met, calls>>
  BY DEF PinsPeer, Holds
<1>4. /\ Becomes(p, Idle) /\ Idle \in Call /\ Idle.at \notin Holds
      /\ Knows(Idle)' /\ ShowsKept(Idle)'
  BY IdleType DEF PinsPeer, Ends, Holds, Knows, ShowsKept
<1> DEFINE f == proc[p].folder
           n == proc[p].node
           k == proc[p].hubKey
           known == [proc[p].read EXCEPT ![n] = k]
<1>5. /\ UNCHANGED <<key, psks>> /\ n \in Nodes /\ f \in Folders /\ k \in HubKeys
      /\ proc[p].read = pins[f] /\ pins[f] \in Pins /\ pins[f][n] \in {None, k}
  BY <1>1, <1>2, <1>3 DEF PinsPeer, PinAgrees, Knows, IInv, ReadTrue
<1>6. accepted[f][n] \subseteq {k}
  BY NamesAssumption, <1>2, <1>5 DEF IInv, TrustIsOne
<1>7. known = [pins[f] EXCEPT ![n] = k] /\ known \in Pins
  BY <1>5 DEF Pins
<1>8. \/ pins[f][n] = k /\ Accepts(p) /\ UNCHANGED pins
      \/ /\ pins[f][n] = None /\ pins' = [pins EXCEPT ![f] = known]
         /\ Accepts(p) \/ UNCHANGED accepted
      \/ UNCHANGED <<pins, accepted>>
  BY <1>5 DEF PinsPeer, Published
<1>9. Accepts(p) => accepted' = [accepted EXCEPT ![f][n] = @ \cup {k}]
  BY DEF Accepts
<1> HIDE DEF f, n, k, known
<1>10. /\ pins' \in [Folders -> Pins]
       /\ accepted' \in [Folders -> [Nodes -> SUBSET HubKeys]]
       /\ \A g \in Folders : g # f => pins'[g] = pins[g]
  <2>1. Accepts(p) => accepted' \in [Folders -> [Nodes -> SUBSET HubKeys]]
    <3>1. accepted[f] \in [Nodes -> SUBSET HubKeys] /\ accepted[f][n] \cup {k} \subseteq HubKeys
      BY <1>2, <1>5
    <3>2. [accepted[f] EXCEPT ![n] = accepted[f][n] \cup {k}] \in [Nodes -> SUBSET HubKeys]
      BY <1>5, <3>1
    <3>3. Accepts(p) => accepted' = [accepted EXCEPT ![f] =
                           [accepted[f] EXCEPT ![n] = accepted[f][n] \cup {k}]]
      BY <1>2, <1>5, <1>9, <3>1
    <3>4. QED
      BY <1>2, <1>5, <3>2, <3>3
  <2>2. /\ pins' \in [Folders -> Pins]
        /\ \A g \in Folders : g # f => pins'[g] = pins[g]
    BY <1>2, <1>5, <1>7, <1>8
  <2>3. QED
    BY <1>2, <1>8, <2>1, <2>2
<1>11. TrustIsOne'
  <2>1. ASSUME NEW g \in Folders, NEW h \in Nodes
        PROVE  accepted'[g][h] \subseteq {pins'[g][h]}
    <3>1. accepted[g][h] \subseteq {pins[g][h]}
      BY DEF IInv, TrustIsOne
    <3>2. CASE g = f /\ h = n
      <4>1. Accepts(p) => accepted'[f][n] = accepted[f][n] \cup {k}
        BY <1>2, <1>5, <1>9
      <4>2. pins' = [pins EXCEPT ![f] = known] => pins'[f][n] = k
        BY <1>2, <1>5, <1>7 DEF Pins
      <4>3. pins[f][n] = None => accepted[f][n] = {}
        BY NamesAssumption, <1>2, <1>5, <1>6, <3>1, <3>2
      <4>4. QED
        BY <1>6, <1>8, <3>1, <3>2, <4>1, <4>2, <4>3
    <3>3. CASE ~(g = f /\ h = n)
      <4>1. Accepts(p) => accepted'[g][h] = accepted[g][h]
        BY <1>2, <1>5, <1>9, <3>3
      <4>2. pins' = [pins EXCEPT ![f] = known] => pins'[g][h] = pins[g][h]
        BY <1>2, <1>5, <1>7, <3>3 DEF Pins
      <4>3. QED
        BY <1>8, <3>1, <4>1, <4>2
    <3>4. QED
      BY <3>2, <3>3
  <2>2. QED
    BY <2>1 DEF TrustIsOne
<1>12. QED
  BY <1>2, <1>3, <1>4, <1>5, <1>10, <1>11, Leaving DEF f

\* The copied key appears where there was none.
LEMMA CopiesKeyKeeps ==
  ASSUME IInv, NEW p \in Processes, CopiesKey(p)
  PROVE  IInv'
<1>1. proc[p] \in Call /\ Knows(proc[p]) /\ proc[p].folder \in Folders
  BY Types DEF IInv, PlacesKnow, Call
<1>2. /\ key \in [Folders -> ClientKeys \cup {None}]
      /\ pins \in [Folders -> Pins] /\ psks \in [Folders -> SUBSET Nodes]
      /\ accepted \in [Folders -> [Nodes -> SUBSET HubKeys]]
  BY DEF IInv, TypeOK
<1>3. /\ proc[p].at = "copyKey" /\ proc[p].at \in Holds /\ Unlocks(p)
      /\ UNCHANGED <<met, calls>>
  BY DEF CopiesKey, Holds
<1>4. PICK o \in Published :
        /\ key' = IF o.written THEN [key EXCEPT !["beside"] = proc[p].key] ELSE key
        /\ IF KeyCopied(o) THEN GoesOn(p, "key") ELSE Ends(p)
  BY DEF CopiesKey
<1>5. /\ UNCHANGED <<pins, psks, accepted>> /\ proc[p].folder = "beside"
      /\ proc[p].key \in ClientKeys /\ proc[p].key # None /\ key["beside"] = None
      /\ proc[p].node \in Nodes /\ "beside" \in Folders
  BY <1>1, <1>3 DEF CopiesKey, Knows, Call, Folders
<1>6. TrustIsOne'
  BY <1>5 DEF IInv, TrustIsOne
<1>7. /\ key' \in [Folders -> ClientKeys \cup {None}]
      /\ \A f \in Folders : f # proc[p].folder => key'[f] = key[f]
      /\ \A f \in Folders : key[f] # None => key'[f] = key[f]
  BY <1>2, <1>4, <1>5
<1>8. CASE KeyCopied(o)
  <2>0. PICK c \in Call : c = [proc[p] EXCEPT !.at = "key", !.read = NoPins,
                                            !.stored = {}, !.copy = NoPins]
    BY NoPinsType, <1>1 DEF Call, Places, Waits
  <2>1. o.written /\ key'["beside"] # None
    BY NamesAssumption, <1>2, <1>4, <1>5, <1>8 DEF KeyCopied, Published
  <2>2. Becomes(p, c)
    BY <1>4, <1>8, <2>0 DEF GoesOn
  <2>3. c.at = "key" /\ c.folder = "beside" /\ c.node \in Nodes
    BY <1>1, <1>5, <2>0 DEF Call
  <2>4. c.at \notin Holds /\ Knows(c)' /\ ShowsKept(c)'
    BY <2>1, <2>3 DEF Holds, Knows, ShowsKept
  <2>5. QED
    BY <1>2, <1>3, <1>5, <1>6, <1>7, <2>2, <2>3, <2>4, Leaving
<1>9. CASE ~KeyCopied(o)
  <2>1. /\ Becomes(p, Idle) /\ Idle \in Call /\ Idle.at \notin Holds
        /\ Knows(Idle)' /\ ShowsKept(Idle)'
    BY IdleType, <1>4, <1>9 DEF Ends, Holds, Knows, ShowsKept
  <2>2. QED
    BY <1>2, <1>3, <1>5, <1>6, <1>7, <2>1, Leaving
<1>10. QED
  BY <1>8, <1>9

\* A made key is linked where there was none, or the call ends.
LEMMA CreatesKeyKeeps ==
  ASSUME IInv, NEW p \in Processes, CreatesKey(p)
  PROVE  IInv'
<1>1. proc[p] \in Call /\ Knows(proc[p]) /\ proc[p].folder \in Folders
  BY Types DEF IInv, PlacesKnow, Call
<1>2. /\ key \in [Folders -> ClientKeys \cup {None}]
      /\ pins \in [Folders -> Pins] /\ psks \in [Folders -> SUBSET Nodes]
      /\ accepted \in [Folders -> [Nodes -> SUBSET HubKeys]]
  BY DEF IInv, TypeOK
<1>3. /\ proc[p].at = "create" /\ proc[p].at \in Holds /\ Unlocks(p)
      /\ UNCHANGED <<met, calls>>
  BY DEF CreatesKey, Holds
<1> DEFINE f == proc[p].folder
           k == <<f, p>>
<1>4. PICK o \in Published :
        /\ key' = IF o.written /\ key[f] = None THEN [key EXCEPT ![f] = k] ELSE key
        /\ IF KeyMade(o) /\ key[f] = None THEN HasKey(p, k) ELSE Ends(p)
  BY DEF CreatesKey
<1>5. /\ UNCHANGED <<pins, psks, accepted>> /\ key[f] = None /\ f \in Folders
      /\ k \in ClientKeys /\ k # None /\ proc[p].node \in Nodes
  BY NamesAssumption, <1>1, <1>3 DEF CreatesKey, Knows, ClientKeys
<1>6. TrustIsOne'
  BY <1>5 DEF IInv, TrustIsOne
<1>7. /\ key' \in [Folders -> ClientKeys \cup {None}]
      /\ \A g \in Folders : g # f => key'[g] = key[g]
      /\ \A g \in Folders : key[g] # None => key'[g] = key[g]
  BY <1>2, <1>4, <1>5
<1>8. CASE KeyMade(o) /\ HasKey(p, k)
  <2> DEFINE place == IF proc[p].use = "wss" THEN "psk" ELSE "handshake"
  <2>9. place \in {"psk", "handshake"} /\ place \in Places /\ k \in ClientKeys
    BY <1>5 DEF Places, Waits
  <2> HIDE DEF place, k, f
  <2>0. PICK c \in Call : c = [proc[p] EXCEPT !.key = k, !.read = NoPins,
                                            !.stored = {}, !.at = place]
    BY NoPinsType, <1>1, <2>9 DEF Call
  <2>1. key'[f] = k
    BY <1>2, <1>4, <1>5, <1>8 DEF KeyMade, Published
  <2>2. Becomes(p, c)
    BY <1>8, <2>0 DEF HasKey, place
  <2>3. c.at \in {"psk", "handshake"} /\ c.key = k /\ c.node \in Nodes
    BY <1>1, <1>5, <2>0, <2>9 DEF Call
  <2>4. c.at \notin Holds /\ Knows(c)' /\ ShowsKept(c)'
    BY <1>5, <2>1, <2>3 DEF Holds, Knows, ShowsKept
  <2>5. QED
    BY <1>2, <1>3, <1>5, <1>6, <1>7, <2>2, <2>3, <2>4, Leaving DEF f
<1>9. CASE Ends(p)
  <2>1. /\ Becomes(p, Idle) /\ Idle \in Call /\ Idle.at \notin Holds
        /\ Knows(Idle)' /\ ShowsKept(Idle)'
    BY IdleType, <1>9 DEF Ends, Holds, Knows, ShowsKept
  <2>2. QED
    BY <1>2, <1>3, <1>5, <1>6, <1>7, <2>1, Leaving
<1>10. QED
  BY <1>4, <1>5, <1>8, <1>9

\* The pins are copied under the lock; the key follows under the same one.
LEMMA CopiesPinsKeeps ==
  ASSUME IInv, NEW p \in Processes, CopiesPins(p)
  PROVE  IInv'
<1>1. /\ proc[p] \in Call /\ Knows(proc[p]) /\ proc[p].at = "copyPins"
      /\ proc[p].at \in Holds /\ proc[p].folder = "beside" /\ "beside" \in Folders
      /\ proc[p].read = pins["beside"] /\ proc[p].stored = psks["beside"]
      /\ proc[p].key # None /\ proc[p].node \in Nodes /\ key["beside"] = None
  BY Types DEF CopiesPins, IInv, PlacesKnow, ReadTrue, Knows, Holds, Folders
<1>2. /\ key \in [Folders -> ClientKeys \cup {None}]
      /\ pins \in [Folders -> Pins] /\ psks \in [Folders -> SUBSET Nodes]
      /\ accepted \in [Folders -> [Nodes -> SUBSET HubKeys]]
      /\ lock \in [Folders -> Processes \cup {None}]
  BY DEF IInv, TypeOK
<1>3. PICK o \in Published :
        /\ pins' = IF o.written THEN [pins EXCEPT !["beside"] = Merged(p)] ELSE pins
        /\ IF PinsCopied(o)
             THEN /\ Becomes(p, [proc[p] EXCEPT !.at = "copyKey", !.read = Merged(p)])
                  /\ UNCHANGED lock
             ELSE Ends(p) /\ Unlocks(p)
  BY DEF CopiesPins
<1>4. UNCHANGED <<key, psks, met, calls, accepted>>
  BY DEF CopiesPins
<1>5. /\ Merged(p) \in Pins
      /\ \A n \in Nodes : proc[p].copy[n] # None => Merged(p)[n] # None
      /\ \A n \in Nodes : pins["beside"][n] # None => Merged(p)[n] = pins["beside"][n]
  BY <1>1, <1>2 DEF Merged, Pins, Call
<1>6. /\ pins' \in [Folders -> Pins]
      /\ \A f \in Folders : f # proc[p].folder => pins'[f] = pins[f]
      /\ o.written => pins'["beside"] = Merged(p)
  BY <1>1, <1>2, <1>3, <1>5
<1>7. TrustIsOne'
  <2>1. ASSUME NEW f \in Folders, NEW n \in Nodes
        PROVE  accepted[f][n] \subseteq {pins'[f][n]}
    <3>1. accepted[f][n] \subseteq {pins[f][n]} /\ accepted[f][n] \subseteq HubKeys
      BY <1>2 DEF IInv, TrustIsOne
    <3>2. pins[f][n] = None => accepted[f][n] = {}
      BY NamesAssumption, <3>1
    <3>3. pins[f][n] # None => pins'[f][n] = pins[f][n]
      BY <1>1, <1>2, <1>3, <1>5, <1>6
    <3>4. QED
      BY <3>1, <3>2, <3>3
  <2>2. QED
    BY <1>4, <2>1 DEF TrustIsOne
<1>8. CASE ~PinsCopied(o)
  <2>1. /\ Becomes(p, Idle) /\ Idle \in Call /\ Idle.at \notin Holds
        /\ Knows(Idle)' /\ ShowsKept(Idle)' /\ Unlocks(p)
    BY IdleType, <1>3, <1>8 DEF Ends, Holds, Knows, ShowsKept
  <2>2. QED
    BY <1>1, <1>2, <1>4, <1>6, <1>7, <2>1, Leaving
<1>9. CASE PinsCopied(o)
  <2>1. PICK c \in Call : c = [proc[p] EXCEPT !.at = "copyKey", !.read = Merged(p)]
    BY <1>1, <1>5 DEF Call, Places, Holds
  <2>2. /\ Becomes(p, c) /\ UNCHANGED lock /\ pins'["beside"] = Merged(p)
    BY <1>3, <1>6, <1>9, <2>1 DEF PinsCopied, Published
  <2>3. /\ c.at = "copyKey" /\ c.folder = "beside" /\ c.key # None /\ c.node \in Nodes
        /\ c.copy = proc[p].copy /\ c.read = Merged(p) /\ c.stored = psks["beside"]
    BY <1>1, <2>1 DEF Call
  <2>4. /\ proc' \in [Processes -> Call] /\ proc'[p] = c
        /\ \A q \in Processes : q # p => proc'[q] = proc[q]
    BY <2>2, Stepped DEF IInv
  <2>5. /\ lock["beside"] = p
        /\ \A q \in Processes : q # p /\ proc[q].at \in Holds =>
             proc[q].folder \in Folders \ {"beside"}
    BY <1>1, Types DEF IInv, LockOwned, Call
  <2>6. TypeOK'
    BY <1>4, <1>6, <2>2, <2>4 DEF IInv, TypeOK
  <2>7. LockOwned'
    BY <1>1, <2>2, <2>3, <2>4 DEF IInv, LockOwned, Holds
  <2>8. ReadTrue'
    BY <1>1, <1>4, <1>6, <2>2, <2>3, <2>4, <2>5 DEF IInv, ReadTrue
  <2>9. PlacesKnow'
    <3>1. ASSUME NEW q \in Processes, q # p PROVE Knows(proc[q])'
      <4>1. Knows(proc[q]) /\ proc'[q] = proc[q]
        BY <2>4, <3>1 DEF IInv, PlacesKnow
      <4>2. proc[q].at # "copyKey"
        BY <2>5, <3>1, <4>1 DEF Knows, Holds
      <4>3. QED
        BY <1>4, <4>1, <4>2 DEF Knows
    <3>2. Knows(c)'
      BY <1>1, <1>4, <1>5, <2>2, <2>3 DEF Knows
    <3>3. QED
      BY <2>4, <3>1, <3>2 DEF PlacesKnow
  <2>10. KeyShownIsKept'
    BY <1>4, <2>3, <2>4 DEF IInv, KeyShownIsKept, ShowsKept
  <2>11. NoKeyBesideFailedCopy'
    BY <2>3, <2>4 DEF IInv, NoKeyBesideFailedCopy
  <2>12. QED
    BY <1>7, <2>6, <2>7, <2>8, <2>9, <2>10, <2>11 DEF IInv
<1>10. QED
  BY <1>8, <1>9

\* A process that dies gives back the lock it may hold, and nothing else changes.
LEMMA CrashesKeeps ==
  ASSUME IInv, NEW p \in Processes, Crashes(p)
  PROVE  IInv'
<1>1. UNCHANGED <<key, pins, psks, met, calls, accepted>>
  BY DEF Crashes, files
<1>2. /\ lock' = [f \in Folders |-> IF lock[f] = p THEN None ELSE lock[f]]
      /\ lock \in [Folders -> Processes \cup {None}]
  BY DEF Crashes, IInv, TypeOK
<1>3. /\ proc' \in [Processes -> Call] /\ proc'[p] = Idle
      /\ \A q \in Processes : q # p => proc'[q] = proc[q]
  BY IdleType, Stepped DEF Crashes, Ends, IInv
<1>4. Idle.at = "idle"
  BY IdleType
<1>5. TypeOK'
  BY <1>1, <1>2, <1>3 DEF IInv, TypeOK
<1>6. LockOwned'
  BY NamesAssumption, <1>2, <1>3, <1>4 DEF IInv, LockOwned, Holds
<1>7. ReadTrue'
  BY <1>1, <1>3, <1>4 DEF IInv, ReadTrue, Holds
<1>8. PlacesKnow'
  BY <1>1, <1>3, <1>4 DEF IInv, PlacesKnow, Knows
<1>9. TrustIsOne'
  BY <1>1 DEF IInv, TrustIsOne
<1>10. KeyShownIsKept'
  BY <1>1, <1>3, <1>4 DEF IInv, KeyShownIsKept, ShowsKept
<1>11. NoKeyBesideFailedCopy'
  BY <1>3, <1>4 DEF IInv, NoKeyBesideFailedCopy
<1>12. QED
  BY <1>5, <1>6, <1>7, <1>8, <1>9, <1>10, <1>11 DEF IInv

\* Nobody is inside, and what was accepted is what the legacy folder pins.
LEMMA InitHolds == Init => IInv
<1> SUFFICES ASSUME Init PROVE IInv
  OBVIOUS
<1>1. /\ lock = [f \in Folders |-> None] /\ psks = [f \in Folders |-> {}]
      /\ proc = [p \in Processes |-> Idle] /\ calls = 0
  BY DEF Init
<1>2. key \in [Folders -> ClientKeys \cup {None}]
  BY DEF Init, ClientKeys
<1>3. PICK old \in Pins :
        /\ pins = [f \in Folders |-> IF f = "legacy" THEN old ELSE NoPins]
        /\ accepted = [f \in Folders |-> [n \in Nodes |->
                         IF pins[f][n] = None THEN {} ELSE {pins[f][n]}]]
        /\ met = [n \in Nodes |-> IF old[n] = None THEN None ELSE OldKey]
  BY NoPinsType DEF Init
<1>4. pins \in [Folders -> Pins] /\ \A f \in Folders : pins[f] \in Pins
  BY NoPinsType, <1>3
<1>5. accepted \in [Folders -> [Nodes -> SUBSET HubKeys]]
  BY <1>3, <1>4 DEF Pins
<1>6. TypeOK
  BY BoundAssumption, IdleType, <1>1, <1>2, <1>3, <1>4, <1>5 DEF TypeOK, ClientKeys
<1>7. LockOwned /\ ReadTrue /\ NoKeyBesideFailedCopy /\ KeyShownIsKept
  BY NamesAssumption, IdleType, <1>1
     DEF LockOwned, ReadTrue, NoKeyBesideFailedCopy, KeyShownIsKept, ShowsKept, Holds
<1>8. PlacesKnow
  BY IdleType, <1>1 DEF PlacesKnow, Knows
<1>9. TrustIsOne
  BY <1>3, <1>4 DEF TrustIsOne
<1>10. QED
  BY <1>6, <1>7, <1>8, <1>9 DEF IInv

LEMMA NextKeeps == IInv /\ [Next]_vars => IInv'
<1> SUFFICES ASSUME IInv, [Next]_vars PROVE IInv'
  OBVIOUS
<1>1. CASE UNCHANGED vars
  BY <1>1 DEF vars, IInv, TypeOK, LockOwned, ReadTrue, PlacesKnow, Knows, TrustIsOne,
              KeyShownIsKept, ShowsKept, NoKeyBesideFailedCopy
<1>2. ASSUME NEW p \in Processes, Copying(p) PROVE IInv'
  BY <1>2, ReadsLegacyPinsKeeps, LegacyUnreadKeeps, ReadsLegacyKeyKeeps,
     LocksForCopyKeeps, CopyNotDueKeeps, CopiesPinsKeeps, CopiesKeyKeeps DEF Copying
<1>3. ASSUME NEW p \in Processes, Keys(p) PROVE IInv'
  BY <1>3, LoadsKeyKeeps, LocksForKeyKeeps, CreatesKeyKeeps DEF Keys
<1>4. ASSUME NEW p \in Processes, Psks(p) PROVE IInv'
  BY <1>4, LoadsPskKeeps, LocksToSavePskKeeps, SavesPskKeeps, LocksToForgetPskKeeps,
     ForgetsPskKeeps DEF Psks
<1>5. ASSUME NEW p \in Processes, Pinning(p) PROVE IInv'
  BY <1>5, SavesKeeps, LocksForPinKeeps, PinRefusedKeeps, PinsPeerKeeps, ForgetsKeeps,
     LocksForForgetKeeps, ForgetsPinKeeps DEF Pinning
<1>6. QED
  BY <1>1, <1>2, <1>3, <1>4, <1>5, ConnectsKeeps, HubAnswersKeeps, HubRefusesKeeps,
     AnswerRefusedKeeps, LockTimesOutKeeps, CrashesKeeps DEF Next

\* The invariant holds always: a transaction is alone in its folder, what it read
\* stays true, and every call knows what it needs to (lockNoiseStore, and every
\* read-modify-write under it).
THEOREM StoreInvariant == Spec => []IInv
BY InitHolds, NextKeeps, PTL DEF Spec

\* However many processes meet a hub for the first time together, and whatever
\* fails, one key of it is trusted (pinNoisePeer, ForgetNoisePin).
THEOREM OneKeyIsTrusted == Spec => []TrustIsOne
BY StoreInvariant, PTL DEF IInv

\* No hub is shown a client key that no folder holds (LoadOrCreateNoiseKey).
THEOREM ShownKeysAreKept == Spec => []KeyShownIsKept
BY StoreInvariant, PTL DEF IInv

\* A connect with the old key in hand never makes another (adoptLegacyNoiseKey).
THEOREM FailedCopyMakesNoKey == Spec => []NoKeyBesideFailedCopy
BY StoreInvariant, PTL DEF IInv

\* A step that writes neither pins nor PSKs leaves them; the ones that do are
\* these five.
LEMMA WhoWrites ==
  ASSUME [Next]_vars
  PROVE  \/ UNCHANGED <<pins, psks>>
         \/ \E p \in Processes : \/ CopiesPins(p) \/ PinsPeer(p) \/ ForgetsPin(p)
                                 \/ SavesPsk(p) \/ ForgetsPsk(p)
<1>1. ASSUME NEW p \in Processes, Copying(p), ~CopiesPins(p)
      PROVE  UNCHANGED <<pins, psks>>
  BY <1>1 DEF Copying, ReadsLegacyPins, LegacyUnread, ReadsLegacyKey, LocksForCopy,
              CopyNotDue, CopiesKey, Locks, files
<1>2. ASSUME NEW p \in Processes, Keys(p) PROVE UNCHANGED <<pins, psks>>
  BY <1>2 DEF Keys, LoadsKey, LocksForKey, CreatesKey, Locks, files
<1>3. ASSUME NEW p \in Processes, Psks(p), ~SavesPsk(p), ~ForgetsPsk(p)
      PROVE  UNCHANGED <<pins, psks>>
  BY <1>3 DEF Psks, LoadsPsk, LocksToSavePsk, LocksToForgetPsk, Locks, files
<1>4. ASSUME NEW p \in Processes, Pinning(p), ~PinsPeer(p), ~ForgetsPin(p)
      PROVE  UNCHANGED <<pins, psks>>
  BY <1>4 DEF Pinning, Saves, LocksForPin, PinRefused, Forgets, LocksForForget, Locks,
              files
<1>5. ASSUME NEW p \in Processes,
             \/ Connects(p) \/ HubAnswers(p) \/ HubRefuses(p) \/ AnswerRefused(p)
             \/ LockTimesOut(p) \/ Crashes(p)
      PROVE  UNCHANGED <<pins, psks>>
  BY <1>5 DEF Connects, HubAnswers, HubRefuses, AnswerRefused, LockTimesOut, Crashes,
              files
<1>6. QED
  BY <1>1, <1>2, <1>3, <1>4, <1>5 DEF Next, vars

\* A step that writes a key writes no pins.
LEMMA KeysAlone == ASSUME [Next]_vars PROVE UNCHANGED key \/ UNCHANGED pins
<1>1. ASSUME NEW p \in Processes,
             \/ CopiesPins(p) \/ PinsPeer(p) \/ ForgetsPin(p)
             \/ SavesPsk(p) \/ ForgetsPsk(p)
      PROVE  UNCHANGED key
  BY <1>1 DEF CopiesPins, PinsPeer, ForgetsPin, SavesPsk, ForgetsPsk
<1>2. QED
  BY <1>1, WhoWrites

\* A copied key is beside the pins it came with (adoptLegacyNoiseKey).
THEOREM KeysComeWithPins == Spec => CopiedWithItsPins
<1>1. IInv /\ [Next]_vars =>
        [\A p \in Processes :
           proc[p].at = "copyKey" /\ key'["beside"] # key["beside"] =>
             \A n \in Nodes : proc[p].copy[n] # None => pins'["beside"][n] # None]_vars
  <2> SUFFICES ASSUME IInv, [Next]_vars, NEW p \in Processes,
                      proc[p].at = "copyKey", key'["beside"] # key["beside"],
                      NEW n \in Nodes, proc[p].copy[n] # None
               PROVE  pins'["beside"][n] # None
    OBVIOUS
  <2>1. UNCHANGED pins
    BY KeysAlone
  <2>2. QED
    BY <2>1 DEF IInv, PlacesKnow, Knows
<1>2. QED
  BY <1>1, StoreInvariant, PTL DEF Spec, CopiedWithItsPins

\* No transaction loses what another one wrote (SaveNoisePin, ForgetNoisePin,
\* SaveCachedPSK, ForgetCachedPSK, adoptLegacyNoiseKey).
THEOREM NothingIsLost == Spec => OthersKept
<1> DEFINE Kept(f, n) ==
      /\ pins[f][n] \notin {None, pins'[f][n]} =>
           \E p \in Processes : /\ lock[f] = p /\ proc[p].node = n
                                /\ proc[p].at = "forgetting"
      /\ (n \in psks[f]) # (n \in psks'[f]) =>
           \E p \in Processes : /\ lock[f] = p /\ proc[p].node = n
                                /\ proc[p].at \in {"pskSaving", "pskForgetting"}
<1>1. ASSUME IInv, [Next]_vars, NEW f \in Folders, NEW n \in Nodes PROVE Kept(f, n)
  <2>1. /\ pins \in [Folders -> Pins] /\ psks \in [Folders -> SUBSET Nodes]
        /\ pins[f] \in Pins /\ "beside" \in Folders
    BY <1>1 DEF IInv, TypeOK, Folders
  <2>2. CASE UNCHANGED <<pins, psks>>
    BY <2>2
  <2>3. ASSUME NEW p \in Processes, proc[p].at \in Holds
        PROVE  /\ lock[proc[p].folder] = p /\ proc[p].read = pins[proc[p].folder]
               /\ proc[p].stored = psks[proc[p].folder] /\ proc[p].folder \in Folders
               /\ proc[p].node \in Nodes /\ Knows(proc[p])
    BY <1>1, <2>3, Types DEF IInv, LockOwned, ReadTrue, PlacesKnow, Knows, Call, Holds
  <2>4. ASSUME NEW p \in Processes, CopiesPins(p) PROVE Kept(f, n)
    <3>1. /\ proc[p].read = pins["beside"] /\ UNCHANGED psks
          /\ pins' = pins \/ pins' = [pins EXCEPT !["beside"] = Merged(p)]
      BY <2>3, <2>4 DEF CopiesPins, Knows, Holds
    <3>2. pins["beside"][n] # None => Merged(p)[n] = pins["beside"][n]
      BY <3>1 DEF Merged
    <3>3. QED
      BY <2>1, <3>1, <3>2
  <2>5. ASSUME NEW p \in Processes, PinsPeer(p) PROVE Kept(f, n)
    <3> DEFINE g == proc[p].folder
               m == proc[p].node
               k == proc[p].hubKey
    <3>1. /\ g \in Folders /\ m \in Nodes /\ pins[g][m] \in {None, k} /\ UNCHANGED psks
          /\ \/ pins' = pins
             \/ pins' = [pins EXCEPT ![g] = [pins[g] EXCEPT ![m] = k]]
      BY <2>3, <2>5 DEF PinsPeer, PinAgrees, Holds
    <3> HIDE DEF g, m, k
    <3>2. QED
      BY <2>1, <3>1 DEF Pins
  <2>6. ASSUME NEW p \in Processes, ForgetsPin(p) PROVE Kept(f, n)
    <3> DEFINE g == proc[p].folder
               m == proc[p].node
    <3>1. /\ g \in Folders /\ m \in Nodes /\ lock[g] = p /\ UNCHANGED psks
          /\ proc[p].at = "forgetting"
          /\ \/ pins' = pins
             \/ pins' = [pins EXCEPT ![g] = [pins[g] EXCEPT ![m] = None]]
      BY <2>3, <2>6 DEF ForgetsPin, Holds
    <3>2. f # g \/ n # m => pins'[f][n] = pins[f][n]
      <4> HIDE DEF g, m
      <4> QED
        BY <2>1, <3>1 DEF Pins
    <3>3. QED
      BY <3>1, <3>2
  <2>7. ASSUME NEW p \in Processes, SavesPsk(p) \/ ForgetsPsk(p) PROVE Kept(f, n)
    <3> DEFINE g == proc[p].folder
               m == proc[p].node
    <3>1. /\ g \in Folders /\ m \in Nodes /\ lock[g] = p /\ UNCHANGED pins
          /\ proc[p].at \in {"pskSaving", "pskForgetting"}
          /\ \/ psks' = psks
             \/ psks' = [psks EXCEPT ![g] = psks[g] \cup {m}]
             \/ psks' = [psks EXCEPT ![g] = psks[g] \ {m}]
      BY <2>3, <2>7 DEF SavesPsk, ForgetsPsk, Holds
    <3>2. f # g \/ n # m => ((n \in psks'[f]) <=> (n \in psks[f]))
      <4> HIDE DEF g, m
      <4> QED
        BY <2>1, <3>1
    <3>3. QED
      BY <3>1, <3>2
  <2>8. QED
    BY <1>1, <2>2, <2>4, <2>5, <2>6, <2>7, WhoWrites
<1>2. IInv /\ [Next]_vars => [\A f \in Folders, n \in Nodes : Kept(f, n)]_vars
  BY <1>1
<1>3. QED
  BY <1>2, StoreInvariant, PTL DEF Spec, OthersKept

================================================================================
