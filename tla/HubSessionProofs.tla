--------------------------- MODULE HubSessionProofs ---------------------------
(***************************************************************************)
(* Proofs about HubSession, for any set of callers and clients.  IInv is   *)
(* inductive: one lemma per action, with one step per part of IInv.  The   *)
(* safety properties follow from it.                                       *)
(***************************************************************************)
EXTENDS HubSession, TLAPS

\* A caller that enters holds nothing yet.
LEMMA EnterKeeps ==
  ASSUME IInv, NEW p \in Procs, Enter(p)
  PROVE  IInv'
<1> USE RolesAssumption DEF IInv, TypeOK, GateOwned, GatePlaces, Procs, session,
        Enter, Start
<1>1. TypeOK'
  BY DEF FreePlaces, Operations, Errors, DialErrors
<1>2. GateOwned'
  BY DEF FreePlaces
<1>3. Account'
  BY DEF Account, OwnerKnows
<1>4. OwnerKnows'
  BY DEF Account, OwnerKnows
<1>5. Told'
  BY DEF Account, OwnerKnows, Told
<1>6. CloseKnows'
  BY DEF Account, OwnerKnows, CloseKnows
<1>7. QED
  BY <1>1, <1>2, <1>3, <1>4, <1>5, <1>6

\* Close sets closed first, which no place depends on being FALSE.
LEMMA EnterCloseKeeps ==
  ASSUME IInv, NEW p \in Procs, EnterClose(p)
  PROVE  IInv'
<1> USE RolesAssumption DEF IInv, TypeOK, GateOwned, GatePlaces, Procs, session,
        EnterClose, Start
<1>1. TypeOK'
  BY DEF FreePlaces, Operations, Errors, DialErrors
<1>2. GateOwned'
  BY DEF FreePlaces
<1>3. Account'
  BY DEF Account, OwnerKnows
<1>4. OwnerKnows'
  BY DEF Account, OwnerKnows
<1>5. Told'
  BY DEF Account, OwnerKnows, Told
<1>6. CloseKnows'
  BY DEF Account, OwnerKnows, CloseKnows
<1>7. QED
  BY <1>1, <1>2, <1>3, <1>4, <1>5, <1>6

\* Probe takes a gate nobody owns.
LEMMA EnterProbeKeeps ==
  ASSUME IInv, NEW p \in Procs, EnterProbe(p)
  PROVE  IInv'
<1> USE RolesAssumption DEF IInv, TypeOK, GateOwned, GatePlaces, Procs, session,
        EnterProbe, Start, ProbeMayEnter
<1>1. TypeOK'
  BY DEF FreePlaces, Operations, Errors, DialErrors
<1>2. GateOwned'
  BY DEF FreePlaces
<1>3. Account'
  BY DEF Account, OwnerKnows
<1>4. OwnerKnows'
  BY DEF Account, OwnerKnows
<1>5. Told'
  BY DEF Account, OwnerKnows, Told
<1>6. CloseKnows'
  BY DEF Account, OwnerKnows, CloseKnows
<1>7. QED
  BY <1>1, <1>2, <1>3, <1>4, <1>5, <1>6

\* Warm's goroutine is idle when warming is FALSE.
LEMMA WarmKeeps ==
  ASSUME IInv, NEW p \in Procs, Warm(p)
  PROVE  IInv'
<1> USE RolesAssumption DEF IInv, TypeOK, GateOwned, GatePlaces, Procs, session,
        Warm, Start, MayWarm
<1>1. TypeOK'
  BY DEF FreePlaces, Operations, Errors, DialErrors
<1>2. GateOwned'
  BY DEF FreePlaces
<1>3. Account'
  BY DEF Account, OwnerKnows
<1>4. OwnerKnows'
  BY DEF Account, OwnerKnows
<1>5. Told'
  BY DEF Account, OwnerKnows, Told
<1>6. CloseKnows'
  BY DEF Account, OwnerKnows, CloseKnows
<1>7. QED
  BY <1>1, <1>2, <1>3, <1>4, <1>5, <1>6

\* The gate is free, so no other goroutine is at an owner's place.
LEMMA AcquireKeeps ==
  ASSUME IInv, NEW p \in Procs, Acquire(p)
  PROVE  IInv'
<1> USE RolesAssumption DEF IInv, TypeOK, GateOwned, GatePlaces, Procs, session,
        Acquire, GoTo
<1>1. TypeOK'
  BY DEF FreePlaces, Operations, Errors, DialErrors
<1>2. GateOwned'
  BY DEF FreePlaces
<1>3. Account'
  BY DEF Account, OwnerKnows
<1>4. OwnerKnows'
  BY DEF Account, OwnerKnows
<1>5. Told'
  BY DEF Account, OwnerKnows, Told
<1>6. CloseKnows'
  BY DEF Account, OwnerKnows, CloseKnows
<1>7. QED
  BY <1>1, <1>2, <1>3, <1>4, <1>5, <1>6

\* A goroutine that never had the gate leaves nothing behind.
LEMMA WithdrawKeeps ==
  ASSUME IInv, NEW p \in Procs, Withdraw(p)
  PROVE  IInv'
<1> USE RolesAssumption DEF IInv, TypeOK, GateOwned, GatePlaces, Procs, session,
        Withdraw, Finish
<1>1. TypeOK'
  BY DEF FreePlaces, Operations, Errors, DialErrors
<1>2. GateOwned'
  BY DEF FreePlaces
<1>3. Account'
  BY DEF Account, OwnerKnows
<1>4. OwnerKnows'
  BY DEF Account, OwnerKnows
<1>5. Told'
  BY DEF Account, OwnerKnows, Told
<1>6. CloseKnows'
  BY DEF Account, OwnerKnows, CloseKnows
<1>7. QED
  BY <1>1, <1>2, <1>3, <1>4, <1>5, <1>6

\* The owner looks at the client it holds.
LEMMA LookKeeps ==
  ASSUME IInv, NEW p \in Procs, Look(p)
  PROVE  IInv'
<1> USE RolesAssumption DEF IInv, TypeOK, GateOwned, GatePlaces, Procs, session,
        Look, ConnectLooks, CallLooks, WarmLooks, ProbeLooks, WatchLooks,
        CloseLooks, GoTo, Alive
<1>1. TypeOK'
  BY DEF FreePlaces, Operations, Errors, DialErrors
<1>2. GateOwned'
  BY DEF FreePlaces
<1>3. Account'
  BY DEF Account, OwnerKnows
<1>4. OwnerKnows'
  BY DEF Account, OwnerKnows
<1>5. Told'
  BY DEF Account, OwnerKnows, Told
<1>6. CloseKnows'
  BY DEF Account, OwnerKnows, CloseKnows
<1>7. QED
  BY <1>1, <1>2, <1>3, <1>4, <1>5, <1>6

\* The held client becomes the retired one.
LEMMA DropKeeps ==
  ASSUME IInv, NEW p \in Procs, Drop(p)
  PROVE  IInv'
<1> USE RolesAssumption DEF IInv, TypeOK, GateOwned, GatePlaces, Procs, session,
        Drop, LetGo, GoTo
<1>1. TypeOK'
  BY DEF FreePlaces, Operations, Errors, DialErrors
<1>2. GateOwned'
  BY DEF FreePlaces
<1>3. Account'
  BY DEF Account, OwnerKnows
<1>4. OwnerKnows'
  BY DEF Account, OwnerKnows
<1>5. Told'
  BY DEF Account, OwnerKnows, Told
<1>6. CloseKnows'
  BY DEF Account, OwnerKnows, CloseKnows
<1>7. QED
  BY <1>1, <1>2, <1>3, <1>4, <1>5, <1>6

\* A closed session goes no further.
LEMMA EnsureKeeps ==
  ASSUME IInv, NEW p \in Procs, Ensure(p)
  PROVE  IInv'
<1> USE RolesAssumption DEF IInv, TypeOK, GateOwned, GatePlaces, Procs, session,
        Ensure, Refuses, GoTo, Fails
<1>1. TypeOK'
  BY DEF FreePlaces, Operations, Errors, DialErrors
<1>2. GateOwned'
  BY DEF FreePlaces
<1>3. Account'
  BY DEF Account, OwnerKnows
<1>4. OwnerKnows'
  BY DEF Account, OwnerKnows
<1>5. Told'
  BY DEF Account, OwnerKnows, Told
<1>6. CloseKnows'
  BY DEF Account, OwnerKnows, CloseKnows
<1>7. QED
  BY <1>1, <1>2, <1>3, <1>4, <1>5, <1>6

\* The retired client is closed and forgotten together.
LEMMA CleanupKeeps ==
  ASSUME IInv, NEW p \in Procs, Cleanup(p)
  PROVE  IInv'
<1> USE RolesAssumption DEF IInv, TypeOK, GateOwned, GatePlaces, Procs, session,
        Cleanup, AfterCleanup, AfterEnsure, CleanupPlaces, GoTo
<1>1. TypeOK'
  BY DEF FreePlaces, Operations, Errors, DialErrors
<1>2. GateOwned'
  BY DEF FreePlaces
<1>3. Account'
  BY DEF Account, OwnerKnows
<1>4. OwnerKnows'
  BY DEF Account, OwnerKnows
<1>5. Told'
  BY DEF Account, OwnerKnows, Told
<1>6. CloseKnows'
  BY DEF Account, OwnerKnows, CloseKnows
<1>7. QED
  BY <1>1, <1>2, <1>3, <1>4, <1>5, <1>6

\* A client that would not close stays retired.
LEMMA CleanupFailsKeeps ==
  ASSUME IInv, NEW p \in Procs, CleanupFails(p)
  PROVE  IInv'
<1> USE RolesAssumption DEF IInv, TypeOK, GateOwned, GatePlaces, Procs, session,
        CleanupFails, CleanupPlaces, GoTo, Fails
<1>1. TypeOK'
  BY DEF FreePlaces, Operations, Errors, DialErrors
<1>2. GateOwned'
  BY DEF FreePlaces
<1>3. Account'
  BY DEF Account, OwnerKnows
<1>4. OwnerKnows'
  BY DEF Account, OwnerKnows
<1>5. Told'
  BY DEF Account, OwnerKnows, Told
<1>6. CloseKnows'
  BY DEF Account, OwnerKnows, CloseKnows
<1>7. QED
  BY <1>1, <1>2, <1>3, <1>4, <1>5, <1>6

\* The new client is the dialler's alone.
LEMMA DialKeeps ==
  ASSUME IInv, NEW p \in Procs, Dial(p)
  PROVE  IInv'
<1> USE RolesAssumption DEF IInv, TypeOK, GateOwned, GatePlaces, Procs, session,
        Dial, Refusals, GoTo, Fails
<1>1. TypeOK'
  BY DEF FreePlaces, Operations, Errors, DialErrors
<1>2. GateOwned'
  BY DEF FreePlaces
<1>3. Account'
  BY DEF Account, OwnerKnows
<1>4. OwnerKnows'
  BY DEF Account, OwnerKnows, DialErrors
<1>5. Told'
  BY DEF Account, OwnerKnows, Told
<1>6. CloseKnows'
  BY DEF Account, OwnerKnows, CloseKnows
<1>7. QED
  BY <1>1, <1>2, <1>3, <1>4, <1>5, <1>6

\* A client that is kept is held.
LEMMA AdoptKeeps ==
  ASSUME IInv, NEW p \in Procs, Adopt(p)
  PROVE  IInv'
<1> USE RolesAssumption DEF IInv, TypeOK, GateOwned, GatePlaces, Procs, session,
        Adopt, Kept, AfterEnsure, GoTo
<1>1. TypeOK'
  BY DEF FreePlaces, Operations, Errors, DialErrors
<1>2. GateOwned'
  BY DEF FreePlaces
<1>3. Account'
  BY DEF Account, OwnerKnows
<1>4. OwnerKnows'
  <2>1. \A q \in Procs : q # p => pc[q] \notin GatePlaces /\ pc'[q] = pc[q]
    OBVIOUS
  <2>2. pc'[p] \in {"settling", "markUp"} /\ client' = local'[p]
    OBVIOUS
  <2>3. client' # None
    BY DEF Account, OwnerKnows
  <2>4. QED
    BY <2>1, <2>2, <2>3 DEF OwnerKnows
<1>5. Told'
  BY DEF Account, OwnerKnows, Told
<1>6. CloseKnows'
  BY DEF Account, OwnerKnows, CloseKnows
<1>7. QED
  BY <1>1, <1>2, <1>3, <1>4, <1>5, <1>6

\* A client that is not kept is retired, never lost.
LEMMA RejectKeeps ==
  ASSUME IInv, NEW p \in Procs, Reject(p)
  PROVE  IInv'
<1> USE RolesAssumption DEF IInv, TypeOK, GateOwned, GatePlaces, Procs, session,
        Reject, Kept, GoTo, Fails
<1>1. TypeOK'
  BY DEF FreePlaces, Operations, Errors, DialErrors
<1>2. GateOwned'
  BY DEF FreePlaces
<1>3. Account'
  BY DEF Account, OwnerKnows
<1>4. OwnerKnows'
  BY DEF Account, OwnerKnows
<1>5. Told'
  BY DEF Account, OwnerKnows, Told
<1>6. CloseKnows'
  BY DEF Account, OwnerKnows, CloseKnows
<1>7. QED
  BY <1>1, <1>2, <1>3, <1>4, <1>5, <1>6

\* The held client stays held until it is dropped.
LEMMA SettleKeeps ==
  ASSUME IInv, NEW p \in Procs, Settle(p)
  PROVE  IInv'
<1> USE RolesAssumption DEF IInv, TypeOK, GateOwned, GatePlaces, Procs, session,
        Settle, Refusals, GoTo, Fails, Alive
<1>1. TypeOK'
  BY DEF FreePlaces, Operations, Errors, DialErrors
<1>2. GateOwned'
  BY DEF FreePlaces
<1>3. Account'
  BY DEF Account, OwnerKnows
<1>4. OwnerKnows'
  BY DEF Account, OwnerKnows
<1>5. Told'
  BY DEF Account, OwnerKnows, Told
<1>6. CloseKnows'
  BY DEF Account, OwnerKnows, CloseKnows
<1>7. QED
  BY <1>1, <1>2, <1>3, <1>4, <1>5, <1>6

\* The watchers hear of the client held.
LEMMA MarkUpKeeps ==
  ASSUME IInv, NEW p \in Procs, MarkUp(p)
  PROVE  IInv'
<1> USE RolesAssumption DEF IInv, TypeOK, GateOwned, GatePlaces, Procs, session,
        MarkUp, GoTo
<1>1. TypeOK'
  BY DEF FreePlaces, Operations, Errors, DialErrors
<1>2. GateOwned'
  BY DEF FreePlaces
<1>3. Account'
  BY DEF Account, OwnerKnows
<1>4. OwnerKnows'
  BY DEF Account, OwnerKnows
<1>5. Told'
  BY DEF Account, OwnerKnows, Told
<1>6. CloseKnows'
  BY DEF Account, OwnerKnows, CloseKnows
<1>7. QED
  BY <1>1, <1>2, <1>3, <1>4, <1>5, <1>6

\* An operation leaves the client to drop or to release.
LEMMA OperateKeeps ==
  ASSUME IInv, NEW p \in Procs, Operate(p)
  PROVE  IInv'
<1> USE RolesAssumption DEF IInv, TypeOK, GateOwned, GatePlaces, Procs, session,
        Operate, GoTo, Fails, Alive
<1>1. TypeOK'
  BY DEF FreePlaces, Operations, Errors, DialErrors
<1>2. GateOwned'
  BY DEF FreePlaces
<1>3. Account'
  BY DEF Account, OwnerKnows
<1>4. OwnerKnows'
  BY DEF Account, OwnerKnows
<1>5. Told'
  BY DEF Account, OwnerKnows, Told
<1>6. CloseKnows'
  BY DEF Account, OwnerKnows, CloseKnows
<1>7. QED
  BY <1>1, <1>2, <1>3, <1>4, <1>5, <1>6

\* The gate goes back with the client told and accounted for.
LEMMA ReleaseCallKeeps ==
  ASSUME IInv, NEW p \in Procs, ReleaseCall(p)
  PROVE  IInv'
<1> USE RolesAssumption DEF IInv, TypeOK, GateOwned, GatePlaces, Procs, session,
        ReleaseCall, Finish
<1>1. TypeOK'
  BY DEF FreePlaces, Operations, Errors, DialErrors
<1>2. GateOwned'
  BY DEF FreePlaces
<1>3. Account'
  BY DEF Account, OwnerKnows
<1>4. OwnerKnows'
  BY DEF Account, OwnerKnows
<1>5. Told'
  BY DEF Account, OwnerKnows, Told
<1>6. CloseKnows'
  BY DEF Account, OwnerKnows, CloseKnows
<1>7. QED
  BY <1>1, <1>2, <1>3, <1>4, <1>5, <1>6

\* Run's attempt ends like a caller's.
LEMMA ReleaseRunKeeps ==
  ASSUME IInv, ReleaseRun
  PROVE  IInv'
<1> USE RolesAssumption DEF IInv, TypeOK, GateOwned, GatePlaces, Procs, session,
        ReleaseRun, GoTo, Fails
<1>1. TypeOK'
  BY DEF FreePlaces, Operations, Errors, DialErrors
<1>2. GateOwned'
  BY DEF FreePlaces
<1>3. Account'
  BY DEF Account, OwnerKnows
<1>4. OwnerKnows'
  BY DEF Account, OwnerKnows
<1>5. Told'
  BY DEF Account, OwnerKnows, Told
<1>6. CloseKnows'
  BY DEF Account, OwnerKnows, CloseKnows
<1>7. QED
  BY <1>1, <1>2, <1>3, <1>4, <1>5, <1>6

\* Warm's goroutine is not idle before it clears warming.
LEMMA ReleaseWarmKeeps ==
  ASSUME IInv, NEW p \in Procs, ReleaseWarm(p)
  PROVE  IInv'
<1> USE RolesAssumption DEF IInv, TypeOK, GateOwned, GatePlaces, Procs, session,
        ReleaseWarm, GateAfter, GoTo
<1>1. TypeOK'
  BY DEF FreePlaces, Operations, Errors, DialErrors
<1>2. GateOwned'
  BY DEF FreePlaces
<1>3. Account'
  BY DEF Account, OwnerKnows
<1>4. OwnerKnows'
  BY DEF Account, OwnerKnows
<1>5. Told'
  BY DEF Account, OwnerKnows, Told
<1>6. CloseKnows'
  BY DEF Account, OwnerKnows, CloseKnows
<1>7. QED
  BY <1>1, <1>2, <1>3, <1>4, <1>5, <1>6

\* A client that dials again is still the one held.
LEMMA ReopenKeeps ==
  ASSUME IInv, NEW p \in Procs, Reopen(p)
  PROVE  IInv'
<1> USE RolesAssumption DEF IInv, TypeOK, GateOwned, GatePlaces, Procs, session,
        Reopen, goroutine
<1>1. TypeOK'
  BY DEF FreePlaces, Operations, Errors, DialErrors
<1>2. GateOwned'
  BY DEF FreePlaces
<1>3. Account'
  BY DEF Account, OwnerKnows
<1>4. OwnerKnows'
  BY DEF Account, OwnerKnows
<1>5. Told'
  BY DEF Account, OwnerKnows, Told
<1>6. CloseKnows'
  BY DEF Account, OwnerKnows, CloseKnows
<1>7. QED
  BY <1>1, <1>2, <1>3, <1>4, <1>5, <1>6

\* Probe starts Warm's goroutine only when there is none.
LEMMA ProbeWarmsKeeps ==
  ASSUME IInv, NEW p \in Procs, ProbeWarms(p)
  PROVE  IInv'
<1> USE RolesAssumption DEF IInv, TypeOK, GateOwned, GatePlaces, Procs, session,
        ProbeWarms, MayWarm
<1>1. TypeOK'
  BY DEF FreePlaces, Operations, Errors, DialErrors
<1>2. GateOwned'
  BY DEF FreePlaces
<1>3. Account'
  BY DEF Account, OwnerKnows
<1>4. OwnerKnows'
  BY DEF Account, OwnerKnows
<1>5. Told'
  BY DEF Account, OwnerKnows, Told
<1>6. CloseKnows'
  BY DEF Account, OwnerKnows, CloseKnows
<1>7. QED
  BY <1>1, <1>2, <1>3, <1>4, <1>5, <1>6

\* A Probe that returns changes nothing.
LEMMA ProbeEndsKeeps ==
  ASSUME IInv, NEW p \in Procs, ProbeEnds(p)
  PROVE  IInv'
<1> USE RolesAssumption DEF IInv, TypeOK, GateOwned, GatePlaces, Procs, session,
        ProbeEnds, Finish
<1>1. TypeOK'
  BY DEF FreePlaces, Operations, Errors, DialErrors
<1>2. GateOwned'
  BY DEF FreePlaces
<1>3. Account'
  BY DEF Account, OwnerKnows
<1>4. OwnerKnows'
  BY DEF Account, OwnerKnows
<1>5. Told'
  BY DEF Account, OwnerKnows, Told
<1>6. CloseKnows'
  BY DEF Account, OwnerKnows, CloseKnows
<1>7. QED
  BY <1>1, <1>2, <1>3, <1>4, <1>5, <1>6

\* Warm's goroutine ends after it gave the gate back.
LEMMA WarmedKeeps ==
  ASSUME IInv, Warmed
  PROVE  IInv'
<1> USE RolesAssumption DEF IInv, TypeOK, GateOwned, GatePlaces, Procs, session,
        Warmed, Finish
<1>1. TypeOK'
  BY DEF FreePlaces, Operations, Errors, DialErrors
<1>2. GateOwned'
  BY DEF FreePlaces
<1>3. Account'
  BY DEF Account, OwnerKnows
<1>4. OwnerKnows'
  BY DEF Account, OwnerKnows
<1>5. Told'
  BY DEF Account, OwnerKnows, Told
<1>6. CloseKnows'
  BY DEF Account, OwnerKnows, CloseKnows
<1>7. QED
  BY <1>1, <1>2, <1>3, <1>4, <1>5, <1>6

\* Run starts without the gate.
LEMMA RunStartsKeeps ==
  ASSUME IInv, RunStarts
  PROVE  IInv'
<1> USE RolesAssumption DEF IInv, TypeOK, GateOwned, GatePlaces, Procs, session,
        RunStarts, Start
<1>1. TypeOK'
  BY DEF FreePlaces, Operations, Errors, DialErrors
<1>2. GateOwned'
  BY DEF FreePlaces
<1>3. Account'
  BY DEF Account, OwnerKnows
<1>4. OwnerKnows'
  BY DEF Account, OwnerKnows
<1>5. Told'
  BY DEF Account, OwnerKnows, Told
<1>6. CloseKnows'
  BY DEF Account, OwnerKnows, CloseKnows
<1>7. QED
  BY <1>1, <1>2, <1>3, <1>4, <1>5, <1>6

\* Run's own steps never touch the client.
LEMMA RunLoopKeeps ==
  ASSUME IInv, RunLoop
  PROVE  IInv'
<1> USE RolesAssumption DEF IInv, TypeOK, GateOwned, GatePlaces, Procs, session,
        RunLoop, Start, Finish, Alive
<1>1. TypeOK'
  <2>1. pc' \in [Procs -> GatePlaces \cup FreePlaces]
    BY DEF FreePlaces
  <2>2. op' \in [Procs -> Operations]
    BY DEF Operations
  <2>3. err' \in [Procs -> Errors]
    BY DEF Errors, DialErrors
  <2>4. ended' \in [Procs -> BOOLEAN]
    OBVIOUS
  <2>5. local' \in [Procs -> Clients \cup {None}]
    OBVIOUS
  <2>6. QED
    BY <2>1, <2>2, <2>3, <2>4, <2>5
<1>2. GateOwned'
  BY DEF FreePlaces
<1>3. Account'
  BY DEF Account, OwnerKnows
<1>4. OwnerKnows'
  BY DEF Account, OwnerKnows
<1>5. Told'
  BY DEF Account, OwnerKnows, Told
<1>6. CloseKnows'
  BY DEF Account, OwnerKnows, CloseKnows
<1>7. QED
  BY <1>1, <1>2, <1>3, <1>4, <1>5, <1>6

\* Run remembers the client it saw drop.
LEMMA WatchKeeps ==
  ASSUME IInv, Watch
  PROVE  IInv'
<1> USE RolesAssumption DEF IInv, TypeOK, GateOwned, GatePlaces, Procs, session,
        Watch, WatchOver, DropNoticed, Finish, GoTo, Alive
<1>1. TypeOK'
  <2>1. pc' \in [Procs -> GatePlaces \cup FreePlaces]
    BY DEF FreePlaces
  <2>2. op' \in [Procs -> Operations]
    BY DEF Operations
  <2>3. err' \in [Procs -> Errors]
    BY DEF Errors, DialErrors
  <2>4. ended' \in [Procs -> BOOLEAN]
    OBVIOUS
  <2>5. local' \in [Procs -> Clients \cup {None}]
    OBVIOUS
  <2>6. QED
    BY <2>1, <2>2, <2>3, <2>4, <2>5
<1>2. GateOwned'
  BY DEF FreePlaces
<1>3. Account'
  BY DEF Account, OwnerKnows
<1>4. OwnerKnows'
  BY DEF Account, OwnerKnows
<1>5. Told'
  BY DEF Account, OwnerKnows, Told
<1>6. CloseKnows'
  BY DEF Account, OwnerKnows, CloseKnows
<1>7. QED
  BY <1>1, <1>2, <1>3, <1>4, <1>5, <1>6

\* Run decides without the gate.
LEMMA DecideKeeps ==
  ASSUME IInv, Decide
  PROVE  IInv'
<1> USE RolesAssumption DEF IInv, TypeOK, GateOwned, GatePlaces, Procs, session,
        Decide, Finish, GoTo, Fails
<1>1. TypeOK'
  <2>1. pc' \in [Procs -> GatePlaces \cup FreePlaces]
    BY DEF FreePlaces
  <2>2. op' \in [Procs -> Operations]
    BY DEF Operations
  <2>3. err' \in [Procs -> Errors]
    BY DEF Errors, DialErrors
  <2>4. ended' \in [Procs -> BOOLEAN]
    OBVIOUS
  <2>5. local' \in [Procs -> Clients \cup {None}]
    OBVIOUS
  <2>6. QED
    BY <2>1, <2>2, <2>3, <2>4, <2>5
<1>2. GateOwned'
  BY DEF FreePlaces
<1>3. Account'
  BY DEF Account, OwnerKnows
<1>4. OwnerKnows'
  BY DEF Account, OwnerKnows
<1>5. Told'
  BY DEF Account, OwnerKnows, Told
<1>6. CloseKnows'
  BY DEF Account, OwnerKnows, CloseKnows
<1>7. QED
  BY <1>1, <1>2, <1>3, <1>4, <1>5, <1>6

\* Run waits without the gate.
LEMMA PauseKeeps ==
  ASSUME IInv, Pause
  PROVE  IInv'
<1> USE RolesAssumption DEF IInv, TypeOK, GateOwned, GatePlaces, Procs, session,
        Pause, Finish, GoTo
<1>1. TypeOK'
  <2>1. pc' \in [Procs -> GatePlaces \cup FreePlaces]
    BY DEF FreePlaces
  <2>2. op' \in [Procs -> Operations]
    BY DEF Operations
  <2>3. err' \in [Procs -> Errors]
    BY DEF Errors, DialErrors
  <2>4. ended' \in [Procs -> BOOLEAN]
    OBVIOUS
  <2>5. local' \in [Procs -> Clients \cup {None}]
    OBVIOUS
  <2>6. QED
    BY <2>1, <2>2, <2>3, <2>4, <2>5
<1>2. GateOwned'
  BY DEF FreePlaces
<1>3. Account'
  BY DEF Account, OwnerKnows
<1>4. OwnerKnows'
  BY DEF Account, OwnerKnows
<1>5. Told'
  BY DEF Account, OwnerKnows, Told
<1>6. CloseKnows'
  BY DEF Account, OwnerKnows, CloseKnows
<1>7. QED
  BY <1>1, <1>2, <1>3, <1>4, <1>5, <1>6

\* A link that drops is still not closed.
LEMMA LinkDropsKeeps ==
  ASSUME IInv, NEW c \in Clients, LinkDrops(c)
  PROVE  IInv'
<1> USE RolesAssumption DEF IInv, TypeOK, GateOwned, GatePlaces, Procs, session,
        LinkDrops, goroutine
<1>1. TypeOK'
  BY DEF FreePlaces, Operations, Errors, DialErrors
<1>2. GateOwned'
  BY DEF FreePlaces
<1>3. Account'
  BY DEF Account, OwnerKnows
<1>4. OwnerKnows'
  BY DEF Account, OwnerKnows
<1>5. Told'
  BY DEF Account, OwnerKnows, Told
<1>6. CloseKnows'
  BY DEF Account, OwnerKnows, CloseKnows
<1>7. QED
  BY <1>1, <1>2, <1>3, <1>4, <1>5, <1>6

\* A context that ends changes no place.
LEMMA ContextEndsKeeps ==
  ASSUME IInv, NEW p \in Procs, ContextEnds(p)
  PROVE  IInv'
<1> USE RolesAssumption DEF IInv, TypeOK, GateOwned, GatePlaces, Procs, session,
        ContextEnds
<1>1. TypeOK'
  BY DEF FreePlaces, Operations, Errors, DialErrors
<1>2. GateOwned'
  BY DEF FreePlaces
<1>3. Account'
  BY DEF Account, OwnerKnows
<1>4. OwnerKnows'
  BY DEF Account, OwnerKnows
<1>5. Told'
  BY DEF Account, OwnerKnows, Told
<1>6. CloseKnows'
  BY DEF Account, OwnerKnows, CloseKnows
<1>7. QED
  BY <1>1, <1>2, <1>3, <1>4, <1>5, <1>6

\* The clock changes nothing the invariant speaks of.
LEMMA CoolDownKeeps ==
  ASSUME IInv, CoolDown
  PROVE  IInv'
<1> USE RolesAssumption DEF IInv, TypeOK, GateOwned, GatePlaces, Procs, session,
        CoolDown, goroutine
<1>1. TypeOK'
  BY DEF FreePlaces, Operations, Errors, DialErrors
<1>2. GateOwned'
  BY DEF FreePlaces
<1>3. Account'
  BY DEF Account, OwnerKnows
<1>4. OwnerKnows'
  BY DEF Account, OwnerKnows
<1>5. Told'
  BY DEF Account, OwnerKnows, Told
<1>6. CloseKnows'
  BY DEF Account, OwnerKnows, CloseKnows
<1>7. QED
  BY <1>1, <1>2, <1>3, <1>4, <1>5, <1>6

--------------------------------------------------------------------------------

\* Nothing is held, owned or running at the start.
LEMMA InitHolds == Init => IInv
<1> SUFFICES ASSUME Init PROVE IInv
  OBVIOUS
<1> USE RolesAssumption DEF Init, Procs
<1>1. TypeOK
  BY DEF TypeOK, FreePlaces, Operations, Errors
<1>2. GateOwned
  BY DEF GateOwned, GatePlaces
<1>3. Account /\ OwnerKnows
  BY DEF Account, OwnerKnows
<1>4. Told /\ CloseKnows
  BY DEF Told, CloseKnows
<1>5. QED
  BY <1>1, <1>2, <1>3, <1>4 DEF IInv

\* Every step, a stutter included, keeps the invariant.
LEMMA NextKeeps == IInv /\ [Next]_vars => IInv'
<1> SUFFICES ASSUME IInv, [Next]_vars
             PROVE  IInv'
  OBVIOUS
<1>1. CASE Calls
  <2>1. PICK p \in Callers : Enter(p) \/ EnterClose(p) \/ EnterProbe(p) \/ Warm(p)
    BY <1>1 DEF Calls
  <2>2. p \in Procs
    BY DEF Procs
  <2>3. QED
    BY <2>1, <2>2, EnterKeeps, EnterCloseKeeps, EnterProbeKeeps, WarmKeeps
<1>2. CASE RunStarts
  BY <1>2, RunStartsKeeps
<1>3. CASE RunStep
  BY <1>3, ReleaseRunKeeps, RunLoopKeeps, WatchKeeps, DecideKeeps, PauseKeeps
  DEF RunStep
<1>4. CASE Warmed
  BY <1>4, WarmedKeeps
<1>5. ASSUME NEW p \in Procs, Acquire(p) \/ Step(p) \/ Reopen(p)
      PROVE  IInv'
  <2>1. CASE Acquire(p) \/ Reopen(p)
    BY <2>1, AcquireKeeps, ReopenKeeps
  <2>2. CASE Withdraw(p) \/ Look(p) \/ Drop(p) \/ Ensure(p)
    BY <2>2, WithdrawKeeps, LookKeeps, DropKeeps, EnsureKeeps
  <2>3. CASE Cleanup(p) \/ CleanupFails(p) \/ Dial(p) \/ Adopt(p) \/ Reject(p)
    BY <2>3, CleanupKeeps, CleanupFailsKeeps, DialKeeps, AdoptKeeps, RejectKeeps
  <2>4. CASE Settle(p) \/ MarkUp(p) \/ Operate(p)
    BY <2>4, SettleKeeps, MarkUpKeeps, OperateKeeps
  <2>5. CASE ReleaseCall(p) \/ ReleaseWarm(p) \/ ProbeWarms(p) \/ ProbeEnds(p)
    BY <2>5, ReleaseCallKeeps, ReleaseWarmKeeps, ProbeWarmsKeeps, ProbeEndsKeeps
  <2>6. QED
    BY <1>5, <2>1, <2>2, <2>3, <2>4, <2>5 DEF Step
<1>6. CASE Environment
  BY <1>6, LinkDropsKeeps, ContextEndsKeeps, CoolDownKeeps DEF Environment
<1>7. CASE UNCHANGED vars
  BY <1>7 DEF vars, IInv, TypeOK, GateOwned, Account, OwnerKnows, Told, CloseKnows
<1>8. QED
  BY <1>1, <1>2, <1>3, <1>4, <1>5, <1>6, <1>7 DEF Next

\* Types, gate ownership and the account of every client object hold throughout
\* every behaviour of the session.
THEOREM Invariance == Spec => []IInv
  BY InitHolds, NextKeeps, PTL DEF Spec

--------------------------------------------------------------------------------

\* However many goroutines use a session, and whatever fails, it never owns two
\* links, and never dials while one it could not close is left (cleanup, ensure).
THEOREM OneLinkAlways == Spec => []OneLink
<1>1. IInv => OneLink
  BY RolesAssumption
  DEF IInv, TypeOK, GateOwned, Account, OwnerKnows, OneLink, Unclosed, GatePlaces
<1>2. QED
  BY <1>1, Invariance, PTL

\* A client object that is not closed is always the session's to close.
THEOREM NoLinkLostEver == Spec => []NoLinkLost
<1>1. IInv => NoLinkLost
  BY DEF IInv, Account, NoLinkLost, Unclosed
<1>2. QED
  BY <1>1, Invariance, PTL

\* The watchers are told the truth whenever nobody owns the gate.
THEOREM WatchersToldTruth == Spec => []UpMeansHeld
<1>1. IInv => UpMeansHeld
  BY RolesAssumption
  DEF IInv, TypeOK, GateOwned, Told, UpMeansHeld, GatePlaces
<1>2. QED
  BY <1>1, Invariance, PTL

\* An admitted call runs on the one client the session holds, to its end.
THEOREM CallsKeepTheirClient == Spec => []CallKeepsItsClient
<1>1. IInv => CallKeepsItsClient
  BY DEF IInv, OwnerKnows, CallKeepsItsClient
<1>2. QED
  BY <1>1, Invariance, PTL

\* After a Close that returned nil the session never owns or opens a link again.
THEOREM ShutForGood == Spec => []ShutStaysShut
<1>1. IInv => ShutStaysShut
  BY RolesAssumption
  DEF IInv, TypeOK, Account, CloseKnows, ShutStaysShut, Unclosed
<1>2. QED
  BY <1>1, Invariance, PTL

================================================================================
