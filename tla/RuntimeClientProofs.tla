---------------------------- MODULE RuntimeClientProofs ----------------------------
(***************************************************************************)
(* The runtime client, for any number of calls, requests, events, home     *)
(* requests and connects, and whatever a hub lists.                        *)
(***************************************************************************)
EXTENDS RuntimeClient, FiniteSetTheorems, WellFoundedInduction, TLAPS


--------------------------------------------------------------------------------
(***************************************************************************)
(* The connection gate.                                                    *)
(***************************************************************************)
CallType == [op : Ops, at : {"idle", "locking", "waiting"}, work : WorkPlaces,
             over : BOOLEAN, err : Errors, told : Errors]

\* A caller that leaves, is told its result or starts anew does not touch the
\* gate or the workers (runOwned, Connect: the caller's side).
LEMMA CallerKeeps ==
  ASSUME GateIInv, NEW k \in Calls, NEW fields \in CallType,
         call' = [call EXCEPT ![k] = fields], UNCHANGED gate, link' = link,
         fields.work = call[k].work,
         fields.at = "locking" => fields.work = "none"
  PROVE  GateIInv'
BY DEF GateIInv, GateTypeOK, CallType

\* A worker that goes on keeps the gate, and its caller is not queueing
\* (runOwned, Connect: the worker's side).
LEMMA WorkerKeeps ==
  ASSUME GateIInv, NEW k \in Calls, NEW place \in WorkPlaces \ {"none"}, NEW err \in Errors,
         WorkGoesOn(k, place, err), UNCHANGED gate, link' \in {"up", "down", "refused"},
         call[k].work # "none"
  PROVE  GateIInv'
<1>1. call[k] \in CallType
  BY DEF GateIInv, GateTypeOK, CallType
<1>2. call' = [call EXCEPT ![k] = [@ EXCEPT !.work = place, !.err = err]]
  BY DEF WorkGoesOn
<1>3. [call[k] EXCEPT !.work = place, !.err = err] \in CallType
  BY <1>1 DEF CallType
<1> QED
  BY <1>1, <1>2, <1>3 DEF GateIInv, GateTypeOK, CallType

LEMMA CallTyped == ASSUME GateIInv, NEW k \in Calls PROVE call[k] \in CallType
BY DEF GateIInv, GateTypeOK, CallType

\* The steps of a call's caller: it begins, queues, gives up, is told, leaves.
LEMMA CallerInvariant ==
  ASSUME GateIInv, NEW k \in Calls, CallBegins(k) \/ ContextEnds(k) \/ CallerStep(k)
  PROVE  GateIInv'
<1>0. call[k] \in CallType
  BY CallTyped
<1>1. CASE CallBegins(k)
  <2>1. PICK op \in Ops :
          call' = [call EXCEPT ![k] = [@ EXCEPT !.op = op, !.at = "locking", !.over = FALSE,
                                                !.err = "none", !.told = "none"]]
    BY <1>1 DEF CallBegins
  <2>2. [call[k] EXCEPT !.op = op, !.at = "locking", !.over = FALSE, !.err = "none",
                        !.told = "none"] \in CallType
    BY <1>0 DEF CallType, Errors
  <2> QED
    BY <1>0, <1>1, <2>1, <2>2, CallerKeeps DEF CallBegins, CallType
<1>2. CASE ContextEnds(k)
  <2>1. [call[k] EXCEPT !.over = TRUE] \in CallType
    BY <1>0 DEF CallType
  <2>2. call' = [call EXCEPT ![k] = [call[k] EXCEPT !.over = TRUE]]
    BY <1>0, <1>2 DEF ContextEnds, CallType, GateIInv, GateTypeOK
  <2> QED
    BY <1>0, <1>2, <2>1, <2>2, CallerKeeps DEF ContextEnds, GateIInv, CallType
<1>3. ASSUME NEW err \in Errors, call' = Returned(k, err), UNCHANGED <<gate, link>>
      PROVE  GateIInv'
  <2>1. [call[k] EXCEPT !.at = "idle", !.told = err] \in CallType
    BY <1>0 DEF CallType
  <2> QED
    BY <1>0, <1>3, <2>1, CallerKeeps DEF Returned, CallType
<1>4. CASE LockGivesUp(k)
  BY <1>3, <1>4 DEF LockGivesUp, Errors
<1>5. CASE TakeResult(k)
  BY <1>0, <1>3, <1>5 DEF TakeResult, Errors, CallType
<1>6. CASE CallerLeaves(k)
  BY <1>3, <1>6 DEF CallerLeaves, Errors
<1> QED
  BY <1>1, <1>2, <1>4, <1>5, <1>6 DEF CallerStep

\* The gate changes hands: taken by a call for its worker, and given back when
\* that worker is done.
LEMMA HandOver ==
  ASSUME GateIInv, NEW k \in Calls, LockGate(k) \/ UnlockGate(k)
  PROVE  GateIInv'
<1>0. call[k] \in CallType
  BY CallTyped
<1>1. CASE LockGate(k)
  <2> DEFINE place == IF call[k].op = "connect" THEN "look" ELSE "operate"
  <2>1. [call[k] EXCEPT !.at = "waiting", !.work = place] \in CallType
    BY <1>0 DEF CallType, WorkPlaces
  <2>2. call' = [call EXCEPT ![k] = [@ EXCEPT !.at = "waiting", !.work = place]]
    BY <1>1 DEF LockGate
  <2>3. \A j \in Calls : call[j].work = "none"
    BY <1>1, NoCallAssumption DEF LockGate, GateIInv
  <2>4. GateTypeOK'
    BY <1>0, <1>1, <2>1, <2>2 DEF LockGate, GateIInv, GateTypeOK, CallType
  <2>5. call'[k].work # "none" /\ call'[k].at = "waiting"
    BY <1>0, <2>2 DEF CallType, GateIInv, GateTypeOK
  <2>6. \A j \in Calls \ {k} : call'[j] = call[j]
    BY <2>2 DEF GateIInv, GateTypeOK
  <2> QED
    BY <1>1, <2>3, <2>4, <2>5, <2>6 DEF LockGate, GateIInv
<1>2. CASE UnlockGate(k)
  <2>1. call' = [call EXCEPT ![k] = [call[k] EXCEPT !.work = "none"]]
    BY <1>0, <1>2 DEF UnlockGate, GateIInv, GateTypeOK
  <2>2. [call[k] EXCEPT !.work = "none"] \in CallType
    BY <1>0 DEF CallType, WorkPlaces
  <2>3. gate = k
    BY <1>2 DEF UnlockGate, GateIInv
  <2>4. GateTypeOK'
    BY <1>0, <1>2, <2>1, <2>2 DEF UnlockGate, GateIInv, GateTypeOK, CallType
  <2>5. \A j \in Calls \ {k} : call'[j] = call[j] /\ call[j].work = "none"
    BY <2>1, <2>3 DEF GateIInv, GateTypeOK
  <2>6. call'[k].work = "none"
    BY <1>0, <2>1 DEF CallType, GateIInv, GateTypeOK
  <2> QED
    BY <1>2, <2>4, <2>5, <2>6, NoCallAssumption DEF UnlockGate, GateIInv
<1> QED
  BY <1>1, <1>2

\* The worker looks, is inside the transport, checks what that left, cleans up.
LEMMA WorkerInvariant ==
  ASSUME GateIInv, NEW k \in Calls, ConnectLooks(k) \/ ConnectChecks(k) \/ TransportStep(k)
  PROVE  GateIInv'
<1>0. call[k] \in CallType /\ link \in {"up", "down", "refused"}
  BY CallTyped DEF GateIInv, GateTypeOK
<1>1. ASSUME NEW err \in Errors, Settled(k, err), call[k].work # "none", UNCHANGED <<gate, link>>
      PROVE  GateIInv'
  BY <1>0, <1>1, WorkerKeeps DEF Settled, WorkPlaces
<1>2. ASSUME NEW err \in Errors, Operated(k, err), call[k].work # "none", UNCHANGED gate,
             link' \in {"up", "down", "refused"}
      PROVE  GateIInv'
  <2>1. (IF err # "none" /\ call[k].over THEN "timeout" ELSE err) \in Errors
    BY <1>2 DEF Errors
  <2> QED
    BY <1>2, <2>1, WorkerKeeps DEF Operated, WorkPlaces
<1>3. CASE ConnectLooks(k)
  <2>1. CASE Settled(k, "timeout")
    BY <1>1, <1>3, <2>1 DEF ConnectLooks, Errors
  <2>2. CASE Settled(k, "none")
    BY <1>1, <1>3, <2>2 DEF ConnectLooks, Errors
  <2>3. CASE WorkGoesOn(k, "connect", "none")
    BY <1>0, <1>3, <2>3, WorkerKeeps DEF ConnectLooks, Errors, WorkPlaces
  <2> QED
    BY <1>3, <2>1, <2>2, <2>3 DEF ConnectLooks
<1>4. CASE ConnectChecks(k)
  BY <1>0, <1>1, <1>4 DEF ConnectChecks, ClosedBeforeReady, Errors, CallType
<1>5. CASE TransportConnects(k)
  BY <1>5, WorkerKeeps DEF TransportConnects, Errors, WorkPlaces
<1>6. CASE TransportSends(k)
  BY <1>0, <1>2, <1>6 DEF TransportSends, Errors
<1>7. CASE TransportTells(k)
  BY <1>0, <1>2, <1>7 DEF TransportTells, Errors
<1>8. CASE TransportCloses(k)
  BY <1>0, <1>2, <1>8 DEF TransportCloses, Errors
<1>9. CASE Cleanup(k)
  BY <1>0, <1>9, WorkerKeeps DEF Cleanup, WorkPlaces, CallType
<1> QED
  BY <1>3, <1>4, <1>5, <1>6, <1>7, <1>8, <1>9 DEF TransportStep

LEMMA GateBeginsKnowing == GateInit => GateIInv
BY NoCallAssumption DEF GateInit, GateIInv, GateTypeOK, Ops, WorkPlaces, Errors

LEMMA GateStepKeeps == GateIInv /\ [GateNext]_gateVars => GateIInv'
<1> SUFFICES ASSUME GateIInv, [GateNext]_gateVars PROVE GateIInv'
  OBVIOUS
<1>1. CASE UNCHANGED gateVars
  BY <1>1 DEF gateVars, GateIInv, GateTypeOK
<1>2. CASE LinkDrops
  BY <1>2 DEF LinkDrops, GateIInv, GateTypeOK
<1>3. ASSUME NEW k \in Calls,
             CallBegins(k) \/ ContextEnds(k) \/ LockGate(k) \/ CallerStep(k)
             \/ WorkerStep(k) \/ TransportStep(k)
      PROVE  GateIInv'
  BY <1>3, CallerInvariant, HandOver, WorkerInvariant DEF WorkerStep
<1> QED
  BY <1>1, <1>2, <1>3 DEF GateNext

\* For any number of calls, the gate is owned by exactly the call whose worker is
\* alive, whoever has left (runOwned: the worker keeps the gate).
THEOREM GateInvariance == GateSpec => []GateIInv
BY GateBeginsKnowing, GateStepKeeps, PTL DEF GateSpec

\* For any number of calls, the transport serves one of them at a time
\* (client.go:328-331, 399-400).
THEOREM OneOperationAlways == GateSpec => []OneOperation
<1>1. GateIInv => OneOperation
  BY DEF GateIInv, OneOperation, Busy
<1> QED
  BY <1>1, GateInvariance, PTL

\* What a worker's place tells of its operation: who connects, and what is
\* cleaned up after.
WorkKnows ==
  \A k \in Calls :
    /\ call[k].work \in {"look", "connect", "check"} => call[k].op = "connect"
    /\ call[k].work = "cleanup" => call[k].op \in {"connect", "send"}
    /\ call[k].work \in {"check", "cleanup"} => call[k].err # "nothing_sent"

\* Each step of a worker goes to a place that knows what it should.
LEMMA WorkerKnows ==
  ASSUME GateIInv, WorkKnows, NEW k \in Calls, WorkerStep(k) \/ TransportStep(k)
  PROVE  WorkKnows'
<1>0. call[k] \in CallType
  BY CallTyped
<1>1. ASSUME NEW place \in WorkPlaces, NEW err \in Errors, WorkGoesOn(k, place, err),
             place \in {"look", "connect", "check"} => call[k].op = "connect",
             place = "cleanup" => call[k].op \in {"connect", "send"},
             place \in {"check", "cleanup"} => err # "nothing_sent"
      PROVE  WorkKnows'
  <2>1. call' = [call EXCEPT ![k] = [call[k] EXCEPT !.work = place, !.err = err]]
    BY <1>1 DEF WorkGoesOn
  <2>2. call'[k] = [call[k] EXCEPT !.work = place, !.err = err]
    BY <2>1 DEF GateIInv, GateTypeOK
  <2>3. call'[k].work = place /\ call'[k].err = err /\ call'[k].op = call[k].op
    BY <1>0, <2>2 DEF CallType
  <2>4. \A j \in Calls \ {k} : call'[j] = call[j]
    BY <2>1 DEF GateIInv, GateTypeOK
  <2> QED
    BY <1>1, <2>3, <2>4 DEF WorkKnows
<1>2. ASSUME NEW err \in Errors \ {"nothing_sent"}, Settled(k, err), call[k].op = "connect"
      PROVE  WorkKnows'
  BY <1>1, <1>2 DEF Settled, WorkPlaces
<1>3. ASSUME NEW err \in Errors, Operated(k, err)
      PROVE  WorkKnows'
  <2>1. (IF err # "none" /\ call[k].over THEN "timeout" ELSE err) \in Errors
    BY <1>3 DEF Errors
  <2> QED
    BY <1>1, <1>3, <2>1 DEF Operated, NeedsCleanup, WorkPlaces
<1>4. CASE ConnectLooks(k)
  <2>1. call[k].op = "connect"
    BY <1>4 DEF ConnectLooks, WorkKnows
  <2>2. CASE Settled(k, "timeout") \/ Settled(k, "none")
    BY <1>2, <2>1, <2>2 DEF Errors
  <2>3. CASE WorkGoesOn(k, "connect", "none")
    BY <1>1, <2>1, <2>3 DEF WorkPlaces, Errors
  <2> QED
    BY <1>4, <2>2, <2>3 DEF ConnectLooks
<1>5. CASE ConnectChecks(k)
  BY <1>0, <1>2, <1>5 DEF ConnectChecks, ClosedBeforeReady, Errors, CallType, WorkKnows
<1>6. CASE UnlockGate(k)
  <2>1. call' = [call EXCEPT ![k] = [call[k] EXCEPT !.work = "none"]]
    BY <1>0, <1>6 DEF UnlockGate, GateIInv, GateTypeOK
  <2>2. call'[k].work = "none"
    BY <1>0, <2>1 DEF CallType, GateIInv, GateTypeOK
  <2>3. \A j \in Calls \ {k} : call'[j] = call[j]
    BY <2>1 DEF GateIInv, GateTypeOK
  <2> QED
    BY <2>2, <2>3 DEF WorkKnows
<1>7. CASE TransportConnects(k)
  BY <1>1, <1>7 DEF TransportConnects, WorkKnows, WorkPlaces, Errors
<1>8. CASE TransportSends(k) \/ TransportTells(k) \/ TransportCloses(k)
  BY <1>3, <1>8 DEF TransportSends, TransportTells, TransportCloses, Errors
<1>9. CASE Cleanup(k)
  BY <1>0, <1>1, <1>9 DEF Cleanup, WorkPlaces, CallType
<1> QED
  BY <1>4, <1>5, <1>6, <1>7, <1>8, <1>9 DEF WorkerStep, TransportStep

\* Its caller leaves what a worker knows alone.
LEMMA CallerLeavesKnowledge ==
  ASSUME GateIInv, WorkKnows, NEW k \in Calls,
         CallBegins(k) \/ ContextEnds(k) \/ LockGate(k) \/ CallerStep(k)
  PROVE  WorkKnows'
<1>0. call[k] \in CallType
  BY CallTyped
<1>1. ASSUME NEW fields \in CallType, call' = [call EXCEPT ![k] = fields],
             \/ fields.work \in {"none", "operate"}
             \/ fields.work = "look" /\ fields.op = "connect"
             \/ fields.work = call[k].work /\ fields.op = call[k].op /\ fields.err = call[k].err
      PROVE  WorkKnows'
  <2>1. call'[k] = fields /\ \A j \in Calls \ {k} : call'[j] = call[j]
    BY <1>1 DEF GateIInv, GateTypeOK
  <2> QED
    BY <1>1, <2>1 DEF WorkKnows
<1>2. CASE CallBegins(k)
  <2>1. PICK op \in Ops :
          call' = [call EXCEPT ![k] = [@ EXCEPT !.op = op, !.at = "locking", !.over = FALSE,
                                                !.err = "none", !.told = "none"]]
    BY <1>2 DEF CallBegins
  <2> DEFINE fields == [call[k] EXCEPT !.op = op, !.at = "locking", !.over = FALSE,
                                       !.err = "none", !.told = "none"]
  <2>2. fields \in CallType /\ fields.work = "none"
    BY <1>0, <1>2 DEF CallType, CallBegins, Errors
  <2>3. call' = [call EXCEPT ![k] = fields]
    BY <2>1
  <2> QED
    BY <1>1, <2>2, <2>3
<1>3. CASE ContextEnds(k)
  <2>1. call' = [call EXCEPT ![k] = [call[k] EXCEPT !.over = TRUE]]
    BY <1>0, <1>3 DEF ContextEnds, GateIInv, GateTypeOK
  <2> QED
    BY <1>0, <1>1, <2>1 DEF CallType
<1>4. CASE LockGate(k)
  <2> DEFINE place  == IF call[k].op = "connect" THEN "look" ELSE "operate"
             fields == [call[k] EXCEPT !.at = "waiting", !.work = place]
  <2>1. fields \in CallType /\ fields.work = place /\ fields.op = call[k].op
    BY <1>0 DEF CallType, WorkPlaces
  <2>2. call' = [call EXCEPT ![k] = fields]
    BY <1>4 DEF LockGate
  <2> QED
    BY <1>1, <2>1, <2>2
<1>5. ASSUME NEW err \in Errors, call' = Returned(k, err)
      PROVE  WorkKnows'
  <2> DEFINE fields == [call[k] EXCEPT !.at = "idle", !.told = err]
  <2>1. /\ fields \in CallType /\ fields.work = call[k].work
        /\ fields.op = call[k].op /\ fields.err = call[k].err
    BY <1>0 DEF CallType
  <2>2. call' = [call EXCEPT ![k] = fields]
    BY <1>5 DEF Returned
  <2> QED
    BY <1>1, <2>1, <2>2
<1>6. CASE CallerStep(k)
  BY <1>0, <1>5, <1>6 DEF CallerStep, LockGivesUp, TakeResult, CallerLeaves, Errors, CallType
<1> QED
  BY <1>2, <1>3, <1>4, <1>6

LEMMA WorkersBeginKnowing == GateInit => WorkKnows
<1> SUFFICES ASSUME GateInit, NEW k \in Calls PROVE call[k].work = "none"
  BY DEF WorkKnows
<1>1. call[k] = [op |-> "close", at |-> "idle", work |-> "none",
                 over |-> FALSE, err |-> "none", told |-> "none"]
  BY DEF GateInit
<1> QED
  BY <1>1

LEMMA WorkersStepKeep == GateIInv /\ WorkKnows /\ [GateNext]_gateVars => WorkKnows'
<1> SUFFICES ASSUME GateIInv, WorkKnows, [GateNext]_gateVars PROVE WorkKnows'
  OBVIOUS
<1>1. CASE UNCHANGED gateVars \/ LinkDrops
  BY <1>1 DEF gateVars, LinkDrops, WorkKnows
<1> QED
  BY <1>1, WorkerKnows, CallerLeavesKnowledge DEF GateNext

LEMMA GateStepSound == GateIInv /\ WorkKnows /\ [GateNext]_gateVars => SoundLinkKept
<1> SUFFICES ASSUME GateIInv, WorkKnows, [GateNext]_gateVars, link = "up", link' # "up"
             PROVE  \/ call' = call
                    \/ \E k \in Calls : /\ gate = k /\ Busy(k)
                                        /\ call[k].op \in {"connect", "send", "hive", "close"}
                                        /\ call'[k].err # "nothing_sent"
  BY DEF SoundLinkKept
<1>1. ASSUME NEW k \in Calls, TransportStep(k)
      PROVE  /\ gate = k /\ Busy(k)
             /\ call[k].op \in {"connect", "send", "hive", "close"}
             /\ call'[k].err # "nothing_sent"
  <2>0. call[k] \in CallType
    BY CallTyped
  <2>1. gate = k /\ Busy(k)
    BY <1>1 DEF TransportStep, TransportConnects, TransportSends, TransportTells,
                TransportCloses, Cleanup, Busy, GateIInv
  <2>2. ASSUME NEW place, NEW err, WorkGoesOn(k, place, err)
        PROVE  call'[k].err = err
    <3>1. call'[k] = [call[k] EXCEPT !.work = place, !.err = err]
      BY <2>2 DEF WorkGoesOn, GateIInv, GateTypeOK
    <3> QED
      BY <2>0, <3>1 DEF CallType
  <2>3. ASSUME NEW err, Operated(k, err), err # "nothing_sent"
        PROVE  call'[k].err # "nothing_sent"
    BY <2>2, <2>3 DEF Operated
  <2>4. CASE TransportConnects(k)
    BY <2>1, <2>2, <2>4 DEF TransportConnects, WorkKnows
  <2>5. CASE TransportSends(k)
    BY <2>1, <2>3, <2>5 DEF TransportSends
  <2>6. CASE TransportCloses(k)
    BY <2>1, <2>3, <2>6 DEF TransportCloses
  <2>7. CASE Cleanup(k)
    BY <2>1, <2>2, <2>7 DEF Cleanup, WorkKnows
  <2>8. ~TransportTells(k)
    BY DEF TransportTells
  <2> QED
    BY <1>1, <2>4, <2>5, <2>6, <2>7, <2>8 DEF TransportStep
<1>2. CASE LinkDrops
  BY <1>2 DEF LinkDrops
<1>3. ASSUME NEW k \in Calls,
             CallBegins(k) \/ ContextEnds(k) \/ LockGate(k) \/ CallerStep(k) \/ WorkerStep(k)
      PROVE  FALSE
  BY <1>3 DEF CallBegins, ContextEnds, LockGate, CallerStep, LockGivesUp, TakeResult,
              CallerLeaves, WorkerStep, ConnectLooks, ConnectChecks, UnlockGate
<1>4. ~UNCHANGED gateVars
  BY DEF gateVars
<1> QED
  BY <1>1, <1>2, <1>3, <1>4 DEF GateNext

\* For any number of calls, a link that is up is taken down by the hub or by
\* the gate's owner inside the transport, and never for a send that wrote
\* nothing (client.go:399-400, 410-415).
THEOREM SoundLinkKeptAlways == GateSpec => [][SoundLinkKept]_gateVars
BY WorkersBeginKnowing, WorkersStepKeep, GateStepSound, GateInvariance, PTL DEF GateSpec

--------------------------------------------------------------------------------
(***************************************************************************)
(* The requests.                                                           *)
(***************************************************************************)
\* Induction over the naturals, for a set that is closed under it.
LEMMA NatInductSet ==
  ASSUME NEW S, 0 \in S, \A n \in Nat : n \in S => n + 1 \in S
  PROVE  Nat \subseteq S
<1> DEFINE T == Nat \ S
           R == OpToRel(<, Nat)
<1>1. SUFFICES ASSUME T # {} PROVE FALSE
  OBVIOUS
<1>2. IsWellFoundedOn(R, Nat)
  BY NatLessThanWellFounded
<1>3. PICK x \in T : \A y \in T : ~ (<<y, x>> \in R)
  <2>1. T \subseteq Nat
    OBVIOUS
  <2> HIDE DEF R, T
  <2> QED
    BY <1>1, <1>2, <2>1, WFMin
<1>4. \A y \in T : ~(y < x)
  BY <1>3 DEF OpToRel
<1>5. x # 0 /\ x - 1 \in Nat /\ x - 1 < x /\ (x - 1) + 1 = x
  OBVIOUS
<1> QED
  BY <1>4, <1>5

\* A loop over n items that goes from a state to a state has a run, which is
\* what a function defined by recursion on its steps rests on.
IsStep(step, n, S) == step \in [S \X (1 .. n) -> S]

IsRun(f, step, base, n, S) ==
  f \in [0 .. n -> S] /\ f[0] = base /\ \A i \in 1 .. n : f[i] = step[<<f[i - 1], i>>]

LEMMA LoopRuns ==
  ASSUME NEW S, NEW base \in S, NEW n \in Nat, NEW step, IsStep(step, n, S)
  PROVE  \E f : IsRun(f, step, base, n, S)
<1> DEFINE Runs(f, k) == f[0] = base /\ \A i \in 1 .. k : f[i] = step[<<f[i - 1], i>>]
           Reached == {k \in Nat : k <= n => \E f \in [0 .. k -> S] : Runs(f, k)}
<1>1. 0 \in Reached
  <2>1. [i \in 0 .. 0 |-> base] \in [0 .. 0 -> S]
    OBVIOUS
  <2>2. Runs([i \in 0 .. 0 |-> base], 0)
    OBVIOUS
  <2> QED
    BY <2>1, <2>2
<1>2. ASSUME NEW k \in Nat, k \in Reached, k + 1 <= n
      PROVE  \E f \in [0 .. (k + 1) -> S] : Runs(f, k + 1)
  <2>0. k <= n
    BY <1>2
  <2>1. PICK f \in [0 .. k -> S] : Runs(f, k)
    BY <1>2, <2>0
  <2> DEFINE next == step[<<f[k], k + 1>>]
             g == [i \in 0 .. (k + 1) |-> IF i = k + 1 THEN next ELSE f[i]]
  <2>2. k + 1 \in 1 .. n /\ f[k] \in S
    BY <1>2
  <2>3. next \in S
    BY <2>2 DEF IsStep
  <2>4. g \in [0 .. (k + 1) -> S]
    BY <2>3
  <2>5. g[0] = base
    BY <2>1
  <2>6. ASSUME NEW i \in 1 .. (k + 1) PROVE g[i] = step[<<g[i - 1], i>>]
    <3>1. i - 1 \in 0 .. k /\ g[i - 1] = f[i - 1]
      OBVIOUS
    <3>2. CASE i = k + 1
      <4>1. i - 1 = k /\ g[i] = next
        BY <3>2
      <4> HIDE DEF g
      <4> QED
        BY <3>1, <3>2, <4>1
    <3>3. CASE i \in 1 .. k
      BY <2>1, <3>1, <3>3
    <3> QED
      BY <3>2, <3>3
  <2> QED
    BY <2>4, <2>5, <2>6
<1>3. ASSUME NEW k \in Nat, k \in Reached PROVE k + 1 \in Reached
  <2> HIDE DEF Runs
  <2>1. k + 1 <= n => \E f \in [0 .. (k + 1) -> S] : Runs(f, k + 1)
    BY <1>2, <1>3
  <2>2. k + 1 \in Nat
    OBVIOUS
  <2> QED
    BY <2>1, <2>2
<1>4. Nat \subseteq Reached
  <2> HIDE DEF Reached
  <2> QED
    BY <1>1, <1>3, NatInductSet
<1>5. \E f \in [0 .. n -> S] : Runs(f, n)
  <2>1. n \in Reached /\ n <= n
    <3> HIDE DEF Reached
    <3> QED
      BY <1>4
  <2> QED
    BY <2>1
<1> QED
  BY <1>5 DEF IsRun

HeardType == [spoken : BOOLEAN, hard : Seq(ReplyEvent), soft : BOOLEAN,
              timer : {"none", "empty", "settle"}, over : BOOLEAN]

\* What one event does to what a request gist, whichever the request.
Hears(r, gist, event, now) ==
  /\ now \in HeardType
  /\ gist.spoken => now.spoken
  /\ r \in Asks /\ event.id = r /\ event.name = "speak" => now.spoken
  /\ \/ now.hard = gist.hard
     \/ now.hard = <<event>> /\ IsOwn(r, event) /\ event.name \in {"denied", "timeout"} /\ now.over
  /\ ~gist.over => (now.over <=> /\ IsOwn(r, event)
                                  /\ \/ event.name \in {"denied", "timeout"}
                                     \/ r \notin Asks /\ event.name = "complete")

LEMMA AcceptedHears ==
  ASSUME NEW r \in Requests, NEW gist \in HeardType, NEW event \in ReplyEvent
  PROVE  Hears(r, gist, event, Accepted(r, gist, event))
<1> DEFINE now == Accepted(r, gist, event)
<1>1. CASE ~IsOwn(r, event)
  <2>1. now = gist
    BY <1>1 DEF Accepted
  <2>2. ~(r \in Asks /\ event.id = r /\ event.name = "speak")
    BY <1>1 DEF IsOwn
  <2> QED
    BY <1>1, <2>1, <2>2 DEF Hears
<1>2. CASE IsOwn(r, event) /\ r \in Asks
  <2>0. now = AskHeard(gist, event)
    BY <1>2 DEF Accepted
  <2>1. event.name = "speak" => now = [gist EXCEPT !.spoken = TRUE, !.timer = "settle"]
    BY <2>0 DEF AskHeard
  <2>2. event.name \in {"denied", "timeout"} => now = [gist EXCEPT !.hard = <<event>>, !.over = TRUE]
    BY <2>0 DEF AskHeard
  <2>3. event.name = "unmatched" =>
          now = [gist EXCEPT !.soft = TRUE, !.timer = IF @ = "none" THEN "empty" ELSE @]
    BY <2>0 DEF AskHeard
  <2>4. event.name = "handled" => now = [gist EXCEPT !.timer = IF @ = "none" THEN "empty" ELSE @]
    BY <2>0 DEF AskHeard
  <2>5. event.name \notin {"speak", "denied", "timeout", "unmatched", "handled"} => now = gist
    BY <2>0 DEF AskHeard
  <2>6. <<event>> \in Seq(ReplyEvent)
    OBVIOUS
  <2> HIDE DEF now
  <2> SUFFICES Hears(r, gist, event, now)
    BY DEF now
  <2>7. CASE event.name = "speak"
    BY <1>2, <2>1, <2>7 DEF HeardType, Hears
  <2>8. CASE event.name \in {"denied", "timeout"}
    BY <1>2, <2>2, <2>6, <2>8 DEF HeardType, Hears
  <2>9. CASE event.name = "unmatched"
    BY <1>2, <2>3, <2>9 DEF HeardType, Hears
  <2>10. CASE event.name = "handled"
    BY <1>2, <2>4, <2>10 DEF HeardType, Hears
  <2>11. CASE event.name \notin {"speak", "denied", "timeout", "unmatched", "handled"}
    BY <1>2, <2>5, <2>11 DEF HeardType, Hears
  <2> QED
    BY <2>7, <2>8, <2>9, <2>10, <2>11
<1>3. CASE IsOwn(r, event) /\ r \notin Asks
  <2>0. now = QueryHeard(gist, event)
    BY <1>3 DEF Accepted
  <2>1. event.name = "speak" => now = [gist EXCEPT !.spoken = TRUE]
    BY <2>0 DEF QueryHeard
  <2>2. event.name \in {"denied", "timeout"} => now = [gist EXCEPT !.hard = <<event>>, !.over = TRUE]
    BY <2>0 DEF QueryHeard
  <2>3. event.name = "unmatched" => now = [gist EXCEPT !.soft = TRUE]
    BY <2>0 DEF QueryHeard
  <2>4. event.name = "complete" => now = [gist EXCEPT !.over = TRUE]
    BY <2>0 DEF QueryHeard
  <2>5. event.name \notin {"speak", "denied", "timeout", "unmatched", "complete"} => now = gist
    BY <2>0 DEF QueryHeard
  <2>6. <<event>> \in Seq(ReplyEvent)
    OBVIOUS
  <2> HIDE DEF now
  <2> SUFFICES Hears(r, gist, event, now)
    BY DEF now
  <2>7. CASE event.name = "speak"
    BY <1>3, <2>1, <2>7 DEF HeardType, Hears
  <2>8. CASE event.name \in {"denied", "timeout"}
    BY <1>3, <2>2, <2>6, <2>8 DEF HeardType, Hears
  <2>9. CASE event.name = "unmatched"
    BY <1>3, <2>3, <2>9 DEF HeardType, Hears
  <2>10. CASE event.name = "complete"
    BY <1>3, <2>4, <2>10 DEF HeardType, Hears
  <2>11. CASE event.name \notin {"speak", "denied", "timeout", "unmatched", "complete"}
    BY <1>3, <2>5, <2>11 DEF HeardType, Hears
  <2> QED
    BY <2>7, <2>8, <2>9, <2>10, <2>11
<1> QED
  BY <1>1, <1>2, <1>3

\* The drain is a run of accepted events (client.go:859-870, the drain loop).
LEMMA DrainRuns ==
  ASSUME NEW r \in Requests, request[r].heard \in HeardType, request[r].queue \in Seq(ReplyEvent)
  PROVE  \E run \in [0 .. Len(request[r].queue) -> HeardType] :
           /\ run[0] = request[r].heard
           /\ \A i \in 1 .. Len(request[r].queue) :
                run[i] = IF run[i - 1].over THEN run[i - 1]
                         ELSE Accepted(r, run[i - 1], request[r].queue[i])
           /\ Drained(r) = run[Len(request[r].queue)]
<1> DEFINE queue == request[r].queue
           n == Len(queue)
           Step(gist, i) == IF gist.over THEN gist ELSE Accepted(r, gist, queue[i])
           step == [x \in HeardType \X (1 .. n) |-> Step(x[1], x[2])]
           Runs(f) == f = [i \in 0 .. n |-> IF i = 0 THEN request[r].heard ELSE Step(f[i - 1], i)]
           gist == CHOOSE f : Runs(f)
<1>1. n \in Nat /\ \A i \in 1 .. n : queue[i] \in ReplyEvent
  OBVIOUS
<1>2. ASSUME NEW h \in HeardType, NEW i \in 1 .. n PROVE Step(h, i) \in HeardType
  BY <1>1, <1>2, AcceptedHears DEF Hears
<1>3. IsStep(step, n, HeardType)
  BY <1>2 DEF IsStep
<1>4. PICK f \in [0 .. n -> HeardType] :
        f[0] = request[r].heard /\ \A i \in 1 .. n : f[i] = step[<<f[i - 1], i>>]
  <2> HIDE DEF step, n
  <2>1. \E f : IsRun(f, step, request[r].heard, n, HeardType)
    BY <1>1, <1>3, LoopRuns
  <2> QED
    BY <2>1 DEF IsRun
<1>5. \A i \in 1 .. n : f[i] = Step(f[i - 1], i)
  <2> SUFFICES ASSUME NEW i \in 1 .. n PROVE f[i] = Step(f[i - 1], i)
    OBVIOUS
  <2>1. i - 1 \in 0 .. n /\ f[i - 1] \in HeardType
    BY <1>1
  <2> HIDE DEF Step, n
  <2> QED
    BY <1>4, <2>1
<1>6. Runs(f)
  <2> HIDE DEF Step, n
  <2> QED
    BY <1>1, <1>4, <1>5
<1>7. Runs(gist)
  <2> HIDE DEF Runs
  <2> QED
    BY <1>6
<1>8. Drained(r) = gist[n]
  BY DEF Drained
<1>9. gist[0] = request[r].heard /\ \A i \in 1 .. n : gist[i] = Step(gist[i - 1], i)
  <2> HIDE DEF Step, n, gist
  <2> QED
    BY <1>1, <1>7
<1>10. \A k \in 0 .. n : gist[k] \in HeardType
  <2> DEFINE Typed == {k \in Nat : k <= n => gist[k] \in HeardType}
  <2> HIDE DEF gist
  <2>1. 0 \in Typed
    BY <1>9
  <2>2. \A k \in Nat : k \in Typed => k + 1 \in Typed
    <3> SUFFICES ASSUME NEW k \in Nat, k \in Typed, k + 1 <= n PROVE gist[k + 1] \in HeardType
      OBVIOUS
    <3>1. k + 1 \in 1 .. n /\ (k + 1) - 1 = k /\ gist[k] \in HeardType
      BY <1>1
    <3> HIDE DEF Step, n
    <3>2. gist[k + 1] = Step(gist[k], k + 1)
      BY <1>9, <3>1
    <3> QED
      BY <1>2, <3>1, <3>2
  <2>3. Nat \subseteq Typed
    <3> HIDE DEF Typed
    <3> QED
      BY <2>1, <2>2, NatInductSet
  <2> QED
    BY <1>1, <2>3
<1>11. gist = [i \in 0 .. n |-> gist[i]]
  <2> HIDE DEF Step, n, gist
  <2> QED
    BY <1>7
<1>12. gist \in [0 .. n -> HeardType]
  <2> HIDE DEF gist, n
  <2> QED
    BY <1>10, <1>11
<1> HIDE DEF gist
<1> QED
  BY <1>8, <1>9, <1>12

\* What is gist of what was queued: speech is not lost, and what failed hard
\* is one event of the request's own.
LEMMA DrainHears ==
  ASSUME NEW r \in Requests, request[r].heard \in HeardType, request[r].queue \in Seq(ReplyEvent),
         ~request[r].heard.over, request[r].heard.hard = <<>>
  PROVE  /\ Drained(r) \in HeardType
         /\ Spoken(r) => Drained(r).spoken
         /\ r \in Asks /\ Waiting(r) => Drained(r).spoken
         /\ \/ Drained(r).hard = <<>>
            \/ \E i \in DOMAIN request[r].queue :
                 /\ Drained(r).hard = <<request[r].queue[i]>> /\ IsOwn(r, request[r].queue[i])
                 /\ request[r].queue[i].name \in {"denied", "timeout"}
<1>0. PICK n \in Nat : n = Len(request[r].queue) /\ DOMAIN request[r].queue = 1 .. n
  OBVIOUS
<1>1. PICK run \in [0 .. n -> HeardType] :
        /\ run[0] = request[r].heard
        /\ \A i \in 1 .. n : run[i] = IF run[i - 1].over THEN run[i - 1]
                                     ELSE Accepted(r, run[i - 1], request[r].queue[i])
        /\ Drained(r) = run[n]
  BY <1>0, DrainRuns
<1>2. ASSUME NEW k \in Nat, k + 1 <= n
      PROVE  /\ k \in 0 .. n /\ k + 1 \in 1 .. n /\ run[k] \in HeardType /\ run[k + 1] \in HeardType
             /\ request[r].queue[k + 1] \in ReplyEvent
             /\ run[k].over => run[k + 1] = run[k]
             /\ ~run[k].over => Hears(r, run[k], request[r].queue[k + 1], run[k + 1])
  <2>1. k \in 0 .. n /\ k + 1 \in 1 .. n /\ k + 1 \in 0 .. n /\ (k + 1) - 1 = k
    BY <1>2
  <2>2. run[k] \in HeardType /\ run[k + 1] \in HeardType /\ request[r].queue[k + 1] \in ReplyEvent
    BY <1>0, <2>1
  <2>3. run[k + 1] = IF run[k].over THEN run[k] ELSE Accepted(r, run[k], request[r].queue[k + 1])
    BY <1>1, <2>1
  <2>4. Hears(r, run[k], request[r].queue[k + 1], Accepted(r, run[k], request[r].queue[k + 1]))
    BY <2>2, AcceptedHears
  <2> QED
    BY <2>1, <2>2, <2>3, <2>4
<1>3. n \in 0 .. n /\ 0 \in 0 .. n
  BY <1>0
<1>4. Drained(r) \in HeardType
  BY <1>1, <1>3
<1>5. Spoken(r) => Drained(r).spoken
  <2> SUFFICES ASSUME Spoken(r) PROVE run[n].spoken
    BY <1>1
  <2> DEFINE S == {k \in Nat : k <= n => run[k].spoken}
  <2>1. 0 \in S
    BY <1>1 DEF Spoken
  <2>2. \A k \in Nat : k \in S => k + 1 \in S
    <3> SUFFICES ASSUME NEW k \in Nat, k \in S, k + 1 <= n PROVE run[k + 1].spoken
      OBVIOUS
    <3>1. k <= n
      OBVIOUS
    <3> QED
      BY <1>2, <3>1 DEF Hears
  <2>3. Nat \subseteq S
    <3> HIDE DEF S
    <3> QED
      BY <2>1, <2>2, NatInductSet
  <2> QED
    BY <1>0, <2>3
<1>6. ASSUME r \in Asks, Waiting(r) PROVE Drained(r).spoken
  <2>1. PICK i \in 1 .. n :
          /\ request[r].queue[i].id = r /\ request[r].queue[i].name = "speak"
          /\ \A j \in 1 .. i - 1 : ~Accepted(r, Silence, request[r].queue[j]).over
    BY <1>0, <1>6 DEF Waiting
  <2>2. ASSUME NEW j \in 1 .. i - 1
        PROVE  ~(IsOwn(r, request[r].queue[j]) /\ request[r].queue[j].name \in {"denied", "timeout"})
    <3>1. Silence \in HeardType /\ ~Silence.over
      BY DEF Silence, HeardType
    <3>2. request[r].queue[j] \in ReplyEvent
      BY <1>0
    <3>3. Hears(r, Silence, request[r].queue[j], Accepted(r, Silence, request[r].queue[j]))
      BY <3>1, <3>2, AcceptedHears
    <3> QED
      BY <2>1, <3>1, <3>3 DEF Hears
  <2> DEFINE S == {k \in Nat : k <= n => (k < i => ~run[k].over) /\ (k >= i => run[k].spoken)}
  <2>3. 0 \in S
    BY <1>1
  <2>4. \A k \in Nat : k \in S => k + 1 \in S
    <3> SUFFICES ASSUME NEW k \in Nat, k \in S, k + 1 <= n
                 PROVE  (k + 1 < i => ~run[k + 1].over) /\ (k + 1 >= i => run[k + 1].spoken)
      OBVIOUS
    <3>1. k <= n
      OBVIOUS
    <3>2. ASSUME k + 1 < i PROVE ~run[k + 1].over
      <4>1. ~run[k].over /\ k + 1 \in 1 .. i - 1
        BY <3>1, <3>2
      <4> QED
        BY <1>2, <1>6, <2>2, <4>1 DEF Hears
    <3>3. ASSUME k + 1 = i PROVE run[k + 1].spoken
      <4>1. ~run[k].over
        BY <3>1, <3>3
      <4> QED
        BY <1>2, <1>6, <2>1, <3>3, <4>1 DEF Hears
    <3>4. ASSUME k + 1 > i PROVE run[k + 1].spoken
      <4>1. run[k].spoken
        BY <3>1, <3>4
      <4> QED
        BY <1>2, <4>1 DEF Hears
    <3> QED
      BY <3>2, <3>3, <3>4
  <2>5. Nat \subseteq S
    <3> HIDE DEF S
    <3> QED
      BY <2>3, <2>4, NatInductSet
  <2>6. run[n].spoken
    BY <1>0, <2>5
  <2> QED
    BY <1>1, <2>6
<1>7. \/ run[n].hard = <<>>
      \/ \E i \in DOMAIN request[r].queue :
           /\ run[n].hard = <<request[r].queue[i]>> /\ IsOwn(r, request[r].queue[i])
           /\ request[r].queue[i].name \in {"denied", "timeout"}
  <2> DEFINE Own(hard) == \/ hard = <<>>
                          \/ \E i \in 1 .. n :
                               /\ hard = <<request[r].queue[i]>> /\ IsOwn(r, request[r].queue[i])
                               /\ request[r].queue[i].name \in {"denied", "timeout"}
             S == {k \in Nat : k <= n => Own(run[k].hard)}
  <2>1. 0 \in S
    BY <1>1
  <2>2. \A k \in Nat : k \in S => k + 1 \in S
    <3> SUFFICES ASSUME NEW k \in Nat, k \in S, k + 1 <= n PROVE Own(run[k + 1].hard)
      OBVIOUS
    <3>1. k <= n
      OBVIOUS
    <3>2. Own(run[k].hard)
      BY <3>1
    <3>3. run[k + 1].hard = run[k].hard => Own(run[k + 1].hard)
      BY <3>2
    <3>4. ASSUME run[k + 1].hard # run[k].hard PROVE Own(run[k + 1].hard)
      <4>1. /\ run[k + 1].hard = <<request[r].queue[k + 1]>> /\ IsOwn(r, request[r].queue[k + 1])
            /\ request[r].queue[k + 1].name \in {"denied", "timeout"}
        BY <1>2, <3>4 DEF Hears
      <4> QED
        BY <1>2, <4>1
    <3> QED
      BY <3>3, <3>4
  <2>3. Nat \subseteq S
    <3> HIDE DEF S
    <3> QED
      BY <2>1, <2>2, NatInductSet
  <2> QED
    BY <1>0, <2>3
<1> QED
  BY <1>1, <1>4, <1>5, <1>6, <1>7
--------------------------------------------------------------------------------
RequestType == [at : {"new", "connecting", "waiting", "ended"}, send : {"none", "sending", "failed"},
                queue : Seq(ReplyEvent), open : BOOLEAN, heard : HeardType]

VerdictType == [of : Requests \cup {NoId}, outcome : Outcomes, hard : Seq(ReplyEvent)]

\* An event is under its utterance's id or, refused on the bus, under none.
Named(event) == event.id \in {NoId, event.of}

\* One request: it goes on only while nothing ended its turn, and what waits in
\* its queue is named as the hub names it.
AskRecordKnows(q) ==
  /\ q \in RequestType
  /\ ~q.heard.over /\ q.heard.hard = <<>>
  /\ Len(q.queue) <= ReplyCapacity
  /\ \A i \in DOMAIN q.queue : Named(q.queue[i])

AskKnows == AskTypeOK /\ \A r \in Requests : AskRecordKnows(request[r])

LEMMA AskTyped ==
  ASSUME AskKnows
  PROVE  /\ request \in [Requests -> RequestType] /\ verdict \in VerdictType
         /\ \A r \in Requests : /\ AskRecordKnows(request[r]) /\ request[r].heard \in HeardType
                               /\ request[r].queue \in Seq(ReplyEvent)
                               /\ ~request[r].heard.over /\ request[r].heard.hard = <<>>
BY DEF AskKnows, AskTypeOK, RequestType, HeardType, VerdictType, AskRecordKnows

\* A step of one request, from a record that knows to one that does.
LEMMA AskRecordKeeps ==
  ASSUME AskKnows, NEW r \in Requests, NEW fields, AskRecordKnows(fields),
         request' = [request EXCEPT ![r] = fields], verdict' \in VerdictType,
         UNCHANGED <<untold, hub>>
  PROVE  AskKnows'
<1>1. request' \in [Requests -> RequestType]
  BY AskTyped DEF AskRecordKnows
<1>2. \A q \in Requests : AskRecordKnows(request'[q])
  BY AskTyped
<1>3. \A q \in Requests : Len(request'[q].queue) <= ReplyCapacity
  BY <1>2 DEF AskRecordKnows
<1>4. AskTypeOK'
  BY <1>1, <1>3 DEF AskKnows, AskTypeOK, RequestType, HeardType, VerdictType, hub
<1>5. (\A q \in Requests : AskRecordKnows(request[q]))'
  BY <1>2 DEF AskRecordKnows, Named
<1> QED
  BY <1>4, <1>5 DEF AskKnows

\* A request that ends forgets what it gist.
LEMMA EndsKeeps ==
  ASSUME AskKnows, NEW r \in Requests, NEW gist \in HeardType, NEW ending \in Outcomes,
         Ends(r, gist, ending), UNCHANGED <<untold, hub>>
  PROVE  AskKnows'
<1>0. /\ request[r] \in RequestType /\ request \in [Requests -> RequestType]
      /\ <<>> \in Seq(ReplyEvent)
  BY AskTyped
<1>1. PICK s \in {"none", "sending", "failed"} :
        s = IF request[r].send = "sending" THEN "sending" ELSE "none"
  OBVIOUS
<1> DEFINE q == [request[r] EXCEPT !.at = "ended", !.heard = Silence, !.queue = <<>>, !.open = TRUE,
                                   !.send = s]
<1>9. request' = [request EXCEPT ![r] =
                    [@ EXCEPT !.at = "ended", !.heard = Silence, !.queue = <<>>, !.open = TRUE,
                              !.send = IF request[r].send = "sending" THEN "sending" ELSE "none"]]
  BY DEF Ends
<1>10. [request[r] EXCEPT !.at = "ended", !.heard = Silence, !.queue = <<>>, !.open = TRUE,
                          !.send = IF request[r].send = "sending" THEN "sending" ELSE "none"] = q
  BY <1>0, <1>1 DEF RequestType
<1>11. request' = [request EXCEPT ![r] = q]
  <2>1. request' = [request EXCEPT ![r] =
                      [request[r] EXCEPT !.at = "ended", !.heard = Silence, !.queue = <<>>, !.open = TRUE,
                                         !.send = IF request[r].send = "sending" THEN "sending" ELSE "none"]]
    BY <1>9
  <2> QED
    <3> HIDE DEF q
    <3> QED
      BY <2>1, <1>10, Zenon
<1>2. Silence \in HeardType /\ ~Silence.over /\ Silence.hard = <<>>
  BY DEF Silence, HeardType
<1>3. /\ q \in RequestType /\ q.heard = Silence /\ q.queue = <<>>
  BY <1>0, <1>1, <1>2 DEF RequestType
<1>4. AskRecordKnows(q)
  BY <1>2, <1>3, RequestsAssumption DEF AskRecordKnows
<1>5. verdict' \in VerdictType
  <2>1. gist.hard \in Seq(ReplyEvent) /\ <<>> \in Seq(ReplyEvent)
    BY DEF HeardType
  <2> QED
    BY <2>1 DEF Ends, VerdictType
<1> HIDE DEF q
<1> QED
  BY <1>11, <1>4, <1>5, AskRecordKeeps

LEMMA VerdictTyped ==
  ASSUME NEW r \in Requests, NEW gist \in HeardType
  PROVE  Verdict(r, gist) \in Outcomes
BY DEF Verdict, Outcomes

\* The request's own steps.
LEMMA RequestStepKeeps ==
  ASSUME AskKnows, NEW r \in Requests,
         \/ RequestBegins(r) \/ RequestConnected(r) \/ SendReturns(r) \/ RequestReads(r)
         \/ StreamClosed(r) \/ SendFailureSeen(r) \/ RequestDeadline(r) \/ RequestCanceled(r)
         \/ ReplySettles(r)
  PROVE  AskKnows'
<1>0. /\ request[r] \in RequestType /\ AskRecordKnows(request[r]) /\ verdict \in VerdictType
      /\ request[r].heard \in HeardType /\ request[r].queue \in Seq(ReplyEvent)
      /\ ~request[r].heard.over /\ request[r].heard.hard = <<>>
      /\ request \in [Requests -> RequestType]
  BY AskTyped
<1>1. Drained(r) \in HeardType
  BY <1>0, DrainHears
<1>2. ASSUME NEW place \in {"connecting", "waiting"}, NEW send \in {"none", "sending", "failed"},
             request' = [request EXCEPT ![r] = [request[r] EXCEPT !.at = place, !.send = send]],
             UNCHANGED <<verdict, untold, hub>>
      PROVE  AskKnows'
  <2> DEFINE q == [request[r] EXCEPT !.at = place, !.send = send]
  <2>1. /\ q \in RequestType /\ q.heard = request[r].heard /\ q.queue = request[r].queue
    BY <1>0 DEF RequestType
  <2>2. AskRecordKnows(q)
    BY <1>0, <2>1 DEF AskRecordKnows
  <2> HIDE DEF q
  <2>3. request' = [request EXCEPT ![r] = q]
    BY <1>2 DEF q
  <2> QED
    BY <1>0, <1>2, <2>2, <2>3, AskRecordKeeps
<1>3. ASSUME NEW send \in {"none", "sending", "failed"},
             request' = [request EXCEPT ![r].send = send], UNCHANGED <<verdict, untold, hub>>
      PROVE  AskKnows'
  <2> DEFINE q == [request[r] EXCEPT !.send = send]
  <2>1. /\ q \in RequestType /\ q.heard = request[r].heard /\ q.queue = request[r].queue
    BY <1>0 DEF RequestType
  <2>2. AskRecordKnows(q)
    BY <1>0, <2>1 DEF AskRecordKnows
  <2>3. request' = [request EXCEPT ![r] = q]
    BY <1>0, <1>3
  <2> HIDE DEF q
  <2> QED
    BY <1>0, <1>3, <2>2, <2>3, AskRecordKeeps
<1>4. ASSUME NEW gist \in HeardType, Finishes(r, gist), UNCHANGED <<untold, hub>>
      PROVE  AskKnows'
  BY <1>4, EndsKeeps, VerdictTyped DEF Finishes
<1>5. CASE RequestBegins(r)
  <2>1. request' = [request EXCEPT ![r] = [request[r] EXCEPT !.at = "connecting", !.send = request[r].send]]
    BY <1>0, <1>5 DEF RequestBegins, RequestType
  <2>2. request[r].send \in {"none", "sending", "failed"}
    BY <1>0 DEF RequestType
  <2> QED
    BY <1>2, <1>5, <2>1, <2>2 DEF RequestBegins
<1>6. CASE RequestConnected(r)
  <2>1. CASE request' = [request EXCEPT ![r] = [@ EXCEPT !.at = "waiting", !.send = "sending"]]
             /\ UNCHANGED verdict
    BY <1>2, <1>6, <2>1 DEF RequestConnected
  <2>2. CASE Ends(r, Silence, "not_connected")
    <3>1. Silence \in HeardType /\ "not_connected" \in Outcomes
      BY DEF Silence, HeardType, Outcomes
    <3> QED
      BY <1>6, <2>2, <3>1, EndsKeeps DEF RequestConnected
  <2> QED
    BY <1>6, <2>1, <2>2 DEF RequestConnected
<1>7. CASE SendReturns(r)
  <2>1. PICK send \in {"none", "failed"} : request' = [request EXCEPT ![r].send = send]
    BY <1>7 DEF SendReturns
  <2> QED
    BY <1>3, <1>7, <2>1 DEF SendReturns
<1>8. CASE RequestReads(r)
  <2> DEFINE gist == Accepted(r, request[r].heard, Head(request[r].queue))
  <2>1. Head(request[r].queue) \in ReplyEvent /\ request[r].queue # <<>>
    BY <1>0, <1>8 DEF RequestReads
  <2>2. Hears(r, request[r].heard, Head(request[r].queue), gist)
    BY <1>0, <2>1, AcceptedHears
  <2>3. gist \in HeardType
    BY <2>2 DEF Hears
  <2>4. CASE gist.over
    <3>1. Finishes(r, gist) /\ UNCHANGED <<untold, hub>>
      BY <1>8, <2>4 DEF RequestReads
    <3> HIDE DEF gist
    <3> QED
      BY <1>4, <2>3, <3>1
  <2>5. CASE ~gist.over
    <3> DEFINE q == [request[r] EXCEPT !.heard = gist, !.queue = Tail(request[r].queue)]
    <3>0. /\ request' = [request EXCEPT ![r] = [@ EXCEPT !.heard = gist, !.queue = Tail(request[r].queue)]]
          /\ UNCHANGED <<verdict, untold, hub>>
      BY <1>8, <2>5 DEF RequestReads
    <3>9. [request[r] EXCEPT !.heard = gist, !.queue = Tail(request[r].queue)] = q
      <4> HIDE DEF gist
      <4> QED
        BY <1>0 DEF RequestType
    <3>1. /\ request' = [request EXCEPT ![r] = q] /\ UNCHANGED <<verdict, untold, hub>>
      <4>1. request' = [request EXCEPT ![r] = [request[r] EXCEPT !.heard = gist, !.queue = Tail(request[r].queue)]]
        BY <3>0
      <4> QED
        <5> HIDE DEF gist, q
        <5> QED
          BY <3>0, <3>9, <4>1, Zenon
    <3>2. gist.hard = <<>>
      BY <1>0, <2>2, <2>5 DEF Hears
    <3> HIDE DEF gist
    <3>3. /\ Tail(request[r].queue) \in Seq(ReplyEvent)
          /\ Len(Tail(request[r].queue)) = Len(request[r].queue) - 1 /\ Len(request[r].queue) \in Nat
          /\ \A i \in DOMAIN Tail(request[r].queue) :
               /\ i + 1 \in DOMAIN request[r].queue
               /\ Tail(request[r].queue)[i] = request[r].queue[i + 1]
      BY <1>0, <2>1
    <3>4. /\ q \in RequestType /\ q.heard = gist /\ q.queue = Tail(request[r].queue)
      BY <1>0, <2>3, <3>3 DEF RequestType
    <3>5. AskRecordKnows(q)
      BY <1>0, <2>5, <3>2, <3>3, <3>4, RequestsAssumption DEF AskRecordKnows
    <3> HIDE DEF q
    <3> QED
      BY <1>0, <3>1, <3>5, AskRecordKeeps
  <2> QED
    BY <2>4, <2>5
<1>9. CASE StreamClosed(r)
  BY <1>0, <1>9, EndsKeeps DEF StreamClosed, Outcomes
<1>10. CASE SendFailureSeen(r)
  <2>1. CASE Drained(r).over
    BY <1>1, <1>4, <1>10, <2>1 DEF SendFailureSeen
  <2>2. CASE ~Drained(r).over
    BY <1>1, <1>10, <2>2, EndsKeeps DEF SendFailureSeen, Outcomes
  <2> QED
    BY <2>1, <2>2
<1>11. CASE RequestDeadline(r)
  <2>1. CASE Finishes(r, Drained(r))
    BY <1>1, <1>4, <1>11, <2>1 DEF RequestDeadline
  <2>2. CASE Ends(r, Drained(r), "timeout")
    BY <1>1, <1>11, <2>2, EndsKeeps DEF RequestDeadline, Outcomes
  <2> QED
    BY <1>11, <2>1, <2>2 DEF RequestDeadline
<1>12. CASE RequestCanceled(r)
  BY <1>0, <1>12, EndsKeeps DEF RequestCanceled, Outcomes
<1>13. CASE ReplySettles(r)
  BY <1>1, <1>4, <1>13 DEF ReplySettles
<1> QED
  BY <1>5, <1>6, <1>7, <1>8, <1>9, <1>10, <1>11, <1>12, <1>13

\* What is published waits in the queue of each reader that has room.
LEMMA PublishedKeeps ==
  ASSUME AskKnows, NEW event \in ReplyEvent, Named(event), NEW readers, NEW r \in Requests
  PROVE  AskRecordKnows(Published(event, readers)[r])
<1>0. request[r] \in RequestType /\ AskRecordKnows(request[r]) /\ request[r].queue \in Seq(ReplyEvent)
  BY AskTyped
<1>1. CASE r \notin readers \/ request[r].at # "waiting" \/ ~request[r].open
  BY <1>0, <1>1 DEF Published
<1>2. CASE ~(r \notin readers \/ request[r].at # "waiting" \/ ~request[r].open)
  <2>1. CASE Len(request[r].queue) < ReplyCapacity
    <3> DEFINE q == [request[r] EXCEPT !.queue = Append(request[r].queue, event)]
    <3>1. Published(event, readers)[r] = q
      BY <1>0, <1>2, <2>1 DEF Published, RequestType
    <3>2. /\ Append(request[r].queue, event) \in Seq(ReplyEvent)
          /\ Len(request[r].queue) \in Nat
          /\ Len(Append(request[r].queue, event)) = Len(request[r].queue) + 1
          /\ DOMAIN request[r].queue = 1 .. Len(request[r].queue)
          /\ DOMAIN Append(request[r].queue, event) = 1 .. (Len(request[r].queue) + 1)
          /\ \A i \in 1 .. Len(request[r].queue) :
               Append(request[r].queue, event)[i] = request[r].queue[i]
          /\ Append(request[r].queue, event)[Len(request[r].queue) + 1] = event
      BY <1>0
    <3>3. /\ q \in RequestType /\ q.heard = request[r].heard
          /\ q.queue = Append(request[r].queue, event)
      BY <1>0, <3>2 DEF RequestType
    <3>4. \A i \in DOMAIN q.queue : Named(q.queue[i])
      <4> HIDE DEF q
      <4> SUFFICES ASSUME NEW i \in 1 .. (Len(request[r].queue) + 1)
                   PROVE  Named(Append(request[r].queue, event)[i])
        BY <3>2, <3>3
      <4>1. CASE i = Len(request[r].queue) + 1
        BY <3>2, <4>1
      <4>2. CASE i \in 1 .. Len(request[r].queue)
        BY <1>0, <3>2, <4>2 DEF AskRecordKnows
      <4> QED
        BY <3>2, <4>1, <4>2
    <3>5. Len(q.queue) <= ReplyCapacity
      BY <2>1, <3>2, <3>3, RequestsAssumption
    <3>6. AskRecordKnows(q)
      <4> HIDE DEF q
      <4> QED
        BY <1>0, <3>3, <3>4, <3>5 DEF AskRecordKnows
    <3> QED
      BY <3>1, <3>6
  <2>2. CASE ~(Len(request[r].queue) < ReplyCapacity)
    <3> DEFINE q == [request[r] EXCEPT !.open = FALSE]
    <3>1. Published(event, readers)[r] = q
      BY <1>0, <1>2, <2>2 DEF Published
    <3>2. q \in RequestType /\ q.heard = request[r].heard /\ q.queue = request[r].queue
      BY <1>0 DEF RequestType
    <3>3. AskRecordKnows(q)
      <4> HIDE DEF q
      <4> QED
        BY <1>0, <3>2 DEF AskRecordKnows
    <3> QED
      BY <3>1, <3>3
  <2> QED
    BY <2>1, <2>2
<1> QED
  BY <1>1, <1>2

\* The hub's steps, and those of utterances nobody waits for.
LEMMA AskOutsideKeeps ==
  ASSUME AskKnows,
         \/ \E r \in Requests : FrameWritten(r)
         \/ \E s \in Sends : SendUntracked(s) \/ GraceOver(s)
         \/ \E u \in Utterances, name \in Names : HubAnswers(u, name) \/ HubRefuses(u, name)
  PROVE  AskKnows'
<1>0. AskTypeOK /\ request \in [Requests -> RequestType]
  BY AskTyped DEF AskKnows
<1>1. ASSUME UNCHANGED <<request, verdict, replies>>, untold' \in [Sends -> {"new", "tracked", "aged"}],
             held' \subseteq Utterances, refused' \subseteq held'
      PROVE  AskKnows'
  <2>1. AskTypeOK'
    BY <1>0, <1>1 DEF AskTypeOK
  <2>2. (\A q \in Requests : AskRecordKnows(request[q]))'
    BY <1>1 DEF AskKnows, AskRecordKnows, Named
  <2> QED
    BY <2>1, <2>2 DEF AskKnows
<1>2. ASSUME NEW r \in Requests, FrameWritten(r) PROVE AskKnows'
  BY <1>0, <1>1, <1>2 DEF FrameWritten, AskTypeOK, Utterances
<1>3. ASSUME NEW s \in Sends, SendUntracked(s) PROVE AskKnows'
  BY <1>0, <1>1, <1>3 DEF SendUntracked, AskTypeOK, Utterances
<1>4. ASSUME NEW s \in Sends, GraceOver(s) PROVE AskKnows'
  BY <1>0, <1>1, <1>4 DEF GraceOver, AskTypeOK, hub
<1>5. ASSUME NEW event \in ReplyEvent, Named(event), NEW readers,
             request' = Published(event, readers), replies < MaxReplies, replies' = replies + 1,
             UNCHANGED <<verdict, untold, held>>, refused' \subseteq held
      PROVE  AskKnows'
  <2>1. \A q \in Requests : AskRecordKnows(request'[q])
    BY <1>5, PublishedKeeps
  <2>2. request' \in [Requests -> RequestType]
    <3>1. DOMAIN request' = Requests
      BY <1>5 DEF Published
    <3>2. request' = [q \in Requests |-> request'[q]]
      BY <1>5 DEF Published
    <3> QED
      BY <2>1, <3>2 DEF AskRecordKnows
  <2>3. \A q \in Requests : Len(request'[q].queue) <= ReplyCapacity
    BY <2>1 DEF AskRecordKnows
  <2>4. replies' \in 0 .. MaxReplies
    BY <1>0, <1>5, RequestsAssumption DEF AskTypeOK
  <2>5. AskTypeOK'
    BY <1>0, <1>5, <2>2, <2>3, <2>4 DEF AskTypeOK, RequestType, HeardType
  <2>6. (\A q \in Requests : AskRecordKnows(request[q]))'
    BY <2>1 DEF AskRecordKnows, Named
  <2> QED
    BY <2>5, <2>6 DEF AskKnows
<1>6. ASSUME NEW u \in Utterances, NEW name \in Names, HubAnswers(u, name) PROVE AskKnows'
  <2> DEFINE event == [name |-> name, id |-> u, of |-> u]
  <2>1. event \in ReplyEvent /\ Named(event)
    BY DEF ReplyEvent, Named
  <2>2. /\ request' = Published(event, IF u \in Asks THEN Asks ELSE Queries)
        /\ replies < MaxReplies /\ replies' = replies + 1
        /\ UNCHANGED <<verdict, untold, held>> /\ refused' \subseteq held
    BY <1>0, <1>6 DEF HubAnswers, AskTypeOK
  <2> HIDE DEF event
  <2> QED
    BY <1>5, <2>1, <2>2
<1>7. ASSUME NEW u \in Utterances, NEW name \in Names, HubRefuses(u, name) PROVE AskKnows'
  <2> DEFINE event == [name |-> name, id |-> NoId, of |-> u]
  <2>1. event \in ReplyEvent /\ Named(event)
    BY DEF ReplyEvent, Named
  <2>2. /\ request' = Published(event, Asks)
        /\ replies < MaxReplies /\ replies' = replies + 1
        /\ UNCHANGED <<verdict, untold, held>> /\ refused' \subseteq held
    BY <1>0, <1>7 DEF HubRefuses, AskTypeOK
  <2> HIDE DEF event
  <2> QED
    BY <1>5, <2>1, <2>2
<1> QED
  BY <1>2, <1>3, <1>4, <1>6, <1>7

LEMMA AskStepKeeps == AskKnows /\ AskNext => AskKnows'
<1> SUFFICES ASSUME AskKnows, AskNext PROVE AskKnows'
  OBVIOUS
<1>1. Asks \subseteq Requests
  BY DEF Requests
<1>2. {"speak", "blank", "unmatched", "handled", "timeout", "complete", "denied"} \subseteq Names
      /\ {"denied", "denied_other"} \subseteq Names
  BY DEF Names
<1> QED
  BY <1>1, <1>2, RequestStepKeeps, AskOutsideKeeps DEF AskNext

LEMMA AskBeginsKnowing ==
  ASSUME NEW made, AskInitOf(made)
  PROVE  AskKnows
<1>1. Silence \in HeardType /\ ~Silence.over /\ Silence.hard = <<>>
  BY DEF Silence, HeardType
<1>2. ASSUME NEW r \in Requests PROVE AskRecordKnows(request[r])
  <2>1. request[r] = [at |-> IF r \in made THEN "new" ELSE "ended",
                      send |-> "none", queue |-> <<>>, open |-> TRUE, heard |-> Silence]
    BY DEF AskInitOf
  <2>2. <<>> \in Seq(ReplyEvent) /\ Len(<<>>) <= ReplyCapacity
    BY RequestsAssumption
  <2> QED
    BY <1>1, <2>1, <2>2 DEF AskRecordKnows, RequestType
<1>3. request \in [Requests -> RequestType]
  <2>1. request = [r \in Requests |-> request[r]]
    BY DEF AskInitOf
  <2> QED
    BY <1>2, <2>1 DEF AskRecordKnows
<1>4. verdict \in VerdictType
  BY DEF AskInitOf, VerdictType, Outcomes
<1>5. AskTypeOK
  BY <1>2, <1>3, <1>4, RequestsAssumption
     DEF AskInitOf, AskTypeOK, RequestType, HeardType, VerdictType, AskRecordKnows
<1> QED
  BY <1>2, <1>5 DEF AskKnows
--------------------------------------------------------------------------------
\* What a request ends on: all that was queued, or the event that ends its turn.
EndsOn(r, gist) ==
  \/ gist = Drained(r)
  \/ /\ request[r].queue # <<>> /\ gist.over
     /\ gist = Accepted(r, request[r].heard, Head(request[r].queue))

\* The only ways a request ends.
LEMMA RequestEndings ==
  ASSUME AskKnows, AskNext, NEW r \in Requests,
         request[r].at # "ended", request'[r].at = "ended"
  PROVE  \E gist, ending :
           /\ verdict' = [of |-> r, outcome |-> ending,
                          hard |-> IF ending = "denied" THEN gist.hard ELSE <<>>]
           /\ \/ ending \in {"not_connected", "overflow", "canceled", "send_failed"}
              \/ ending = "timeout" /\ r \notin Asks
              \/ ending = Verdict(r, gist) /\ EndsOn(r, gist)
<1> DEFINE EndingOf(gist, ending) ==
      verdict' = [of |-> r, outcome |-> ending,
                  hard |-> IF ending = "denied" THEN gist.hard ELSE <<>>]
<1>0. /\ request \in [Requests -> RequestType] /\ Asks \subseteq Requests
      /\ \A q \in Requests : request[q] \in RequestType
  BY AskTyped DEF Requests
<1>1. ASSUME NEW q \in Requests, NEW new, request' = [request EXCEPT ![q] = new], new.at # "ended"
      PROVE  FALSE
  BY <1>0, <1>1
<1>2. ASSUME NEW q \in Requests, NEW gist, NEW ending, Ends(q, gist, ending)
      PROVE  q = r /\ EndingOf(gist, ending)
  <2>1. q # r => request'[r] = request[r]
    BY <1>0, <1>2 DEF Ends
  <2> QED
    BY <1>2, <2>1 DEF Ends
<1>3. ASSUME NEW q \in Requests, NEW gist, Finishes(q, gist)
      PROVE  q = r /\ EndingOf(gist, Verdict(r, gist))
  BY <1>2, <1>3 DEF Finishes
<1>4. ASSUME request' = request PROVE FALSE
  BY <1>4
<1>5. ASSUME NEW event, NEW readers, request' = Published(event, readers) PROVE FALSE
  <2>1. request'[r].at = request[r].at
    BY <1>0, <1>5 DEF Published, RequestType
  <2> QED
    BY <2>1
<1>6. ASSUME NEW q \in Requests, RequestBegins(q) PROVE FALSE
  BY <1>0, <1>6 DEF RequestBegins, RequestType
<1>7. ASSUME NEW q \in Requests, SendReturns(q) PROVE FALSE
  <2>1. PICK send \in {"none", "failed"} : request' = [request EXCEPT ![q].send = send]
    BY <1>7 DEF SendReturns
  <2> QED
    BY <1>0, <2>1 DEF RequestType
<1> DEFINE Ending(gist, ending) ==
      /\ EndingOf(gist, ending)
      /\ \/ ending \in {"not_connected", "overflow", "canceled", "send_failed"}
         \/ ending = "timeout" /\ r \notin Asks
         \/ ending = Verdict(r, gist) /\ EndsOn(r, gist)
<1> SUFFICES \E gist, ending : Ending(gist, ending)
  OBVIOUS
<1>8. ASSUME NEW q \in Requests, RequestConnected(q) PROVE \E gist, ending : Ending(gist, ending)
  <2>1. ASSUME request' = [request EXCEPT ![q] = [@ EXCEPT !.at = "waiting", !.send = "sending"]]
        PROVE  FALSE
    BY <1>0, <2>1 DEF RequestType
  <2>2. Ends(q, Silence, "not_connected")
    BY <1>8, <2>1 DEF RequestConnected
  <2> QED
    BY <1>2, <2>2
<1>9. ASSUME NEW q \in Requests, RequestReads(q) PROVE \E gist, ending : Ending(gist, ending)
  <2> DEFINE gist == Accepted(q, request[q].heard, Head(request[q].queue))
  <2>1. CASE gist.over
    <3>1. Finishes(q, gist) /\ request[q].queue # <<>>
      BY <1>9, <2>1 DEF RequestReads
    <3>2. q = r /\ EndingOf(gist, Verdict(r, gist))
      BY <1>3, <3>1
    <3>3. EndsOn(r, gist)
      BY <2>1, <3>1, <3>2 DEF EndsOn
    <3> QED
      BY <3>2, <3>3
  <2>2. CASE ~gist.over
    <3> DEFINE new == [request[q] EXCEPT !.heard = gist, !.queue = Tail(request[q].queue)]
    <3>1. request' = [request EXCEPT ![q] = new] /\ request[q].at = "waiting"
      BY <1>9, <2>2 DEF RequestReads
    <3>2. new.at = "waiting"
      <4> HIDE DEF gist
      <4> QED
        BY <1>0, <3>1 DEF RequestType
    <3> HIDE DEF new
    <3> QED
      BY <1>1, <3>1, <3>2
  <2> QED
    BY <2>1, <2>2
<1>10. ASSUME NEW q \in Requests, StreamClosed(q) PROVE \E gist, ending : Ending(gist, ending)
  BY <1>2, <1>10 DEF StreamClosed
<1>11. ASSUME NEW q \in Requests, SendFailureSeen(q) PROVE \E gist, ending : Ending(gist, ending)
  <2>1. Finishes(q, Drained(q)) \/ Ends(q, Drained(q), "send_failed")
    BY <1>11 DEF SendFailureSeen
  <2> QED
    BY <1>2, <1>3, <2>1 DEF EndsOn
<1>12. ASSUME NEW q \in Requests, RequestDeadline(q) PROVE \E gist, ending : Ending(gist, ending)
  <2>1. Finishes(q, Drained(q)) \/ (q \notin Asks /\ Ends(q, Drained(q), "timeout"))
    BY <1>12 DEF RequestDeadline
  <2> QED
    BY <1>2, <1>3, <2>1 DEF EndsOn
<1>13. ASSUME NEW q \in Requests, RequestCanceled(q) PROVE \E gist, ending : Ending(gist, ending)
  BY <1>2, <1>13 DEF RequestCanceled
<1>14. ASSUME NEW q \in Asks, ReplySettles(q) PROVE \E gist, ending : Ending(gist, ending)
  BY <1>0, <1>3, <1>14 DEF ReplySettles, EndsOn
<1>15. ASSUME NEW q \in Requests, FrameWritten(q) PROVE FALSE
  BY <1>4, <1>15 DEF FrameWritten
<1>16. ASSUME NEW s \in Sends, SendUntracked(s) \/ GraceOver(s) PROVE FALSE
  BY <1>4, <1>16 DEF SendUntracked, GraceOver
<1>17. ASSUME NEW u, NEW name, HubAnswers(u, name) \/ HubRefuses(u, name) PROVE FALSE
  BY <1>5, <1>17 DEF HubAnswers, HubRefuses
<1> HIDE DEF Ending
<1> QED
  BY <1>6, <1>7, <1>8, <1>9, <1>10, <1>11, <1>12, <1>13, <1>14, <1>15, <1>16, <1>17 DEF AskNext

\* What a request ends on holds all the speech of its turn, and at most one
\* refusal or failure, which is its own.
LEMMA EndsOnHears ==
  ASSUME AskKnows, NEW r \in Requests, NEW gist, EndsOn(r, gist)
  PROVE  /\ Spoken(r) => gist.spoken
         /\ r \in Asks /\ Waiting(r) => gist.spoken
         /\ \/ gist.hard = <<>>
            \/ \E i \in DOMAIN request[r].queue :
                 gist.hard = <<request[r].queue[i]>> /\ IsOwn(r, request[r].queue[i])
<1>0. /\ request[r].heard \in HeardType /\ request[r].queue \in Seq(ReplyEvent)
      /\ ~request[r].heard.over /\ request[r].heard.hard = <<>>
  BY AskTyped
<1>1. CASE gist = Drained(r)
  BY <1>0, <1>1, DrainHears
<1>2. CASE /\ request[r].queue # <<>> /\ gist.over
           /\ gist = Accepted(r, request[r].heard, Head(request[r].queue))
  <2>1. PICK first \in ReplyEvent :
          /\ first = Head(request[r].queue) /\ first = request[r].queue[1]
          /\ 1 \in DOMAIN request[r].queue
    BY <1>0, <1>2
  <2>2. Hears(r, request[r].heard, first, gist)
    BY <1>0, <1>2, <2>1, AcceptedHears
  <2>3. IsOwn(r, first) /\ (r \in Asks => first.name \in {"denied", "timeout"})
    BY <1>0, <1>2, <2>2 DEF Hears
  <2>4. r \in Asks => ~Waiting(r)
    <3> SUFFICES ASSUME r \in Asks, Waiting(r) PROVE FALSE
      OBVIOUS
    <3>1. PICK i \in DOMAIN request[r].queue :
            /\ request[r].queue[i].name = "speak"
            /\ \A j \in 1 .. i - 1 : ~Accepted(r, Silence, request[r].queue[j]).over
      BY DEF Waiting
    <3>2. i # 1
      BY <2>1, <2>3, <3>1
    <3>3. 1 \in 1 .. i - 1
      BY <1>0, <3>2
    <3>4. ~Accepted(r, Silence, first).over
      BY <2>1, <3>1, <3>3
    <3>5. Silence \in HeardType /\ ~Silence.over
      BY DEF Silence, HeardType
    <3>6. Hears(r, Silence, first, Accepted(r, Silence, first))
      BY <3>5, AcceptedHears
    <3> QED
      BY <2>3, <3>4, <3>5, <3>6 DEF Hears
  <2>5. Spoken(r) => gist.spoken
    BY <2>2 DEF Hears, Spoken
  <2>6. gist.hard = <<>> \/ gist.hard = <<first>>
    BY <1>0, <2>2 DEF Hears
  <2> QED
    BY <2>1, <2>3, <2>4, <2>5, <2>6
<1> QED
  BY <1>1, <1>2 DEF EndsOn

LEMMA AskStepSpeaks == AskKnows /\ [AskNext]_askVars => SpeechNotLost
<1> SUFFICES ASSUME AskKnows, [AskNext]_askVars, NEW r \in Asks,
                    EndsAs(r, {"denied", "fault", "unanswered", "timeout"})
             PROVE  ~Spoken(r) /\ ~Waiting(r)
  BY DEF SpeechNotLost
<1>1. /\ r \in Requests /\ request[r].at # "ended" /\ request'[r].at = "ended"
      /\ verdict'.outcome \in {"denied", "fault", "unanswered", "timeout"}
  BY DEF EndsAs, Requests
<1>2. AskNext
  BY <1>1 DEF askVars
<1>3. PICK gist, ending :
        /\ verdict' = [of |-> r, outcome |-> ending,
                       hard |-> IF ending = "denied" THEN gist.hard ELSE <<>>]
        /\ \/ ending \in {"not_connected", "overflow", "canceled", "send_failed"}
           \/ ending = "timeout" /\ r \notin Asks
           \/ ending = Verdict(r, gist) /\ EndsOn(r, gist)
  BY <1>1, <1>2, RequestEndings
<1>4. verdict'.outcome = ending
  BY <1>3
<1>5. ending = Verdict(r, gist) /\ EndsOn(r, gist)
  BY <1>1, <1>3, <1>4
<1>6. ~gist.spoken
  BY <1>1, <1>4, <1>5 DEF Verdict
<1> QED
  BY <1>1, <1>5, <1>6, EndsOnHears

LEMMA AskStepRefuses == AskKnows /\ [AskNext]_askVars => RefusalNotAnothers
<1> SUFFICES ASSUME AskKnows, [AskNext]_askVars, NEW r \in Requests, EndsAs(r, {"denied"})
             PROVE  /\ verdict'.hard[1].name = "denied"
                    /\ verdict'.hard[1].of = r \/ Over(verdict'.hard[1].of)
  BY DEF RefusalNotAnothers
<1>1. request[r].at # "ended" /\ request'[r].at = "ended" /\ verdict'.outcome = "denied"
  BY DEF EndsAs
<1>2. AskNext
  BY <1>1 DEF askVars
<1>3. PICK gist, ending :
        /\ verdict' = [of |-> r, outcome |-> ending,
                       hard |-> IF ending = "denied" THEN gist.hard ELSE <<>>]
        /\ \/ ending \in {"not_connected", "overflow", "canceled", "send_failed"}
           \/ ending = "timeout" /\ r \notin Asks
           \/ ending = Verdict(r, gist) /\ EndsOn(r, gist)
  BY <1>1, <1>2, RequestEndings
<1>4. ending = "denied" /\ verdict'.hard = gist.hard
  BY <1>1, <1>3
<1>5. ending = Verdict(r, gist) /\ EndsOn(r, gist)
  BY <1>3, <1>4
<1>6. gist.hard # <<>> /\ gist.hard[1].name = "denied"
  BY <1>4, <1>5 DEF Verdict
<1>7. PICK i \in DOMAIN request[r].queue :
        gist.hard = <<request[r].queue[i]>> /\ IsOwn(r, request[r].queue[i])
  BY <1>5, <1>6, EndsOnHears
<1>8. PICK event : event = request[r].queue[i] /\ IsOwn(r, event) /\ gist.hard[1] = event
  BY <1>7
<1>9. Named(event)
  BY <1>8, AskTyped DEF AskRecordKnows
<1>10. r # NoId
  BY RequestsAssumption DEF Utterances
<1>11. CASE event.id = r
  BY <1>4, <1>6, <1>8, <1>9, <1>10, <1>11 DEF Named
<1>12. CASE event.id # r
  <2>1. OnlyUtterance(r)
    BY <1>8, <1>12 DEF IsOwn, RefusalBelongsToAsk
  <2>2. event.of = r \/ Over(event.of)
    BY <2>1 DEF OnlyUtterance, Over
  <2> QED
    BY <1>4, <1>6, <1>8, <2>2
<1> QED
  BY <1>11, <1>12

--------------------------------------------------------------------------------
(***************************************************************************)
(* The conversations.                                                      *)
(***************************************************************************)
NamedIds == Ids \ {Blank}

\* What is once said of a loop's run at each place holds where it ends.
LEMMA KeysRun ==
  ASSUME NEW ids \in Seq(Ids), NEW n \in Nat, n = Len(ids)
  PROVE  \E keys :
           /\ keys[0] = <<>> /\ Keys(ids) = keys[n]
           /\ \A i \in 1 .. n :
                keys[i] = IF ids[i] = Blank \/ ids[i] \in Range(keys[i - 1]) THEN keys[i - 1]
                          ELSE Append(keys[i - 1], ids[i])
<1> DEFINE S == Seq(NamedIds)
           Step(keys, i) == IF ids[i] = Blank \/ ids[i] \in Range(keys) THEN keys
                            ELSE Append(keys, ids[i])
           step == [x \in S \X (1 .. n) |-> Step(x[1], x[2])]
           Runs(f) == f = [i \in 0 .. n |-> IF i = 0 THEN <<>> ELSE Step(f[i - 1], i)]
           keys == CHOOSE f : Runs(f)
<1>1. \A i \in 1 .. n : ids[i] \in Ids
  OBVIOUS
<1>2. ASSUME NEW s \in S, NEW i \in 1 .. n PROVE Step(s, i) \in S
  BY <1>1, <1>2 DEF NamedIds
<1>3. IsStep(step, n, S)
  BY <1>2 DEF IsStep
<1>4. PICK f : IsRun(f, step, <<>>, n, S)
  <2> HIDE DEF step
  <2>1. <<>> \in S
    OBVIOUS
  <2> HIDE DEF S
  <2> QED
    BY <1>3, <2>1, LoopRuns
<1>5. f \in [0 .. n -> S] /\ f[0] = <<>> /\ \A i \in 1 .. n : f[i] = Step(f[i - 1], i)
  <2>1. f \in [0 .. n -> S] /\ f[0] = <<>>
    BY <1>4 DEF IsRun
  <2> SUFFICES ASSUME NEW i \in 1 .. n PROVE f[i] = Step(f[i - 1], i)
    BY <2>1
  <2>2. i - 1 \in 0 .. n /\ f[i - 1] \in S
    <3> HIDE DEF S
    <3> QED
      BY <2>1
  <2>3. f[i] = step[<<f[i - 1], i>>]
    <3> HIDE DEF S, step
    <3> QED
      BY <1>4 DEF IsRun
  <2> HIDE DEF Step, S
  <2> QED
    BY <2>2, <2>3
<1>6. Runs(f)
  <2> HIDE DEF Step, S
  <2> QED
    BY <1>5
<1>7. Runs(keys)
  <2> HIDE DEF Runs
  <2> QED
    BY <1>6
<1>8. Keys(ids) = keys[n]
  BY DEF Keys
<1>9. keys[0] = <<>> /\ \A i \in 1 .. n : keys[i] = Step(keys[i - 1], i)
  <2> HIDE DEF Step, keys
  <2> QED
    BY <1>7
<1> HIDE DEF keys
<1> QED
  BY <1>8, <1>9

\* Keys leaves white space out and nothing else.
LEMMA KeysNames ==
  ASSUME NEW ids \in Seq(Ids)
  PROVE  Keys(ids) \in Seq(NamedIds) /\ Range(Keys(ids)) = Range(ids) \ {Blank}
<1>0. PICK n \in Nat : n = Len(ids) /\ DOMAIN ids = 1 .. n
  OBVIOUS
<1>1. PICK keys :
        /\ keys[0] = <<>> /\ Keys(ids) = keys[n]
        /\ \A i \in 1 .. n :
             keys[i] = IF ids[i] = Blank \/ ids[i] \in Range(keys[i - 1]) THEN keys[i - 1]
                       ELSE Append(keys[i - 1], ids[i])
  BY <1>0, KeysRun
<1> DEFINE Good(s, k) == s \in Seq(NamedIds) /\ Range(s) = {ids[i] : i \in 1 .. k} \ {Blank}
           Reached == {k \in Nat : k <= n => Good(keys[k], k)}
<1>2. 0 \in Reached
  <2>1. <<>> \in Seq(NamedIds) /\ Range(<<>>) = {} /\ {ids[i] : i \in 1 .. 0} = {}
    BY DEF Range
  <2> QED
    BY <1>1, <2>1
<1>3. \A k \in Nat : k \in Reached => k + 1 \in Reached
  <2> SUFFICES ASSUME NEW k \in Nat, k \in Reached, k + 1 <= n PROVE Good(keys[k + 1], k + 1)
    <3> HIDE DEF Good
    <3> QED
      OBVIOUS
  <2>1. k + 1 \in 1 .. n /\ (k + 1) - 1 = k /\ ids[k + 1] \in Ids
    BY <1>0
  <2>2. PICK s : s = keys[k] /\ Good(s, k)
    <3> HIDE DEF Good
    <3> QED
      BY <2>1
  <2>3. keys[k + 1] = IF ids[k + 1] = Blank \/ ids[k + 1] \in Range(s) THEN s
                      ELSE Append(s, ids[k + 1])
    BY <1>1, <2>1, <2>2
  <2>4. {ids[i] : i \in 1 .. (k + 1)} = {ids[i] : i \in 1 .. k} \cup {ids[k + 1]}
    <3>1. 1 .. (k + 1) = (1 .. k) \cup {k + 1}
      OBVIOUS
    <3> QED
      BY <3>1
  <2>5. CASE ids[k + 1] = Blank \/ ids[k + 1] \in Range(s)
    BY <2>2, <2>3, <2>4, <2>5
  <2>6. CASE ~(ids[k + 1] = Blank \/ ids[k + 1] \in Range(s))
    <3>1. Append(s, ids[k + 1]) \in Seq(NamedIds)
      BY <2>1, <2>2, <2>6 DEF NamedIds
    <3>2. Range(Append(s, ids[k + 1])) = Range(s) \cup {ids[k + 1]}
      <4>1. /\ DOMAIN Append(s, ids[k + 1]) = DOMAIN s \cup {Len(s) + 1} /\ Len(s) \in Nat
            /\ DOMAIN s = 1 .. Len(s)
            /\ \A i \in DOMAIN s : Append(s, ids[k + 1])[i] = s[i]
            /\ Append(s, ids[k + 1])[Len(s) + 1] = ids[k + 1]
        BY <2>2
      <4> QED
        BY <4>1 DEF Range
    <3> QED
      BY <2>2, <2>3, <2>4, <2>6, <3>1, <3>2
  <2> QED
    BY <2>5, <2>6
<1>4. Nat \subseteq Reached
  <2> HIDE DEF Reached
  <2> QED
    BY <1>2, <1>3, NatInductSet
<1>5. Good(keys[n], n)
  <2> HIDE DEF Good
  <2> QED
    BY <1>0, <1>4
<1>6. Range(ids) = {ids[i] : i \in 1 .. n}
  BY <1>0 DEF Range
<1> QED
  BY <1>1, <1>5, <1>6

\* The part of WholeConversations that is about single conversations.
Grouped(c) ==
  /\ c \in [DOMAIN c -> Entry]
  /\ DOMAIN c \subseteq NamedIds
  /\ \A id \in DOMAIN c :
       /\ {x \in DOMAIN c : c[x].seq = c[id].seq} = Range(c[id].group)
       /\ Len(c[id].group) <= MaxAliases
       /\ \A x \in Range(c[id].group) : c[x] = c[id]

Seqs(c) == {c[id].seq : id \in DOMAIN c}

\* What the client knows of its conversations: none is younger than the last
\* use, and as few are remembered as there are sequence numbers in use.
ConversationsKnow ==
  /\ Grouped(conversations)
  /\ conversationSeq \in 0 .. MaxTurns
  /\ \A id \in DOMAIN conversations : conversations[id].seq <= conversationSeq
  /\ Cardinality(Seqs(conversations)) <= MaxRemembered

LEMMA SeqsFinite ==
  ASSUME NEW c, Grouped(c)
  PROVE  Seqs(c) \subseteq 1 .. MaxTurns /\ IsFiniteSet(Seqs(c)) /\ Cardinality(Seqs(c)) \in Nat
<1>1. Seqs(c) \subseteq 1 .. MaxTurns
  BY DEF Grouped, Seqs, Entry
<1>2. IsFiniteSet(1 .. MaxTurns)
  BY FS_Interval, ConversationsAssumption
<1> QED
  BY <1>1, <1>2, FS_Subset, FS_CardinalityType

\* Two conversations differ in their sequence numbers.
LEMMA FewConversations ==
  ASSUME NEW c, Grouped(c), Cardinality(Seqs(c)) <= MaxRemembered
  PROVE  Cardinality(Range(c)) <= MaxRemembered
<1> DEFINE of(n) == CHOOSE id \in DOMAIN c : c[id].seq = n
           f == [n \in Seqs(c) |-> c[of(n)]]
<1>1. ASSUME NEW n \in Seqs(c) PROVE of(n) \in DOMAIN c /\ c[of(n)].seq = n
  BY DEF Seqs
<1>2. ASSUME NEW id \in DOMAIN c PROVE c[id].seq \in Seqs(c) /\ f[c[id].seq] = c[id]
  <2>1. c[id].seq \in Seqs(c)
    BY DEF Seqs
  <2>2. of(c[id].seq) \in DOMAIN c /\ c[of(c[id].seq)].seq = c[id].seq
    BY <1>1, <2>1
  <2> HIDE DEF of
  <2>3. of(c[id].seq) \in Range(c[id].group)
    BY <2>2 DEF Grouped
  <2>4. c[of(c[id].seq)] = c[id]
    BY <2>3 DEF Grouped
  <2> QED
    BY <2>1, <2>4
<1>3. f \in [Seqs(c) -> Range(c)]
  <2> HIDE DEF of
  <2> QED
    BY <1>1 DEF Range
<1>4. f \in Surjection(Seqs(c), Range(c))
  <2> HIDE DEF f
  <2>1. \A e \in Range(c) : \E n \in Seqs(c) : f[n] = e
    BY <1>2 DEF Range
  <2> QED
    BY <1>3, <2>1 DEF Surjection
<1> HIDE DEF f
<1>5. IsFiniteSet(Seqs(c)) /\ Cardinality(Seqs(c)) \in Nat
  BY SeqsFinite
<1>6. IsFiniteSet(Range(c)) /\ Cardinality(Range(c)) <= Cardinality(Seqs(c))
  BY <1>4, <1>5, FS_Surjection
<1>7. Cardinality(Range(c)) \in Nat
  BY <1>6, FS_CardinalityType
<1> QED
  BY <1>5, <1>6, <1>7, ConversationsAssumption

\* Leaving whole conversations out splits none.
LEMMA WholeLeftOut ==
  ASSUME NEW c, Grouped(c), NEW gone,
         \A id \in DOMAIN c \cap gone : Range(c[id].group) \subseteq gone
  PROVE  Grouped(Restrict(c, DOMAIN c \ gone))
<1> DEFINE left == Restrict(c, DOMAIN c \ gone)
<1>1. DOMAIN left = DOMAIN c \ gone /\ left \in [DOMAIN left -> Entry]
      /\ \A id \in DOMAIN left : id \in DOMAIN c /\ left[id] = c[id]
  BY DEF Restrict, Grouped
<1> HIDE DEF left
<1>2. ASSUME NEW id \in DOMAIN left
      PROVE  {x \in DOMAIN left : left[x].seq = left[id].seq} = Range(left[id].group)
  <2>0. id \in DOMAIN c /\ left[id] = c[id] /\ id \notin gone
    BY <1>1
  <2>1. {x \in DOMAIN c : c[x].seq = c[id].seq} = Range(c[id].group)
    BY <2>0 DEF Grouped
  <2>2. ASSUME NEW x \in Range(c[id].group) PROVE x \in DOMAIN left
    <3>1. x \in DOMAIN c /\ c[x] = c[id]
      BY <2>0, <2>1, <2>2 DEF Grouped
    <3>2. id \in Range(c[x].group)
      BY <2>0, <2>1, <3>1
    <3>3. x \notin gone
      BY <2>0, <3>1, <3>2
    <3> QED
      BY <1>1, <3>1, <3>3
  <2> QED
    BY <1>1, <2>0, <2>1, <2>2
<1>3. ASSUME NEW id \in DOMAIN left
      PROVE  Len(left[id].group) <= MaxAliases /\ \A x \in Range(left[id].group) : left[x] = left[id]
  <2>1. id \in DOMAIN c /\ left[id] = c[id]
    BY <1>1
  <2>2. \A x \in Range(left[id].group) : x \in DOMAIN left
    BY <1>2
  <2> QED
    BY <1>1, <2>1, <2>2 DEF Grouped
<1>4. DOMAIN left \subseteq NamedIds
  BY <1>1 DEF Grouped
<1> QED
  BY <1>1, <1>2, <1>3, <1>4 DEF left, Grouped

\* As many of the largest as are wanted.
LEMMA LargestFew ==
  ASSUME NEW S, NEW n \in Nat, S \subseteq 1 .. n, NEW bound \in Nat,
         \A m \in S : Cardinality({k \in S : k > m}) < bound
  PROVE  Cardinality(S) <= bound
<1>0. IsFiniteSet(S) /\ Cardinality(S) \in Nat
  <2>1. IsFiniteSet(1 .. n)
    BY FS_Interval
  <2> QED
    BY <2>1, FS_Subset, FS_CardinalityType
<1>1. CASE S = {}
  BY <1>1, FS_EmptySet
<1>2. CASE S # {}
  <2>1. PICK least \in S : \A m \in S : ~(m < least)
    <3>1. IsWellFoundedOn(OpToRel(<, Nat), Nat)
      BY NatLessThanWellFounded
    <3>2. S \subseteq Nat
      OBVIOUS
    <3>3. PICK x \in S : \A y \in S : ~ (<<y, x>> \in OpToRel(<, Nat))
      BY <1>2, <3>1, <3>2, WFMin
    <3> QED
      BY <3>2, <3>3 DEF OpToRel
  <2>2. S \ {least} = {k \in S : k > least}
    <3>1. \A k \in S : k \in 1 .. n /\ ~(k < least)
      BY <2>1
    <3>2. \A k \in 1 .. n : ~(k < least) => (k # least <=> k > least)
      BY <2>1
    <3> QED
      BY <3>1, <3>2
  <2>3. Cardinality(S \ {least}) = Cardinality(S) - 1
    BY <1>0, <2>1, FS_RemoveElement
  <2> QED
    BY <1>0, <2>1, <2>2, <2>3
<1> QED
  BY <1>1, <1>2

LEMMA EvictedKeeps ==
  ASSUME NEW filed, Grouped(filed)
  PROVE  /\ Grouped(Evicted(filed)) /\ Cardinality(Seqs(Evicted(filed))) <= MaxRemembered
         /\ \A id \in DOMAIN Evicted(filed) : id \in DOMAIN filed /\ Evicted(filed)[id] = filed[id]
<1> DEFINE seqs == Seqs(filed)
           kept == {n \in seqs : Cardinality({m \in seqs : m > n}) < MaxRemembered}
           gone == {id \in DOMAIN filed : filed[id].seq \notin kept}
           left == Restrict(filed, DOMAIN filed \ gone)
<1>1. Evicted(filed) = left
  <2>1. {id \in DOMAIN filed : filed[id].seq \in kept} = DOMAIN filed \ gone
    OBVIOUS
  <2> QED
    BY <2>1 DEF Evicted, Seqs
<1>2. \A id \in DOMAIN filed \cap gone : Range(filed[id].group) \subseteq gone
  <2> SUFFICES ASSUME NEW id \in DOMAIN filed, filed[id].seq \notin kept, NEW x \in Range(filed[id].group)
               PROVE  x \in gone
    OBVIOUS
  <2>1. x \in DOMAIN filed /\ filed[x].seq = filed[id].seq
    BY DEF Grouped
  <2> HIDE DEF kept
  <2> QED
    BY <2>1
<1>3. Grouped(left)
  <2> HIDE DEF gone
  <2> QED
    BY <1>2, WholeLeftOut
<1>4. /\ DOMAIN left = DOMAIN filed \ gone
      /\ \A id \in DOMAIN left : id \in DOMAIN filed /\ left[id] = filed[id]
  BY DEF Restrict
<1>5. Seqs(left) = kept
  <2> HIDE DEF left
  <2>1. Seqs(left) \subseteq kept
    BY <1>4 DEF Seqs
  <2>2. ASSUME NEW n \in kept PROVE n \in Seqs(left)
    <3>1. PICK id \in DOMAIN filed : filed[id].seq = n
      BY DEF Seqs
    <3>2. id \in DOMAIN left /\ left[id].seq = n
      BY <1>4, <3>1
    <3> QED
      BY <3>2 DEF Seqs
  <2> QED
    BY <2>1, <2>2
<1>6. Cardinality(kept) <= MaxRemembered
  <2>0. seqs \subseteq 1 .. MaxTurns /\ kept \subseteq 1 .. MaxTurns /\ IsFiniteSet(seqs)
    BY SeqsFinite
  <2>1. ASSUME NEW m \in kept PROVE Cardinality({k \in kept : k > m}) < MaxRemembered
    <3> DEFINE few == {k \in kept : k > m}
               more == {k \in seqs : k > m}
    <3>1. few \subseteq more /\ more \subseteq seqs
      OBVIOUS
    <3>2. Cardinality(more) < MaxRemembered
      OBVIOUS
    <3> HIDE DEF few, more, kept
    <3>3. IsFiniteSet(more)
      BY <2>0, <3>1, FS_Subset
    <3>4. IsFiniteSet(few) /\ Cardinality(few) <= Cardinality(more)
      BY <3>1, <3>3, FS_Subset
    <3>5. Cardinality(few) \in Nat /\ Cardinality(more) \in Nat
      BY <3>3, <3>4, FS_CardinalityType
    <3> QED
      BY <3>2, <3>4, <3>5, ConversationsAssumption DEF few
  <2> HIDE DEF kept, seqs
  <2> QED
    BY <2>0, <2>1, LargestFew, ConversationsAssumption
<1> HIDE DEF left, kept
<1> QED
  BY <1>1, <1>3, <1>4, <1>5, <1>6

--------------------------------------------------------------------------------
\* The ids a turn reaches: its own, and every id of a conversation one of them
\* is filed under.
Siblings(keys) == Range(keys) \cup UNION {Range(GroupOf(x)) : x \in Range(keys)}

GroupRun(all, keys, n) ==
  all[0] = keys /\ \A i \in 1 .. n : all[i] = all[i - 1] \o GroupOf(keys[i])

LEMMA GroupTyped ==
  ASSUME Grouped(conversations), NEW id
  PROVE  GroupOf(id) \in Seq(Ids) /\ Range(GroupOf(id)) \subseteq NamedIds
<1>1. CASE Known(id)
  <2>1. conversations[id].group \in Seq(Ids)
    BY <1>1 DEF Known, Grouped, Entry
  <2>2. Range(conversations[id].group) \subseteq DOMAIN conversations
    BY <1>1 DEF Known, Grouped
  <2> QED
    BY <1>1, <2>1, <2>2 DEF GroupOf, Grouped
<1>2. CASE ~Known(id)
  BY <1>2 DEF GroupOf, Range
<1> QED
  BY <1>1, <1>2

LEMMA SiblingsRun ==
  ASSUME Grouped(conversations), NEW keys \in Seq(NamedIds), NEW n \in Nat, n = Len(keys)
  PROVE  \E all : GroupRun(all, keys, n) /\ WithSiblings(keys) = Keys(all[n])
<1> DEFINE S == Seq(Ids)
           Step(all, i) == all \o GroupOf(keys[i])
           step == [x \in S \X (1 .. n) |-> Step(x[1], x[2])]
           Runs(f) == f = [i \in 0 .. n |-> IF i = 0 THEN keys ELSE Step(f[i - 1], i)]
           all == CHOOSE f : Runs(f)
<1>1. keys \in S
  BY DEF NamedIds
<1>2. ASSUME NEW s \in S, NEW i \in 1 .. n PROVE Step(s, i) \in S
  <2>1. GroupOf(keys[i]) \in Seq(Ids)
    BY GroupTyped
  <2> QED
    BY <1>2, <2>1
<1>3. IsStep(step, n, S)
  <2> HIDE DEF S, Step
  <2> QED
    BY <1>2 DEF IsStep
<1>4. PICK f : IsRun(f, step, keys, n, S)
  <2> HIDE DEF step, S
  <2> QED
    BY <1>1, <1>3, LoopRuns
<1>5. f \in [0 .. n -> S] /\ f[0] = keys /\ \A i \in 1 .. n : f[i] = Step(f[i - 1], i)
  <2>1. f \in [0 .. n -> S] /\ f[0] = keys
    BY <1>4 DEF IsRun
  <2> SUFFICES ASSUME NEW i \in 1 .. n PROVE f[i] = Step(f[i - 1], i)
    BY <2>1
  <2>2. i - 1 \in 0 .. n /\ f[i - 1] \in S
    <3> HIDE DEF S
    <3> QED
      BY <2>1
  <2>3. f[i] = step[<<f[i - 1], i>>]
    <3> HIDE DEF S, step
    <3> QED
      BY <1>4 DEF IsRun
  <2> HIDE DEF Step, S
  <2> QED
    BY <2>2, <2>3
<1>6. Runs(f)
  <2> HIDE DEF Step, S
  <2> QED
    BY <1>5
<1>7. Runs(all)
  <2> HIDE DEF Runs
  <2> QED
    BY <1>6
<1>8. WithSiblings(keys) = Keys(all[n])
  BY DEF WithSiblings
<1>9. all[0] = keys /\ \A i \in 1 .. n : all[i] = Step(all[i - 1], i)
  <2> HIDE DEF Step, all
  <2> QED
    BY <1>7
<1> HIDE DEF all
<1> QED
  BY <1>8, <1>9 DEF GroupRun

LEMMA RangeConcatenated ==
  ASSUME NEW S, NEW s \in Seq(S), NEW t \in Seq(S)
  PROVE  s \o t \in Seq(S) /\ Range(s \o t) = Range(s) \cup Range(t)
<1>1. PICK m \in Nat, n \in Nat : m = Len(s) /\ n = Len(t)
  OBVIOUS
<1>2. /\ DOMAIN s = 1 .. m /\ DOMAIN t = 1 .. n /\ DOMAIN (s \o t) = 1 .. (m + n)
      /\ \A i \in 1 .. m : i \in 1 .. (m + n) /\ (s \o t)[i] = s[i]
      /\ \A i \in 1 .. n : m + i \in 1 .. (m + n) /\ (s \o t)[m + i] = t[i]
      /\ \A i \in 1 .. (m + n) : i \in 1 .. m \/ (i - m \in 1 .. n /\ (s \o t)[i] = t[i - m])
  BY <1>1
<1>3. ASSUME NEW i \in DOMAIN (s \o t) PROVE (s \o t)[i] \in Range(s) \cup Range(t)
  BY <1>2, <1>3 DEF Range
<1>4. ASSUME NEW i \in DOMAIN s PROVE s[i] \in Range(s \o t)
  BY <1>2, <1>4 DEF Range
<1>5. ASSUME NEW i \in DOMAIN t PROVE t[i] \in Range(s \o t)
  <2>1. m + i \in DOMAIN (s \o t) /\ (s \o t)[m + i] = t[i]
    BY <1>2, <1>5
  <2> QED
    BY <2>1 DEF Range
<1>6. s \o t \in Seq(S)
  OBVIOUS
<1> QED
  BY <1>3, <1>4, <1>5, <1>6 DEF Range

LEMMA SiblingsReached ==
  ASSUME Grouped(conversations), NEW keys \in Seq(NamedIds)
  PROVE  WithSiblings(keys) \in Seq(NamedIds) /\ Range(WithSiblings(keys)) = Siblings(keys)
<1>0. PICK n \in Nat : n = Len(keys) /\ DOMAIN keys = 1 .. n
  OBVIOUS
<1>1. PICK all : GroupRun(all, keys, n) /\ WithSiblings(keys) = Keys(all[n])
  BY <1>0, SiblingsRun
<1> DEFINE Upto(k) == Range(keys) \cup UNION {Range(GroupOf(keys[i])) : i \in 1 .. k}
           Good(s, k) == s \in Seq(Ids) /\ Range(s) = Upto(k)
           Reached == {k \in Nat : k <= n => Good(all[k], k)}
<1>2. 0 \in Reached
  <2>1. keys \in Seq(Ids) /\ Upto(0) = Range(keys)
    BY DEF NamedIds
  <2> QED
    BY <1>1, <2>1 DEF GroupRun
<1>3. \A k \in Nat : k \in Reached => k + 1 \in Reached
  <2> SUFFICES ASSUME NEW k \in Nat, k \in Reached, k + 1 <= n PROVE Good(all[k + 1], k + 1)
    <3> HIDE DEF Good
    <3> QED
      OBVIOUS
  <2>1. k + 1 \in 1 .. n /\ (k + 1) - 1 = k
    OBVIOUS
  <2>2. PICK s : s = all[k] /\ Good(s, k)
    <3> HIDE DEF Good
    <3> QED
      BY <2>1
  <2>3. all[k + 1] = s \o GroupOf(keys[k + 1])
    BY <1>1, <2>1, <2>2 DEF GroupRun
  <2>4. Upto(k + 1) = Upto(k) \cup Range(GroupOf(keys[k + 1]))
    <3>1. 1 .. (k + 1) = (1 .. k) \cup {k + 1}
      OBVIOUS
    <3> QED
      BY <3>1
  <2>5. GroupOf(keys[k + 1]) \in Seq(Ids)
    BY GroupTyped
  <2> HIDE DEF Upto
  <2>6. s \in Seq(Ids)
    BY <2>2
  <2>7. /\ s \o GroupOf(keys[k + 1]) \in Seq(Ids)
        /\ Range(s \o GroupOf(keys[k + 1])) = Range(s) \cup Range(GroupOf(keys[k + 1]))
    BY <2>5, <2>6, RangeConcatenated
  <2> QED
    BY <2>2, <2>3, <2>4, <2>7
<1>4. Nat \subseteq Reached
  <2> HIDE DEF Reached
  <2> QED
    BY <1>2, <1>3, NatInductSet
<1>5. Good(all[n], n)
  <2> HIDE DEF Good
  <2> QED
    BY <1>0, <1>4
<1>6. Upto(n) = Siblings(keys)
  <2>1. Range(keys) = {keys[i] : i \in 1 .. n}
    BY <1>0 DEF Range
  <2> QED
    BY <2>1 DEF Siblings
<1>7. Blank \notin Siblings(keys)
  <2>1. Range(keys) \subseteq NamedIds
    BY <1>0 DEF Range
  <2> QED
    BY <2>1, GroupTyped DEF Siblings, NamedIds
<1> HIDE DEF Upto
<1>8. WithSiblings(keys) \in Seq(NamedIds) /\ Range(WithSiblings(keys)) = Range(all[n]) \ {Blank}
  BY <1>1, <1>5, KeysNames
<1> QED
  BY <1>5, <1>6, <1>7, <1>8

\* What a turn reaches, it reaches whole.
LEMMA ReachedWhole ==
  ASSUME Grouped(conversations), NEW keys \in Seq(NamedIds),
         NEW id \in DOMAIN conversations, id \in Siblings(keys)
  PROVE  Range(conversations[id].group) \subseteq Siblings(keys)
<1>1. CASE id \in Range(keys)
  BY <1>1 DEF Siblings, GroupOf, Known
<1>2. CASE id \notin Range(keys)
  <2>1. PICK x \in Range(keys) : id \in Range(GroupOf(x))
    BY <1>2 DEF Siblings
  <2>2. x \in DOMAIN conversations /\ GroupOf(x) = conversations[x].group
    BY <2>1 DEF GroupOf, Known, Range
  <2>3. conversations[id] = conversations[x]
    BY <2>1, <2>2 DEF Grouped
  <2> QED
    BY <2>1, <2>2, <2>3 DEF Siblings
<1> QED
  BY <1>1, <1>2

--------------------------------------------------------------------------------
\* What is filed anew is one conversation, and splits no other.
LEMMA FiledKeeps ==
  ASSUME ConversationsKnow, conversationSeq < MaxTurns, NEW ids \in Seq(NamedIds), NEW kept \in Carried,
         Range(ids) # {}
  PROVE  /\ Grouped(Filed(WithSiblings(ids), kept))
         /\ \A id \in DOMAIN Filed(WithSiblings(ids), kept) :
              Filed(WithSiblings(ids), kept)[id].seq <= conversationSeq + 1
<1> DEFINE keys == WithSiblings(ids)
           last == IF Len(keys) > MaxAliases THEN MaxAliases ELSE Len(keys)
           group == SubSeq(keys, 1, last)
           entry == [group |-> group, kept |-> kept, seq |-> conversationSeq + 1]
           rest == LeftAlone(Range(keys))
           filed == [id \in DOMAIN rest \cup Range(group) |-> IF id \in DOMAIN rest THEN rest[id] ELSE entry]
<1>0. Filed(keys, kept) = filed
  BY DEF Filed
<1>1. /\ Grouped(conversations) /\ conversationSeq + 1 \in 1 .. MaxTurns /\ conversationSeq \in Nat
      /\ \A id \in DOMAIN conversations : conversations[id].seq <= conversationSeq
  BY ConversationsAssumption DEF ConversationsKnow
<1>2. keys \in Seq(NamedIds) /\ Range(keys) = Siblings(ids)
  BY <1>1, SiblingsReached
<1> HIDE DEF keys
<1>3. group \in Seq(NamedIds) /\ Range(group) \subseteq Range(keys) /\ Len(group) <= MaxAliases
      /\ Range(group) # {}
  <2>1. Range(keys) # {}
    BY <1>2 DEF Siblings
  <2>2. PICK n \in Nat : n = Len(keys) /\ DOMAIN keys = 1 .. n /\ n > 0
    BY <1>2, <2>1 DEF Range
  <2>3. last \in 1 .. n /\ last <= MaxAliases
    BY <2>2, ConversationsAssumption
  <2> HIDE DEF last
  <2>4. /\ group \in Seq(NamedIds) /\ Len(group) = last /\ DOMAIN group = 1 .. last
        /\ \A i \in 1 .. last : i \in DOMAIN keys /\ group[i] = keys[i]
    BY <1>2, <2>2, <2>3
  <2> HIDE DEF group
  <2>5. Range(group) \subseteq Range(keys) /\ Range(group) # {}
    BY <2>3, <2>4 DEF Range
  <2> QED
    BY <2>3, <2>4, <2>5
<1> HIDE DEF last, group
<1>4. entry \in Entry
  <2>1. group \in Seq(Ids)
    BY <1>3 DEF NamedIds
  <2> QED
    BY <1>1, <2>1 DEF Entry
<1>5. Grouped(rest) /\ DOMAIN rest = DOMAIN conversations \ Range(keys)
      /\ \A id \in DOMAIN rest : rest[id] = conversations[id] /\ rest[id].seq <= conversationSeq
  <2>1. \A id \in DOMAIN conversations \cap Range(keys) :
          Range(conversations[id].group) \subseteq Range(keys)
    BY <1>1, <1>2, ReachedWhole
  <2>2. rest = Restrict(conversations, DOMAIN conversations \ Range(keys))
    BY DEF LeftAlone
  <2>3. Grouped(rest)
    BY <1>1, <2>1, <2>2, WholeLeftOut
  <2> QED
    BY <1>1, <2>2, <2>3 DEF Restrict
<1>6. DOMAIN rest \cap Range(group) = {}
  BY <1>3, <1>5
<1> HIDE DEF rest, entry
<1>7. /\ DOMAIN filed = DOMAIN rest \cup Range(group)
      /\ \A id \in DOMAIN rest : filed[id] = rest[id]
      /\ \A id \in Range(group) : filed[id] = entry
  BY <1>6
<1>8. entry.group = group /\ entry.seq = conversationSeq + 1
  BY DEF entry
<1> HIDE DEF filed
<1>9. ASSUME NEW id \in DOMAIN rest
      PROVE  /\ {x \in DOMAIN filed : filed[x].seq = filed[id].seq} = Range(filed[id].group)
             /\ Len(filed[id].group) <= MaxAliases
             /\ \A x \in Range(filed[id].group) : filed[x] = filed[id]
             /\ filed[id] \in Entry /\ id \in NamedIds /\ filed[id].seq <= conversationSeq + 1
  <2>1. filed[id] = rest[id] /\ rest[id].seq # entry.seq /\ rest[id].seq \in Int
    BY <1>1, <1>5, <1>7, <1>8 DEF Grouped, Entry
  <2>2. {x \in DOMAIN filed : filed[x].seq = filed[id].seq} = {x \in DOMAIN rest : rest[x].seq = rest[id].seq}
    BY <1>7, <2>1
  <2>3. /\ {x \in DOMAIN rest : rest[x].seq = rest[id].seq} = Range(rest[id].group)
        /\ Len(rest[id].group) <= MaxAliases /\ rest[id] \in Entry /\ id \in NamedIds
        /\ \A x \in Range(rest[id].group) : rest[x] = rest[id]
    BY <1>5 DEF Grouped
  <2>4. \A x \in Range(rest[id].group) : x \in DOMAIN rest
    BY <2>3
  <2>5. rest[id].seq <= conversationSeq + 1
    BY <1>1, <1>5, <2>1
  <2> QED
    BY <1>7, <2>1, <2>2, <2>3, <2>4, <2>5
<1>10. ASSUME NEW id \in Range(group)
       PROVE  /\ {x \in DOMAIN filed : filed[x].seq = filed[id].seq} = Range(filed[id].group)
              /\ Len(filed[id].group) <= MaxAliases
              /\ \A x \in Range(filed[id].group) : filed[x] = filed[id]
              /\ filed[id] \in Entry /\ id \in NamedIds /\ filed[id].seq <= conversationSeq + 1
  <2>1. filed[id] = entry
    BY <1>7
  <2>2. \A x \in DOMAIN rest : filed[x].seq # entry.seq
    BY <1>1, <1>5, <1>7, <1>8 DEF Grouped, Entry
  <2>3. {x \in DOMAIN filed : filed[x].seq = entry.seq} = Range(group)
    BY <1>7, <2>2
  <2>4. id \in NamedIds
    BY <1>3 DEF Range
  <2>5. entry.seq <= conversationSeq + 1
    BY <1>1, <1>8
  <2> QED
    BY <1>3, <1>4, <1>7, <1>8, <2>1, <2>3, <2>4, <2>5
<1>11. filed = [id \in DOMAIN filed |-> filed[id]]
  BY DEF filed
<1>12. Grouped(filed) /\ \A id \in DOMAIN filed : filed[id].seq <= conversationSeq + 1
  <2>1. \A id \in DOMAIN filed : id \in DOMAIN rest \/ id \in Range(group)
    BY <1>7
  <2>2. filed \in [DOMAIN filed -> Entry]
    BY <1>9, <1>10, <1>11, <2>1
  <2> QED
    BY <1>9, <1>10, <2>1, <2>2 DEF Grouped
<1> QED
  BY <1>0, <1>12 DEF keys

\* What a turn hands over names its ids.
LEMMA TurnNames ==
  ASSUME NEW put \in Ids, NEW got \in Ids, Keys(TurnIds(put, got)) # <<>>
  PROVE  /\ Keys(TurnIds(put, got)) \in Seq(NamedIds)
         /\ Range(Keys(TurnIds(put, got))) # {}
<1>1. TurnIds(put, got) \in Seq(Ids)
  BY DEF TurnIds
<1>2. Keys(TurnIds(put, got)) \in Seq(NamedIds)
  BY <1>1, KeysNames
<1> DEFINE keys == Keys(TurnIds(put, got))
<1>3. 1 \in DOMAIN keys
  <2> HIDE DEF keys
  <2>1. keys \in Seq(NamedIds) /\ keys # <<>>
    BY <1>2 DEF keys
  <2> QED
    BY <2>1
<1> QED
  BY <1>2, <1>3 DEF Range

LEMMA RememberKeeps ==
  ASSUME ConversationsKnow, NEW put \in Ids, NEW got \in Ids, NEW kept \in Carried,
         RememberConversation(TurnIds(put, got), kept)
  PROVE  ConversationsKnow'
<1> DEFINE ids == Keys(TurnIds(put, got))
           filed == Filed(WithSiblings(ids), kept)
<1>1. ids \in Seq(NamedIds) /\ Range(ids) # {}
  BY TurnNames DEF RememberConversation
<1>2. /\ conversationSeq < MaxTurns /\ conversationSeq' = conversationSeq + 1
      /\ conversations' = Evicted(filed)
  BY DEF RememberConversation
<1>3. conversationSeq \in 0 .. MaxTurns
  BY DEF ConversationsKnow
<1>4. Grouped(filed) /\ \A id \in DOMAIN filed : filed[id].seq <= conversationSeq + 1
  <2> HIDE DEF ids
  <2> QED
    BY <1>1, <1>2, FiledKeeps
<1> HIDE DEF filed
<1>5. /\ Grouped(conversations') /\ Cardinality(Seqs(conversations')) <= MaxRemembered
      /\ \A id \in DOMAIN conversations' : id \in DOMAIN filed /\ conversations'[id] = filed[id]
  BY <1>2, <1>4, EvictedKeeps
<1>6. conversationSeq' \in 0 .. MaxTurns
  BY <1>2, <1>3, ConversationsAssumption
<1>7. \A id \in DOMAIN conversations' : conversations'[id].seq <= conversationSeq'
  BY <1>2, <1>4, <1>5
<1>8. Grouped(conversations)' /\ (Cardinality(Seqs(conversations)) <= MaxRemembered)'
  BY <1>5 DEF Grouped, Seqs
<1> QED
  BY <1>6, <1>7, <1>8 DEF ConversationsKnow

LEMMA ForgetKeeps ==
  ASSUME ConversationsKnow, NEW put \in Ids, NEW got \in Ids,
         ForgetConversation(TurnIds(put, got))
  PROVE  ConversationsKnow'
<1> DEFINE ids == Keys(TurnIds(put, got))
           gone == Range(WithSiblings(ids))
<1>0. Grouped(conversations) /\ conversationSeq \in 0 .. MaxTurns
      /\ Cardinality(Seqs(conversations)) <= MaxRemembered
      /\ \A id \in DOMAIN conversations : conversations[id].seq <= conversationSeq
  BY DEF ConversationsKnow
<1>1. ids \in Seq(NamedIds)
  BY TurnNames DEF ForgetConversation
<1>2. gone = Siblings(ids)
  <2> HIDE DEF ids
  <2> QED
    BY <1>0, <1>1, SiblingsReached
<1>3. conversations' = Restrict(conversations, DOMAIN conversations \ gone) /\ UNCHANGED conversationSeq
  BY DEF ForgetConversation, LeftAlone
<1> HIDE DEF gone
<1>4. \A id \in DOMAIN conversations \cap gone : Range(conversations[id].group) \subseteq gone
  <2> HIDE DEF ids
  <2> QED
    BY <1>0, <1>1, <1>2, ReachedWhole
<1>5. Grouped(conversations')
  BY <1>0, <1>3, <1>4, WholeLeftOut
<1>6. \A id \in DOMAIN conversations' : id \in DOMAIN conversations /\ conversations'[id] = conversations[id]
  BY <1>3 DEF Restrict
<1>7. Cardinality(Seqs(conversations')) <= MaxRemembered
  <2>1. Seqs(conversations') \subseteq Seqs(conversations)
    BY <1>6 DEF Seqs
  <2>2. IsFiniteSet(Seqs(conversations)) /\ Cardinality(Seqs(conversations)) \in Nat
    BY <1>0, SeqsFinite
  <2>3. /\ Cardinality(Seqs(conversations')) <= Cardinality(Seqs(conversations))
        /\ Cardinality(Seqs(conversations')) \in Nat
    BY <2>1, <2>2, FS_Subset, FS_CardinalityType
  <2> QED
    BY <1>0, <2>2, <2>3, ConversationsAssumption
<1>8. Grouped(conversations)' /\ (Cardinality(Seqs(conversations)) <= MaxRemembered)'
  BY <1>5, <1>7 DEF Grouped, Seqs
<1>9. (\A id \in DOMAIN conversations : conversations[id].seq <= conversationSeq)'
  BY <1>0, <1>3, <1>6
<1> QED
  BY <1>0, <1>3, <1>8, <1>9 DEF ConversationsKnow

LEMMA ContinueKeeps ==
  ASSUME ConversationsKnow, NEW id \in Ids, ContinueConversation(id)
  PROVE  ConversationsKnow'
<1> DEFINE now == conversationSeq + 1
           c == conversations
           n == conversations'
           seq == conversations[id].seq
<1>0. /\ Grouped(c) /\ conversationSeq \in 0 .. MaxTurns /\ Cardinality(Seqs(c)) <= MaxRemembered
      /\ \A x \in DOMAIN c : c[x].seq <= conversationSeq /\ c[x].seq \in Int /\ c[x].seq # now
      /\ id \in DOMAIN c /\ conversationSeq' = now /\ now \in 1 .. MaxTurns /\ now \in 0 .. MaxTurns
  <2>1. \A x \in DOMAIN c : c[x].seq \in 1 .. MaxTurns
    BY DEF ConversationsKnow, Grouped, Entry
  <2> QED
    BY <2>1, ConversationsAssumption DEF ConversationsKnow, ContinueConversation, Known
<1>1. /\ DOMAIN n = DOMAIN c
      /\ \A x \in DOMAIN c :
           n[x] = IF c[x].seq = seq THEN [c[x] EXCEPT !.seq = now] ELSE c[x]
      /\ n = [x \in DOMAIN n |-> n[x]]
  BY DEF ContinueConversation
<1>2. ASSUME NEW x \in DOMAIN c
      PROVE  /\ n[x] \in Entry /\ n[x].group = c[x].group
             /\ n[x].seq = (IF c[x].seq = seq THEN now ELSE c[x].seq)
  BY <1>0, <1>1, SMTT(30) DEF Grouped, Entry
<1>3. ASSUME NEW x \in DOMAIN c
      PROVE  /\ {y \in DOMAIN n : n[y].seq = n[x].seq} = Range(n[x].group)
             /\ Len(n[x].group) <= MaxAliases
             /\ \A y \in Range(n[x].group) : n[y] = n[x]
  <2>1. {y \in DOMAIN c : c[y].seq = c[x].seq} = Range(c[x].group) /\ Len(c[x].group) <= MaxAliases
        /\ \A y \in Range(c[x].group) : c[y] = c[x]
    BY <1>0 DEF Grouped
  <2>2. \A y \in DOMAIN c : n[y].seq = n[x].seq <=> c[y].seq = c[x].seq
    BY <1>0, <1>2
  <2>3. {y \in DOMAIN n : n[y].seq = n[x].seq} = Range(n[x].group)
    BY <1>1, <1>2, <2>1, <2>2
  <2>4. \A y \in Range(c[x].group) : y \in DOMAIN c /\ c[y] = c[x]
    BY <2>1
  <2>5. \A y \in Range(n[x].group) : n[y] = n[x]
    BY <1>1, <1>2, <2>4
  <2> QED
    BY <1>2, <2>1, <2>3, <2>5
<1>4. n \in [DOMAIN n -> Entry] /\ DOMAIN n \subseteq NamedIds
  BY <1>0, <1>1, <1>2 DEF Grouped
<1>5. Grouped(n)
  BY <1>1, <1>3, <1>4 DEF Grouped
<1>6. \A x \in DOMAIN n : n[x].seq <= now
  BY <1>0, <1>1, <1>2
<1>7. Cardinality(Seqs(n)) <= MaxRemembered
  <2> DEFINE S == Seqs(c)
  <2>1. IsFiniteSet(S) /\ Cardinality(S) \in Nat /\ seq \in S
    BY <1>0, SeqsFinite DEF Seqs
  <2>2. Seqs(n) \subseteq (S \ {seq}) \cup {now}
    <3> SUFFICES ASSUME NEW x \in DOMAIN c PROVE n[x].seq \in (S \ {seq}) \cup {now}
      BY <1>1 DEF Seqs
    <3> QED
      BY <1>2 DEF Seqs
  <2> HIDE DEF S
  <2>3. IsFiniteSet(S \ {seq}) /\ Cardinality(S \ {seq}) = Cardinality(S) - 1
    BY <2>1, FS_RemoveElement
  <2> DEFINE R == S \ {seq}
             T == R \cup {now}
  <2>4. IsFiniteSet(T) /\ Cardinality(T) <= Cardinality(S)
    <3>1. IsFiniteSet(R) /\ Cardinality(R) = Cardinality(S) - 1
      BY <2>3
    <3> HIDE DEF R
    <3>2. IsFiniteSet(R \cup {now})
          /\ Cardinality(R \cup {now}) = IF now \in R THEN Cardinality(R) ELSE Cardinality(R) + 1
      BY <3>1, FS_AddElement
    <3> QED
      BY <2>1, <3>1, <3>2
  <2>5. Seqs(n) \subseteq T
    BY <2>2
  <2> HIDE DEF T, R
  <2>6. IsFiniteSet(Seqs(n)) /\ Cardinality(Seqs(n)) <= Cardinality(T)
    BY <2>4, <2>5, FS_Subset
  <2>7. Cardinality(Seqs(n)) \in Nat /\ Cardinality(T) \in Nat
    BY <2>4, <2>6, FS_CardinalityType
  <2> QED
    BY <1>0, <2>1, <2>4, <2>6, <2>7, ConversationsAssumption DEF S
<1>8. Grouped(conversations)' /\ (Cardinality(Seqs(conversations)) <= MaxRemembered)'
  BY <1>5, <1>7 DEF Grouped, Seqs
<1>9. (\A x \in DOMAIN conversations : conversations[x].seq <= conversationSeq)'
  BY <1>0, <1>6
<1> QED
  BY <1>0, <1>8, <1>9 DEF ConversationsKnow

LEMMA ConversationsStepKeeps == ConversationsKnow /\ ConversationsNext => ConversationsKnow'
BY RememberKeeps, ForgetKeeps, ContinueKeeps DEF ConversationsNext

LEMMA ConversationsBeginKnowing == ConversationsInit => ConversationsKnow
<1> SUFFICES ASSUME ConversationsInit PROVE ConversationsKnow
  OBVIOUS
<1>1. conversations = <<>> /\ conversationSeq = 0 /\ DOMAIN <<>> = {}
  BY DEF ConversationsInit
<1>2. <<>> \in [{} -> Entry]
  OBVIOUS
<1>3. Grouped(conversations)
  BY <1>1, <1>2 DEF Grouped
<1>4. Seqs(conversations) = {} /\ Cardinality({}) = 0
  BY <1>1, FS_EmptySet DEF Seqs
<1> QED
  BY <1>1, <1>3, <1>4, ConversationsAssumption DEF ConversationsKnow

LEMMA ConversationsWhole == ConversationsKnow => WholeConversations
<1> SUFFICES ASSUME ConversationsKnow PROVE WholeConversations
  OBVIOUS
<1>1. Cardinality(Range(conversations)) <= MaxRemembered
  BY FewConversations DEF ConversationsKnow
<1> QED
  BY <1>1 DEF ConversationsKnow, Grouped, WholeConversations, NamedIds

--------------------------------------------------------------------------------
(***************************************************************************)
(* The streams.                                                            *)
(***************************************************************************)
\* A queue of source events: those of the kind listened to, which are not 0,
\* are the numbers from due to top, in order.
Numbered(queue, due, top) ==
  /\ due <= top + 1
  /\ \A i \in DOMAIN queue : queue[i] # 0 => due <= queue[i] /\ queue[i] <= top
  /\ \A i, j \in DOMAIN queue : i < j /\ queue[i] # 0 /\ queue[j] # 0 => queue[i] < queue[j]
  /\ \A n \in due .. top : \E i \in DOMAIN queue : queue[i] = n

\* The event the collector holds, and the one it takes next.
Holds == collector.at \in {"judging", "holding"} /\ collector.event # 0
Due   == IF Holds THEN delivered + 2 ELSE delivered + 1

\* While the collector is at work it passes on all there is: the event in its
\* hand is the next one, and those behind it are in the source, but for one
\* that the source had no room for.
CollectorKnows ==
  collector.at \in {"select", "judging", "holding"} =>
    /\ Holds => collector.event = delivered + 1
    /\ collector.at = "holding" => collector.event # 0
    /\ wanted > 0 => delivered < wanted
    /\ \E top \in {heard, heard - 1} :
         /\ Numbered(source.queue, Due, top)
         /\ source.err = "none" => top = heard

\* Why it ends is what has happened.
EndKnows ==
  /\ delivered <= heard
  /\ source.open => source.err = "none"
  /\ ~stream.closed => stream.err = "none"
  /\ collector.at = "ending" /\ collector.why = "none" => wanted > 0 /\ delivered = wanted
  /\ collector.at = "ending" /\ collector.why = "overflow" => heard > delivered

ListenKnows == ListenTypeOK /\ CollectorKnows /\ EndKnows /\ StreamTellsTruth

\* The types of what has parts.
SourceType == [queue : Seq(0 .. MaxHeard), open : BOOLEAN, err : {"none", "overflow"}]
StreamType == [queue : Seq(1 .. MaxHeard), closed : BOOLEAN, err : Reasons, byCaller : BOOLEAN]
CollectorType == [at : {"select", "judging", "holding", "ending", "ended"},
                  event : 0 .. MaxHeard, why : Reasons]

--------------------------------------------------------------------------------
\* What one more event, or one of another kind, does to a numbered queue
\* (eventStream.publish).
LEMMA NumberedAppend ==
  ASSUME NEW queue \in Seq(Nat), NEW due \in Nat \ {0}, NEW top \in Int, Numbered(queue, due, top)
  PROVE  /\ Numbered(Append(queue, 0), due, top)
         /\ Numbered(Append(queue, top + 1), due, top + 1)
<1> DEFINE n == Len(queue)
<1>0. n \in Nat /\ DOMAIN queue = 1 .. n /\ top + 1 > 0
  BY DEF Numbered
<1>1. ASSUME NEW e \in Nat
      PROVE  /\ DOMAIN Append(queue, e) = 1 .. (n + 1)
             /\ Append(queue, e)[n + 1] = e
             /\ \A i \in 1 .. n : Append(queue, e)[i] = queue[i]
  BY <1>1
<1>2. Numbered(Append(queue, 0), due, top)
  BY <1>0, <1>1 DEF Numbered
<1>3. Numbered(Append(queue, top + 1), due, top + 1)
  <2> DEFINE longer == Append(queue, top + 1)
  <2>1. top + 1 \in Nat
    BY <1>0
  <2>2. /\ DOMAIN longer = 1 .. (n + 1) /\ longer[n + 1] = top + 1
        /\ \A i \in 1 .. n : longer[i] = queue[i]
    BY <1>1, <2>1
  <2> HIDE DEF longer
  <2>3. \A i \in DOMAIN longer : longer[i] # 0 => due <= longer[i] /\ longer[i] <= top + 1
    BY <1>0, <2>2, SMTT(30) DEF Numbered
  <2>4. \A i, j \in DOMAIN longer : i < j /\ longer[i] # 0 /\ longer[j] # 0 => longer[i] < longer[j]
    <3> SUFFICES ASSUME NEW i \in DOMAIN longer, NEW j \in DOMAIN longer, i < j,
                        longer[i] # 0, longer[j] # 0
                 PROVE  longer[i] < longer[j]
      OBVIOUS
    <3>1. i \in 1 .. n /\ longer[i] = queue[i] /\ queue[i] \in Nat
      BY <1>0, <2>2
    <3>2. CASE j \in 1 .. n
      BY <1>0, <2>2, <3>1, <3>2 DEF Numbered
    <3>3. CASE j = n + 1
      BY <1>0, <2>2, <3>1, <3>3 DEF Numbered
    <3> QED
      BY <1>0, <2>2, <3>2, <3>3
  <2>5. \A m \in due .. (top + 1) : \E i \in DOMAIN longer : longer[i] = m
    <3> SUFFICES ASSUME NEW m \in due .. (top + 1) PROVE \E i \in DOMAIN longer : longer[i] = m
      OBVIOUS
    <3>1. CASE m = top + 1
      BY <1>0, <2>2, <3>1
    <3>2. CASE m \in due .. top
      BY <1>0, <2>2, <3>2 DEF Numbered
    <3> QED
      BY <3>1, <3>2
  <2>6. due <= top + 1 + 1
    BY <1>0 DEF Numbered
  <2>7. Numbered(longer, due, top + 1)
    BY <2>3, <2>4, <2>5, <2>6 DEF Numbered
  <2> QED
    BY <2>7 DEF longer
<1> QED
  BY <1>2, <1>3

\* What is taken from a numbered queue is nothing of the kind, or what is due.
LEMMA NumberedTail ==
  ASSUME NEW queue \in Seq(Nat), NEW due \in Nat \ {0}, NEW top \in Int, Numbered(queue, due, top),
         queue # <<>>
  PROVE  /\ Head(queue) = 0 => Numbered(Tail(queue), due, top)
         /\ Head(queue) # 0 => Head(queue) = due /\ Numbered(Tail(queue), due + 1, top)
<1> DEFINE n == Len(queue)
           rest == Tail(queue)
<1>0. n \in Nat \ {0} /\ DOMAIN queue = 1 .. n
  OBVIOUS
<1>1. DOMAIN rest = 1 .. (n - 1) /\ \A i \in 1 .. (n - 1) : rest[i] = queue[i + 1]
  BY <1>0
<1>2. Head(queue) = queue[1]
  OBVIOUS
<1>3. \A i \in DOMAIN queue : queue[i] \in Nat
  OBVIOUS
<1> HIDE DEF rest, n
<1>4. \A i \in DOMAIN rest : i + 1 \in DOMAIN queue /\ rest[i] = queue[i + 1]
  BY <1>0, <1>1
<1>5. \A i, j \in DOMAIN rest : i < j /\ rest[i] # 0 /\ rest[j] # 0 => rest[i] < rest[j]
  <2> SUFFICES ASSUME NEW i \in DOMAIN rest, NEW j \in DOMAIN rest, i < j, rest[i] # 0, rest[j] # 0
               PROVE  rest[i] < rest[j]
    OBVIOUS
  <2>1. i + 1 < j + 1
    BY <1>0, <1>1
  <2> QED
    BY <1>4, <2>1 DEF Numbered
<1>6. \A k \in DOMAIN queue \ {1} : k - 1 \in DOMAIN rest /\ rest[k - 1] = queue[k]
  BY <1>0, <1>1
<1>7. CASE queue[1] = 0
  <2>1. \A m \in due .. top : \E i \in DOMAIN rest : rest[i] = m
    <3> SUFFICES ASSUME NEW m \in due .. top PROVE \E i \in DOMAIN rest : rest[i] = m
      OBVIOUS
    <3>1. PICK k \in DOMAIN queue : queue[k] = m
      BY DEF Numbered
    <3>2. k # 1
      BY <1>7, <3>1
    <3> QED
      BY <1>6, <3>1, <3>2
  <2>2. \A i \in DOMAIN rest : rest[i] # 0 => due <= rest[i] /\ rest[i] <= top
    BY <1>4 DEF Numbered
  <2> QED
    BY <1>2, <1>5, <1>7, <2>1, <2>2 DEF Numbered, rest
<1>8. CASE queue[1] # 0
  <2>0. 1 \in DOMAIN queue /\ due <= queue[1] /\ queue[1] <= top
    BY <1>0, <1>8 DEF Numbered
  <2>1. queue[1] = due
    <3>1. due \in due .. top
      BY <1>3, <2>0
    <3>2. PICK k \in DOMAIN queue : queue[k] = due
      BY <3>1 DEF Numbered
    <3>3. k # 1 => queue[1] < queue[k]
      BY <1>0, <1>8, <2>0, <3>2, SMTT(30) DEF Numbered
    <3> QED
      BY <1>3, <2>0, <3>2, <3>3
  <2>2. \A i \in DOMAIN rest : rest[i] # 0 => due + 1 <= rest[i] /\ rest[i] <= top
    <3> SUFFICES ASSUME NEW i \in DOMAIN rest, rest[i] # 0
                 PROVE  due + 1 <= rest[i] /\ rest[i] <= top
      OBVIOUS
    <3>1. 1 < i + 1
      BY <1>1, <1>0
    <3>2. queue[1] < queue[i + 1] /\ queue[i + 1] <= top
      BY <1>4, <1>8, <2>0, <3>1 DEF Numbered
    <3> QED
      BY <1>3, <1>4, <2>1, <3>2
  <2>3. \A m \in (due + 1) .. top : \E i \in DOMAIN rest : rest[i] = m
    <3> SUFFICES ASSUME NEW m \in (due + 1) .. top PROVE \E i \in DOMAIN rest : rest[i] = m
      OBVIOUS
    <3>1. PICK k \in DOMAIN queue : queue[k] = m
      BY DEF Numbered
    <3>2. k # 1
      BY <2>1, <3>1
    <3> QED
      BY <1>6, <3>1, <3>2
  <2>4. due + 1 <= top + 1
    BY <1>3, <2>0
  <2> QED
    BY <1>2, <1>5, <1>8, <2>1, <2>2, <2>3, <2>4 DEF Numbered, rest
<1> QED
  BY <1>7, <1>8
--------------------------------------------------------------------------------
LEMMA ListenTyped ==
  ASSUME ListenKnows
  PROVE  /\ source \in SourceType /\ stream \in StreamType /\ collector \in CollectorType
         /\ source.queue \in Seq(Nat)
         /\ MaxHeard \in Nat /\ heard \in 0 .. MaxHeard /\ delivered \in 0 .. MaxHeard /\ delivered <= heard
         /\ wanted \in Nat /\ Due \in Nat \ {0}
BY ListenerAssumption DEF ListenKnows, ListenTypeOK, SourceType, StreamType, CollectorType, EndKnows, Due

\* Ending the stream, by whoever is first (stream.finish): the reason is what
\* has happened, and the source is shut.
LEMMA FinishKeeps ==
  ASSUME ListenKnows, NEW err \in Reasons, StreamFinish(err),
         UNCHANGED <<asked, reachable, delivered, heard>>,
         ListenTypeOK => collector' \in CollectorType /\ watcher' \in {"select", "ended"},
         \/ UNCHANGED collector
         \/ collector'.at = "ended",
         err = "none" => wanted > 0 /\ delivered = wanted,
         err = "overflow" => source.err = "overflow" \/ heard > delivered
  PROVE  ListenKnows'
<1>0. /\ source \in SourceType /\ stream \in StreamType /\ collector \in CollectorType
      /\ ListenTypeOK /\ CollectorKnows /\ EndKnows /\ StreamTellsTruth
  BY ListenTyped DEF ListenKnows
<1>1. CASE stream.closed
  <2>1. UNCHANGED <<stream, source, context>>
    BY <1>1 DEF StreamFinish
  <2>2. ListenTypeOK'
    BY <1>0, <2>1 DEF ListenTypeOK, CollectorType, asked
  <2>3. CollectorKnows' /\ EndKnows'
    BY <1>0, <2>1 DEF CollectorKnows, EndKnows, Holds, Due, asked
  <2>4. StreamTellsTruth'
    BY <1>0, <2>1 DEF StreamTellsTruth, asked
  <2> QED
    BY <2>2, <2>3, <2>4 DEF ListenKnows
<1>2. CASE ~stream.closed
  <2>1. /\ stream' = [stream EXCEPT !.closed = TRUE, !.err = err]
        /\ source' = [source EXCEPT !.open = FALSE]
        /\ context' = "over"
    BY <1>2 DEF StreamFinish
  <2>2. /\ stream' \in StreamType /\ stream'.queue = stream.queue /\ stream'.err = err
        /\ stream'.closed /\ stream'.byCaller = stream.byCaller
        /\ source' \in SourceType /\ source'.queue = source.queue /\ source'.err = source.err
        /\ ~source'.open
    BY <1>0, <2>1 DEF StreamType, SourceType
  <2>3. ListenTypeOK'
    BY <1>0, <2>1, <2>2 DEF ListenTypeOK, CollectorType, SourceType, StreamType, asked
  <2>4. CollectorKnows' /\ EndKnows'
    BY <1>0, <2>2 DEF CollectorKnows, EndKnows, Holds, Due, asked
  <2>5. StreamTellsTruth'
    BY <1>0, <2>2 DEF StreamTellsTruth, asked
  <2> QED
    BY <2>3, <2>4, <2>5 DEF ListenKnows
<1> QED
  BY <1>1, <1>2

\* The caller's steps, the context's and the link's leave the collector alone.
LEMMA ListenOutsideKeeps ==
  ASSUME ListenKnows, CallerCloses \/ CallerReads \/ ListenContextEnds \/ Reachability
  PROVE  ListenKnows'
<1>0. /\ source \in SourceType /\ stream \in StreamType /\ collector \in CollectorType
      /\ ListenTypeOK /\ CollectorKnows /\ EndKnows /\ StreamTellsTruth
      /\ delivered \in Nat
  BY ListenTyped DEF ListenKnows
<1>1. CASE CallerCloses
  <2>1. /\ stream' = [stream EXCEPT !.closed = TRUE, !.byCaller = TRUE]
        /\ source' = [source EXCEPT !.open = FALSE]
        /\ context' = "over"
        /\ UNCHANGED <<asked, reachable, collector, watcher, delivered, heard>>
    BY <1>1 DEF CallerCloses
  <2>2. /\ stream' \in StreamType /\ stream'.queue = stream.queue /\ stream'.byCaller
        /\ stream'.err = stream.err /\ stream'.closed
        /\ source' \in SourceType /\ source'.queue = source.queue /\ source'.err = source.err
        /\ ~source'.open
    BY <1>0, <2>1 DEF StreamType, SourceType
  <2>3. ListenTypeOK'
    BY <1>0, <2>1, <2>2 DEF ListenTypeOK, SourceType, StreamType, asked
  <2>4. CollectorKnows' /\ EndKnows'
    BY <1>0, <2>1, <2>2 DEF CollectorKnows, EndKnows, Holds, Due, asked
  <2>5. StreamTellsTruth'
    <3>1. stream.err # "overflow"
      BY <1>0, <1>1 DEF CallerCloses, EndKnows
    <3> QED
      BY <1>0, <2>1, <2>2, <3>1 DEF StreamTellsTruth, asked
  <2> QED
    BY <2>3, <2>4, <2>5 DEF ListenKnows
<1>2. CASE CallerReads
  <2>1. /\ stream' = [stream EXCEPT !.queue = Tail(stream.queue)]
        /\ UNCHANGED <<asked, source, context, reachable, collector, watcher, delivered, heard>>
    BY <1>0, <1>2 DEF CallerReads, StreamType
  <2>2. /\ Tail(stream.queue) \in Seq(1 .. MaxHeard)
        /\ Len(Tail(stream.queue)) = Len(stream.queue) - 1
        /\ DOMAIN Tail(stream.queue) = 1 .. (Len(stream.queue) - 1)
        /\ \A i \in 1 .. (Len(stream.queue) - 1) : Tail(stream.queue)[i] = stream.queue[i + 1]
        /\ DOMAIN stream.queue = 1 .. Len(stream.queue) /\ Len(stream.queue) \in Nat
    BY <1>0, <1>2 DEF CallerReads, StreamType
  <2>3. /\ stream' \in StreamType /\ stream'.queue = Tail(stream.queue)
        /\ stream'.closed = stream.closed /\ stream'.err = stream.err
        /\ stream'.byCaller = stream.byCaller
    BY <1>0, <2>1, <2>2 DEF StreamType
  <2>4. ListenTypeOK'
    BY <1>0, <2>1, <2>3 DEF ListenTypeOK, StreamType, asked
  <2>5. CollectorKnows' /\ EndKnows'
    BY <1>0, <2>1, <2>3 DEF CollectorKnows, EndKnows, Holds, Due, asked
  <2>6. \A i \in DOMAIN stream'.queue :
          stream'.queue[i] = delivered - Len(stream'.queue) + i
    <3> SUFFICES ASSUME NEW i \in 1 .. (Len(stream.queue) - 1)
                 PROVE  Tail(stream.queue)[i] = delivered - (Len(stream.queue) - 1) + i
      BY <2>2, <2>3
    <3>0. i + 1 \in DOMAIN stream.queue
      BY <2>2
    <3>1. stream.queue[i + 1] = delivered - Len(stream.queue) + (i + 1)
      BY <1>0, <3>0 DEF StreamTellsTruth
    <3>2. \A d \in Nat, n \in Nat, j \in Int : d - n + (j + 1) = d - (n - 1) + j
      OBVIOUS
    <3>3. Tail(stream.queue)[i] = stream.queue[i + 1] /\ i \in Int /\ Len(stream.queue) \in Nat
      BY <2>2
    <3> QED
      BY <1>0, <3>1, <3>2, <3>3
  <2>7. StreamTellsTruth'
    BY <1>0, <2>1, <2>3, <2>6 DEF StreamTellsTruth, asked
  <2> QED
    BY <2>4, <2>5, <2>7 DEF ListenKnows
<1>3. CASE ListenContextEnds \/ Reachability
  <2>1. /\ UNCHANGED <<asked, source, stream, collector, watcher, delivered, heard>>
        /\ context' \in {"live", "over"} /\ reachable' \in BOOLEAN
    BY <1>0, <1>3 DEF ListenContextEnds, Reachability, ListenTypeOK
  <2>2. ListenTypeOK'
    BY <1>0, <2>1 DEF ListenTypeOK, asked
  <2>3. CollectorKnows' /\ EndKnows'
    BY <1>0, <2>1 DEF CollectorKnows, EndKnows, Holds, Due, asked
  <2>4. StreamTellsTruth'
    BY <1>0, <2>1 DEF StreamTellsTruth, asked
  <2> QED
    BY <2>2, <2>3, <2>4 DEF ListenKnows
<1> QED
  BY <1>1, <1>2, <1>3

\* The transport publishes: an event of the kind is the next number, and is
\* queued, or the source has no room and is shut (eventStream.publish).
LEMMA PublishKeeps ==
  ASSUME ListenKnows, NEW event \in 0 .. MaxHeard, TransportPublishes(event)
  PROVE  ListenKnows'
<1>0. /\ source \in SourceType /\ stream \in StreamType /\ collector \in CollectorType
      /\ source.queue \in Seq(Nat) /\ MaxHeard \in Nat
      /\ delivered \in Nat /\ heard \in Nat /\ Due \in Nat \ {0} /\ delivered <= heard
      /\ ListenTypeOK /\ CollectorKnows /\ EndKnows /\ StreamTellsTruth
  BY ListenTyped DEF ListenKnows
<1>1. /\ heard' \in 0 .. MaxHeard /\ heard' >= heard
      /\ event = 0 => heard' = heard
      /\ event # 0 => event = heard + 1 /\ heard' = heard + 1
      /\ UNCHANGED <<asked, stream, context, reachable, collector, watcher, delivered>>
  BY <1>0 DEF TransportPublishes, ListenTypeOK
<1>2. /\ source' \in SourceType
      /\ source'.err = "none" => source.err = "none"
      /\ source.err = "overflow" => source'.err = "overflow"
      /\ source'.open => source'.err = "none"
  <2>1. CASE Len(source.queue) < StreamCapacity
    <3>1. source' = [source EXCEPT !.queue = Append(source.queue, event)]
      BY <1>0, <2>1 DEF TransportPublishes, SourceType
    <3>2. Append(source.queue, event) \in Seq(0 .. MaxHeard)
      BY <1>0 DEF SourceType
    <3> QED
      BY <1>0, <3>1, <3>2 DEF SourceType, EndKnows
  <2>2. CASE ~(Len(source.queue) < StreamCapacity)
    <3>1. source' = [source EXCEPT !.open = FALSE, !.err = "overflow"]
      BY <2>2 DEF TransportPublishes
    <3> QED
      BY <1>0, <3>1 DEF SourceType
  <2> QED
    BY <2>1, <2>2
<1>3. ListenTypeOK'
  BY <1>0, <1>1, <1>2 DEF ListenTypeOK, SourceType, asked
<1>4. Due' = Due /\ Holds' = Holds
  BY <1>1 DEF Due, Holds
<1>5. ASSUME NEW top \in {heard, heard - 1}, Numbered(source.queue, Due, top),
             source.err = "none" => top = heard
      PROVE  \E top2 \in {heard', heard' - 1} :
               /\ Numbered(source'.queue, Due, top2)
               /\ source'.err = "none" => top2 = heard'
  <2>1. CASE Len(source.queue) < StreamCapacity
    <3>1. source' = [source EXCEPT !.queue = Append(source.queue, event)]
      BY <1>0, <2>1 DEF TransportPublishes, SourceType
    <3>2. source'.queue = Append(source.queue, event) /\ source'.err = source.err
      BY <1>0, <3>1 DEF SourceType
    <3>3. CASE event = 0
      BY <1>0, <1>1, <1>5, <3>2, <3>3, NumberedAppend
    <3>4. CASE event # 0
      <4>1. top = heard
        BY <1>0, <1>5 DEF TransportPublishes, EndKnows
      <4> QED
        BY <1>0, <1>1, <1>5, <3>2, <3>4, <4>1, NumberedAppend
    <3> QED
      BY <3>3, <3>4
  <2>2. CASE ~(Len(source.queue) < StreamCapacity)
    <3>1. source' = [source EXCEPT !.open = FALSE, !.err = "overflow"]
      BY <2>2 DEF TransportPublishes
    <3>2. source'.queue = source.queue /\ source'.err = "overflow"
      BY <1>0, <3>1 DEF SourceType
    <3>3. CASE event = 0
      BY <1>1, <1>5, <3>2, <3>3
    <3>4. CASE event # 0
      <4>1. top = heard
        BY <1>0, <1>5 DEF TransportPublishes, EndKnows
      <4>2. top = heard' - 1
        BY <1>0, <1>1, <3>4, <4>1
      <4> QED
        BY <1>5, <3>2, <4>2
    <3> QED
      BY <3>3, <3>4
  <2> QED
    BY <2>1, <2>2
<1>6. CollectorKnows'
  BY <1>0, <1>1, <1>4, <1>5 DEF CollectorKnows, asked
<1>7. EndKnows'
  BY <1>0, <1>1, <1>2 DEF EndKnows, asked
<1>8. StreamTellsTruth'
  BY <1>0, <1>1, <1>2 DEF StreamTellsTruth, asked
<1> QED
  BY <1>3, <1>6, <1>7, <1>8 DEF ListenKnows
\* Listen's watcher ends the stream for the context or for the source.
LEMMA WatcherKeeps == ListenKnows /\ WatcherActs => ListenKnows'
<1> SUFFICES ASSUME ListenKnows, WatcherActs PROVE ListenKnows'
  OBVIOUS
<1>0. /\ collector \in CollectorType /\ source \in SourceType
      /\ watcher' = "ended" /\ UNCHANGED <<asked, reachable, collector, delivered, heard>>
  BY ListenTyped DEF WatcherActs
<1>1. CASE UNCHANGED <<stream, source, context>>
  <2>1. ListenTypeOK'
    BY <1>0, <1>1 DEF ListenKnows, ListenTypeOK, asked
  <2>2. CollectorKnows' /\ EndKnows' /\ StreamTellsTruth'
    BY <1>0, <1>1 DEF ListenKnows, CollectorKnows, EndKnows, StreamTellsTruth, Holds, Due, asked
  <2> QED
    BY <2>1, <2>2 DEF ListenKnows
<1>2. CASE StreamFinish("timeout")
  BY <1>0, <1>2, FinishKeeps DEF Reasons
<1>3. CASE source.err # "none" /\ StreamFinish(source.err)
  BY <1>0, <1>3, FinishKeeps DEF Reasons, SourceType
<1> QED
  BY <1>1, <1>2, <1>3 DEF WatcherActs

\* A collector that gives up what it holds knows no less.
LEMMA CollectorAtKeeps ==
  ASSUME ListenKnows, NEW place \in {"ending", "ended"}, NEW why \in Reasons, CollectorAt(place, why),
         UNCHANGED <<asked, source, stream, context, reachable, watcher, delivered, heard>>,
         why = "none" => place = "ended",
         why = "overflow" => heard > delivered
  PROVE  ListenKnows'
<1>1. collector' = [at |-> place, event |-> 0, why |-> why]
  BY DEF CollectorAt
<1>2. /\ collector'.at = place /\ collector'.why = why
      /\ collector' \in CollectorType
  BY <1>1, ListenTyped DEF CollectorType
<1>3. ListenTypeOK'
  BY <1>2 DEF ListenKnows, ListenTypeOK, CollectorType, asked
<1>4. CollectorKnows' /\ EndKnows' /\ StreamTellsTruth'
  BY <1>2 DEF ListenKnows, CollectorKnows, EndKnows, StreamTellsTruth, asked
<1> QED
  BY <1>3, <1>4 DEF ListenKnows

\* It takes the next event, and judges it.
LEMMA TakesKeeps == ListenKnows /\ (CollectorTakes \/ Judged) => ListenKnows'
<1> SUFFICES ASSUME ListenKnows, CollectorTakes \/ Judged PROVE ListenKnows'
  OBVIOUS
<1>0. /\ source \in SourceType /\ stream \in StreamType /\ collector \in CollectorType
      /\ source.queue \in Seq(Nat) /\ MaxHeard \in Nat
      /\ delivered \in Nat /\ heard \in Nat /\ Due \in Nat \ {0}
      /\ ListenTypeOK /\ CollectorKnows /\ EndKnows /\ StreamTellsTruth
  BY ListenTyped DEF ListenKnows
<1>1. CASE CollectorTakes
  <2>0. /\ collector.at = "select" /\ source.queue # <<>>
        /\ UNCHANGED <<asked, stream, context, reachable, watcher, delivered, heard>>
    BY <1>1 DEF CollectorTakes
  <2>1. Head(source.queue) \in 0 .. MaxHeard /\ Tail(source.queue) \in Seq(0 .. MaxHeard)
    BY <1>0, <2>0 DEF SourceType
  <2>2. /\ collector' = [collector EXCEPT !.at = "judging", !.event = Head(source.queue)]
        /\ source' = [source EXCEPT !.queue = Tail(source.queue)]
    BY <1>0, <1>1 DEF CollectorTakes, SourceType
  <2>3. /\ collector' \in CollectorType
        /\ collector'.at = "judging" /\ collector'.event = Head(source.queue)
        /\ source' \in SourceType /\ source'.queue = Tail(source.queue)
        /\ source'.err = source.err /\ source'.open = source.open
    BY <1>0, <2>1, <2>2 DEF CollectorType, SourceType
  <2>4. ListenTypeOK'
    BY <1>0, <2>0, <2>3 DEF ListenTypeOK, CollectorType, SourceType, asked
  <2>5. EndKnows' /\ StreamTellsTruth'
    BY <1>0, <2>0, <2>3 DEF EndKnows, StreamTellsTruth, asked
  <2>6. PICK top \in {heard, heard - 1} :
          Numbered(source.queue, Due, top) /\ (source.err = "none" => top = heard)
    BY <1>0, <2>0 DEF CollectorKnows
  <2>7. ~Holds /\ Due = delivered + 1
    BY <2>0 DEF Holds, Due
  <2>8. /\ Head(source.queue) = 0 => Numbered(source'.queue, Due, top)
        /\ Head(source.queue) # 0 => Head(source.queue) = Due /\ Numbered(source'.queue, Due + 1, top)
    BY <1>0, <2>0, <2>3, <2>6, NumberedTail
  <2>9. Numbered(source'.queue, Due', top) /\ (Holds' => collector'.event = delivered + 1)
    <3>1. CASE Head(source.queue) = 0
      <4>1. Due' = Due /\ ~Holds'
        BY <2>0, <2>3, <2>7, <3>1 DEF Due, Holds
      <4> QED
        BY <2>8, <3>1, <4>1
    <3>2. CASE Head(source.queue) # 0
      <4>1. Due' = Due + 1 /\ Holds'
        BY <1>0, <2>0, <2>3, <2>7, <3>2 DEF Due, Holds
      <4> QED
        BY <2>3, <2>7, <2>8, <3>2, <4>1
    <3> QED
      BY <3>1, <3>2
  <2>10. CollectorKnows'
    BY <1>0, <2>0, <2>3, <2>6, <2>9 DEF CollectorKnows, asked
  <2> QED
    BY <2>4, <2>5, <2>10 DEF ListenKnows
<1>2. CASE Judged
  <2>0. /\ collector.at = "judging"
        /\ UNCHANGED <<asked, source, stream, context, reachable, watcher, delivered, heard>>
    BY <1>2 DEF Judged
  <2>1. ASSUME NEW place \in {"select", "holding"}, collector'.at = place,
               collector' \in CollectorType, Holds' <=> Holds, Holds => collector'.event = collector.event,
               place = "holding" => Holds
        PROVE  ListenKnows'
    <3>1. ListenTypeOK'
      BY <1>0, <2>0, <2>1 DEF ListenTypeOK, CollectorType, asked
    <3>2. EndKnows' /\ StreamTellsTruth'
      BY <1>0, <2>0, <2>1 DEF EndKnows, StreamTellsTruth, asked
    <3>3. Due' = Due
      BY <2>0, <2>1 DEF Due
    <3>4. collector'.at = "holding" => collector'.event # 0
      BY <2>1 DEF Holds
    <3>5. CollectorKnows'
      BY <1>0, <2>0, <2>1, <3>3, <3>4 DEF CollectorKnows, asked
    <3> QED
      BY <3>1, <3>2, <3>5 DEF ListenKnows
  <2>2. CASE collector.event = 0 /\ CollectorAt("select", "none")
    <3>1. collector' = [at |-> "select", event |-> 0, why |-> "none"]
      BY <2>2 DEF CollectorAt
    <3>2. collector'.at = "select" /\ collector' \in CollectorType /\ ~Holds /\ ~Holds'
      BY <1>0, <2>2, <3>1 DEF CollectorType, Reasons, Holds
    <3> QED
      BY <2>1, <3>2
  <2>3. CASE collector.event # 0 /\ collector' = [collector EXCEPT !.at = "holding"]
    <3>1. /\ collector'.at = "holding" /\ collector' \in CollectorType
          /\ collector'.event = collector.event
      BY <1>0, <2>3 DEF CollectorType
    <3>2. Holds /\ Holds'
      BY <2>0, <2>3, <3>1 DEF Holds
    <3> QED
      BY <2>1, <3>1, <3>2
  <2>4. CASE CollectorAt("ending", "panic")
    BY <2>0, <2>4, CollectorAtKeeps DEF Reasons
  <2> QED
    BY <1>2, <2>2, <2>3, <2>4 DEF Judged
<1> QED
  BY <1>1, <1>2
\* The collector looks whether it is over, and ends the stream for the reason
\* it saw or for the one it left its work with.
LEMMA CollectorEndsKeeps == ListenKnows /\ (CollectorLooks \/ CollectorFinishes) => ListenKnows'
<1> SUFFICES ASSUME ListenKnows, CollectorLooks \/ CollectorFinishes PROVE ListenKnows'
  OBVIOUS
<1>0. /\ source \in SourceType /\ collector \in CollectorType
      /\ UNCHANGED <<asked, reachable, watcher, delivered, heard>>
      /\ ListenTypeOK /\ EndKnows
  BY ListenTyped DEF CollectorLooks, CollectorFinishes, ListenKnows
<1>1. ASSUME CollectorAt("ended", "none")
      PROVE  collector' \in CollectorType /\ collector'.at = "ended"
  <2>1. collector' = [at |-> "ended", event |-> 0, why |-> "none"]
    BY <1>1 DEF CollectorAt
  <2> QED
    BY <2>1, ListenTyped DEF CollectorType, Reasons
<1>2. ASSUME NEW why \in Reasons, CollectorEnds(why),
             why = "none" => wanted > 0 /\ delivered = wanted,
             why = "overflow" => source.err = "overflow" \/ heard > delivered
      PROVE  ListenKnows'
  <2>1. collector' \in CollectorType /\ collector'.at = "ended" /\ StreamFinish(why)
    BY <1>1, <1>2 DEF CollectorEnds
  <2>2. watcher' \in {"select", "ended"}
    BY <1>0 DEF ListenTypeOK
  <2> QED
    BY <1>0, <1>2, <2>1, <2>2, FinishKeeps
<1>3. CASE CollectorAt("ended", "none") /\ UNCHANGED <<stream, source, context>>
  BY <1>0, <1>3, CollectorAtKeeps DEF Reasons
<1>4. CASE CollectorLooks
  <2>1. CASE CollectorEnds("timeout") \/ CollectorEnds("connection")
    BY <1>2, <2>1 DEF Reasons
  <2>2. CASE CollectorEnds(IF source.err = "none" THEN "connection" ELSE source.err)
    <3>1. (IF source.err = "none" THEN "connection" ELSE source.err) \in {"connection", source.err} \ {"none"}
      OBVIOUS
    <3>2. source.err \in Reasons /\ "connection" \in Reasons
      BY <1>0 DEF SourceType, Reasons
    <3>3. CASE source.err = "none"
      BY <1>2, <2>2, <3>2, <3>3
    <3>4. CASE source.err # "none"
      BY <1>2, <2>2, <3>2, <3>4
    <3> QED
      BY <3>3, <3>4
  <2> QED
    BY <1>3, <1>4, <2>1, <2>2 DEF CollectorLooks
<1>5. CASE CollectorFinishes
  <2>1. collector.at = "ending" /\ CollectorEnds(collector.why) /\ collector.why \in Reasons
    BY <1>0, <1>5 DEF CollectorFinishes, CollectorType
  <2> QED
    BY <1>0, <1>2, <2>1 DEF EndKnows
<1> QED
  BY <1>4, <1>5

\* What it delivers is the next number, and no more than was wanted.
LEMMA DeliversKeeps == ListenKnows /\ CollectorDelivers => ListenKnows'
<1> SUFFICES ASSUME ListenKnows, CollectorDelivers PROVE ListenKnows'
  OBVIOUS
<1>0. /\ source \in SourceType /\ stream \in StreamType /\ collector \in CollectorType
      /\ source.queue \in Seq(Nat) /\ MaxHeard \in Nat
      /\ delivered \in Nat /\ heard \in Nat /\ Due \in Nat \ {0} /\ wanted \in Nat
      /\ ListenTypeOK /\ CollectorKnows /\ EndKnows /\ StreamTellsTruth
  BY ListenTyped DEF ListenKnows
<1>1. /\ collector.at = "holding"
      /\ UNCHANGED <<asked, source, context, reachable, watcher, heard>>
  BY DEF CollectorDelivers
<1>2. Holds /\ collector.event = delivered + 1 /\ Due = delivered + 2
  BY <1>0, <1>1 DEF CollectorKnows, Holds, Due
<1>3. PICK top \in {heard, heard - 1} :
        Numbered(source.queue, Due, top) /\ (source.err = "none" => top = heard)
  BY <1>0, <1>1 DEF CollectorKnows
<1>4. delivered + 1 <= heard /\ delivered + 1 \in 1 .. MaxHeard
  <2>1. delivered + 2 <= top + 1
    BY <1>2, <1>3 DEF Numbered
  <2>2. heard <= MaxHeard
    BY <1>0 DEF ListenTypeOK
  <2> QED
    BY <1>0, <1>3, <2>1, <2>2
<1>5. ASSUME NEW place \in {"ending", "ended"}, NEW why \in Reasons, CollectorAt(place, why),
             UNCHANGED <<stream, delivered>>,
             why = "none" => place = "ended"
      PROVE  ListenKnows'
  BY <1>0, <1>1, <1>4, <1>5, CollectorAtKeeps
<1>6. CASE /\ ~stream.closed /\ Len(stream.queue) < StreamCapacity
           /\ stream' = [stream EXCEPT !.queue = Append(stream.queue, collector.event)]
           /\ delivered' = delivered + 1
           /\ CollectorAt(IF delivered' = wanted THEN "ending" ELSE "select", "none")
  <2>1. /\ Append(stream.queue, delivered + 1) \in Seq(1 .. MaxHeard)
        /\ Len(Append(stream.queue, delivered + 1)) = Len(stream.queue) + 1
        /\ DOMAIN Append(stream.queue, delivered + 1) = 1 .. (Len(stream.queue) + 1)
        /\ Append(stream.queue, delivered + 1)[Len(stream.queue) + 1] = delivered + 1
        /\ \A i \in 1 .. Len(stream.queue) : Append(stream.queue, delivered + 1)[i] = stream.queue[i]
        /\ DOMAIN stream.queue = 1 .. Len(stream.queue) /\ Len(stream.queue) \in Nat
    BY <1>0, <1>4 DEF StreamType
  <2>2. stream' = [stream EXCEPT !.queue = Append(stream.queue, delivered + 1)]
    BY <1>2, <1>6
  <2>3. /\ stream' \in StreamType /\ stream'.queue = Append(stream.queue, delivered + 1)
        /\ stream'.closed = stream.closed /\ stream'.err = stream.err
        /\ stream'.byCaller = stream.byCaller
    BY <1>0, <2>1, <2>2 DEF StreamType
  <2>4. PICK place \in {"ending", "select"} :
          /\ collector' = [at |-> place, event |-> 0, why |-> "none"]
          /\ place = "ending" <=> delivered' = wanted
    BY <1>6 DEF CollectorAt
  <2>5. /\ collector'.at = place /\ collector'.event = 0 /\ collector'.why = "none"
        /\ collector' \in CollectorType
    BY <1>0, <2>4 DEF CollectorType, Reasons
  <2>6. ListenTypeOK'
    BY <1>0, <1>1, <1>4, <1>6, <2>3, <2>5 DEF ListenTypeOK, StreamType, CollectorType, asked
  <2>7. ~Holds' /\ Due' = Due
    BY <1>0, <1>2, <1>6, <2>5 DEF Holds, Due
  <2>8. wanted > 0 => delivered < wanted
    BY <1>0, <1>1 DEF CollectorKnows
  <2>9. wanted > 0 => delivered' <= wanted /\ (delivered' # wanted => delivered' < wanted)
    BY <1>0, <1>6, <2>8
  <2>10. CollectorKnows'
    BY <1>0, <1>1, <1>3, <2>4, <2>5, <2>7, <2>9 DEF CollectorKnows, asked
  <2>11. EndKnows'
    BY <1>0, <1>1, <1>4, <1>6, <2>3, <2>4, <2>5 DEF EndKnows, asked
  <2>12. \A i \in DOMAIN stream'.queue : stream'.queue[i] = delivered' - Len(stream'.queue) + i
    <3>1. PICK n \in Nat : n = Len(stream.queue)
      BY <2>1
    <3>2. ASSUME NEW i \in 1 .. (n + 1)
          PROVE  Append(stream.queue, delivered + 1)[i] = (delivered + 1) - (n + 1) + i
      <4>0. delivered \in Nat /\ i \in Int
        BY <1>0
      <4>1. CASE i = n + 1
        <5>1. Append(stream.queue, delivered + 1)[i] = delivered + 1
          BY <2>1, <3>1, <4>1
        <5>2. \A d, m \in Nat : d + 1 = (d + 1) - (m + 1) + (m + 1)
          OBVIOUS
        <5> QED
          BY <4>0, <4>1, <5>1, <5>2
      <4>2. CASE i \in 1 .. n
        <5>1. stream.queue[i] = delivered - n + i
          BY <1>0, <2>1, <3>1, <4>2 DEF StreamTellsTruth
        <5>2. Append(stream.queue, delivered + 1)[i] = stream.queue[i]
          BY <2>1, <3>1, <4>2
        <5>3. delivered - n + i = (delivered + 1) - (n + 1) + i
          BY <3>1, <4>0
        <5> QED
          BY <5>1, <5>2, <5>3
      <4> QED
        BY <3>1, <3>2, <4>1, <4>2
    <3> QED
      BY <1>6, <2>1, <2>3, <3>1, <3>2, ZenonT(40)
  <2>13. StreamTellsTruth'
    BY <1>0, <1>1, <1>6, <2>3, <2>9, <2>12 DEF StreamTellsTruth, asked
  <2> QED
    BY <2>6, <2>10, <2>11, <2>13 DEF ListenKnows
<1>7. CASE CollectorAt("ending", "timeout") /\ UNCHANGED <<stream, delivered>>
  BY <1>5, <1>7 DEF Reasons
<1>8. CASE CollectorAt("ended", "none") /\ UNCHANGED <<stream, delivered>>
  BY <1>5, <1>8 DEF Reasons
<1>9. CASE CollectorAt("ending", "overflow") /\ UNCHANGED <<stream, delivered>>
  BY <1>5, <1>9 DEF Reasons
<1>10. stream = [queue |-> stream.queue, closed |-> stream.closed, err |-> stream.err,
                 byCaller |-> stream.byCaller]
  BY <1>0 DEF StreamType
<1> QED
  BY <1>0, <1>6, <1>7, <1>8, <1>9 DEF CollectorDelivers, StreamType

LEMMA ListenStepKeeps == ListenKnows /\ ListenNext => ListenKnows'
BY ListenOutsideKeeps, PublishKeeps, WatcherKeeps, TakesKeeps, CollectorEndsKeeps, DeliversKeeps
   DEF ListenNext, CollectorStep

LEMMA ListenBeginsKnowing == ListenInit => ListenKnows
<1> SUFFICES ASSUME ListenInit PROVE ListenKnows
  OBVIOUS
<1>1. /\ source.queue = <<>> /\ source.open /\ source.err = "none"
      /\ stream.queue = <<>> /\ ~stream.closed /\ stream.err = "none"
      /\ collector.at = "select" /\ delivered = 0 /\ heard = 0 /\ wanted \in Nat
  BY ListenerAssumption DEF ListenInit
<1>2. ListenTypeOK
  BY ListenerAssumption DEF ListenInit, ListenTypeOK, Reasons
<1>3. Due = 1 /\ ~Holds
  BY <1>1 DEF Due, Holds
<1>4. Numbered(source.queue, 1, 0)
  BY <1>1 DEF Numbered
<1>5. CollectorKnows
  BY <1>1, <1>3, <1>4 DEF CollectorKnows
<1>6. EndKnows /\ StreamTellsTruth
  BY <1>1 DEF EndKnows, StreamTellsTruth
<1> QED
  BY <1>2, <1>5, <1>6 DEF ListenKnows

--------------------------------------------------------------------------------
(***************************************************************************)
(* The home link.                                                          *)
(***************************************************************************)
\* What the contract with the hub allows, and what the SDK says for a handler.
Contracted(said) ==
  /\ said \in Response
  /\ said.type = "error" <=> said.code # NoCode

Own(said) == said \in {OwnAnswer("timeout"), OwnAnswer("failed_to_handle")}

\* One request: what it says is the contract's from the moment it answers, the
\* handler's or the SDK's own; a reply is begun by a request that replies, and
\* one left queued behind a request that is over has its context over; and what
\* its caller is told is told at the end.
RequestKnows(q, halted) ==
  /\ q.at = "handling" /\ q.handler = "ok" => q.said \in HandlerAnswer
  /\ q.at \in {"answering", "replying"} \/ q.reply # "none" =>
       Contracted(q.said) /\ (q.handler = "ok" \/ Own(q.said))
  /\ q.at = "done" /\ q.reply = "queued" => halted \/ q.clock = "bound_over"
  /\ q.reply # "none" => q.at \in {"replying", "done"}
  /\ q.told # "none" => q.at = "done"
  /\ q.told = "payload" => q.reply = "written"
  /\ q.told = "error" => q.reply = "failed"

HomeRecord ==
  [at : {"awaited", "handling", "answering", "replying", "done"},
   clock : {"open", "handler_over", "bound_over"},
   handler : {"none", "running", "ok", "failed", "gave_up"},
   said : HandlerAnswer \cup Response,
   reply : {"none", "queued", "writing", "written", "failed"},
   told : {"none", "payload", "nothing", "error", "stopped"}]

HomeKnows == HomeTypeOK /\ \A r \in HomeRequestIds : RequestKnows(home[r], stopped)

\* Whatever a handler says, what is sent keeps the contract (HomeResponse).
LEMMA HomeResponseContracted ==
  ASSUME NEW answer \in HandlerAnswer
  PROVE  Contracted(HomeResponse(answer))
BY DEF HandlerAnswer, Contracted, HomeResponse, Response, ResponseTypes, ErrorCodes, NoCode

LEMMA OwnAnswerContracted ==
  ASSUME NEW code \in {"timeout", "failed_to_handle"}
  PROVE  Contracted(OwnAnswer(code)) /\ Own(OwnAnswer(code))
BY DEF Contracted, Own, OwnAnswer, Response, ResponseTypes, ErrorCodes, NoCode

\* A step is one of a single request, from a record that knows to one that does.
LEMMA HomeRecordKeeps ==
  ASSUME HomeKnows, NEW r \in HomeRequestIds, NEW fields \in HomeRecord, RequestKnows(fields, stopped),
         Goes(r, fields), stopped' = stopped
  PROVE  HomeKnows'
BY DEF HomeKnows, HomeTypeOK, Goes, HomeRecord

LEMMA HomeTyped ==
  ASSUME HomeKnows, NEW r \in HomeRequestIds
  PROVE  home[r] \in HomeRecord /\ RequestKnows(home[r], stopped)
BY DEF HomeKnows, HomeTypeOK, HomeRecord

\* The handler's side: a request arrives, its time passes, its handler returns.
LEMMA HandlerKeeps ==
  ASSUME HomeKnows, NEW r \in HomeRequestIds,
         RequestArrives(r) \/ TimePasses(r) \/ HandlerReturns(r)
  PROVE  HomeKnows'
<1>0. home[r] \in HomeRecord /\ RequestKnows(home[r], stopped) /\ stopped \in BOOLEAN
  BY HomeTyped DEF HomeKnows, HomeTypeOK
<1>1. CASE RequestArrives(r)
  <2> DEFINE q == [home[r] EXCEPT !.at = "handling", !.handler = "running"]
  <2>1. q \in HomeRecord /\ RequestKnows(q, stopped)
    BY <1>0, <1>1 DEF RequestArrives, HomeRecord, RequestKnows
  <2> QED
    BY <1>0, <1>1, <2>1, HomeRecordKeeps DEF RequestArrives
<1>2. CASE TimePasses(r)
  <2>1. ASSUME NEW c \in {"handler_over", "bound_over"}, Goes(r, [home[r] EXCEPT !.clock = c]),
               home[r].clock = "bound_over" => c = "bound_over"
        PROVE  HomeKnows'
    <3> DEFINE q == [home[r] EXCEPT !.clock = c]
    <3>1. q \in HomeRecord /\ RequestKnows(q, stopped)
      BY <1>0, <2>1 DEF HomeRecord, RequestKnows
    <3> QED
      BY <1>0, <1>2, <2>1, <3>1, HomeRecordKeeps DEF TimePasses
  <2> QED
    BY <1>2, <2>1 DEF TimePasses
<1>3. CASE HandlerReturns(r)
  <2>1. PICK did \in {"ok", "failed", "gave_up"}, answer \in HandlerAnswer :
          Goes(r, IF home[r].at = "handling"
                  THEN [home[r] EXCEPT !.handler = did, !.said = answer]
                  ELSE [home[r] EXCEPT !.handler = "none"])
    BY <1>3 DEF HandlerReturns
  <2> DEFINE q == IF home[r].at = "handling"
                  THEN [home[r] EXCEPT !.handler = did, !.said = answer]
                  ELSE [home[r] EXCEPT !.handler = "none"]
  <2>2. q \in HomeRecord
    BY <1>0 DEF HomeRecord
  <2>3. RequestKnows(q, stopped)
    BY <1>0, <1>3 DEF HomeRecord, RequestKnows, HandlerReturns
  <2> QED
    BY <1>0, <1>3, <2>1, <2>2, <2>3, HomeRecordKeeps DEF HandlerReturns
<1> QED
  BY <1>1, <1>2, <1>3

\* A request is over with what its caller is told.
LEMMA ToldKeeps ==
  ASSUME HomeKnows, NEW r \in HomeRequestIds, stopped' = stopped,
         NEW what \in {"payload", "nothing", "error", "stopped"}, Told(r, what),
         home[r].reply = "queued" => ContextOver(r),
         what = "payload" => home[r].reply = "written",
         what = "error" => home[r].reply = "failed"
  PROVE  HomeKnows'
<1>0. home[r] \in HomeRecord /\ RequestKnows(home[r], stopped)
  BY HomeTyped
<1> DEFINE q == [home[r] EXCEPT !.at = "done", !.told = what]
<1>1. q \in HomeRecord /\ RequestKnows(q, stopped)
  BY <1>0 DEF HomeRecord, RequestKnows, ContextOver
<1> QED
  BY <1>1, HomeRecordKeeps DEF Told

\* An answer is given, the handler's as the contract has it or the SDK's own.
LEMMA AnswersKeeps ==
  ASSUME HomeKnows, NEW r \in HomeRequestIds, stopped' = stopped, home[r].at = "handling",
         NEW response, Contracted(response), NEW handler,
         handler \in {"none", "running", "ok", "failed", "gave_up"},
         handler = "ok" \/ Own(response),
         Goes(r, [home[r] EXCEPT !.at = "answering", !.said = response, !.handler = handler])
  PROVE  HomeKnows'
<1>0. home[r] \in HomeRecord /\ RequestKnows(home[r], stopped)
  BY HomeTyped
<1> DEFINE q == [home[r] EXCEPT !.at = "answering", !.said = response, !.handler = handler]
<1>1. q \in HomeRecord
  BY <1>0 DEF HomeRecord, Contracted
<1>2. RequestKnows(q, stopped)
  BY <1>0 DEF HomeRecord, RequestKnows
<1> QED
  BY <1>1, <1>2, HomeRecordKeeps

\* The answering goroutine.
LEMMA AnsweringKeeps ==
  ASSUME HomeKnows, NEW r \in HomeRequestIds, HomeStep(r)
  PROVE  HomeKnows'
<1>0. home[r] \in HomeRecord /\ RequestKnows(home[r], stopped) /\ stopped \in BOOLEAN
  BY HomeTyped DEF HomeKnows, HomeTypeOK
<1>1. CASE HandlerAnswered(r)
  <2>0. home[r].at = "handling" /\ stopped' = stopped
    BY <1>1 DEF HandlerAnswered
  <2>1. CASE stopped
    BY <1>0, <1>1, <2>0, <2>1, ToldKeeps DEF HandlerAnswered, RequestKnows
  <2>2. CASE ~stopped
    <3> DEFINE response == CASE home[r].handler = "ok" -> HomeResponse(home[r].said)
                             [] home[r].handler = "gave_up" /\ home[r].clock # "open"
                                  -> OwnAnswer("timeout")
                             [] OTHER -> OwnAnswer("failed_to_handle")
    <3>1. \A code \in {"timeout", "failed_to_handle"} :
            Contracted(OwnAnswer(code)) /\ Own(OwnAnswer(code))
      BY OwnAnswerContracted
    <3>2. home[r].handler = "ok" => Contracted(HomeResponse(home[r].said))
      BY <1>0, <2>0, HomeResponseContracted DEF RequestKnows
    <3>3. Contracted(response) /\ (home[r].handler = "ok" \/ Own(response))
      <4>1. CASE home[r].handler = "ok"
        <5>1. response = HomeResponse(home[r].said)
          BY <4>1
        <5> QED
          BY <3>2, <4>1, <5>1
      <4>2. CASE home[r].handler # "ok"
        <5>1. response \in {OwnAnswer("timeout"), OwnAnswer("failed_to_handle")}
          BY <4>2
        <5> QED
          BY <3>1, <5>1
      <4> QED
        BY <4>1, <4>2
    <3>4. Goes(r, [home[r] EXCEPT !.at = "answering", !.said = response])
      BY <1>1, <2>2 DEF HandlerAnswered, Answers
    <3> HIDE DEF response
    <3>5. home[r].handler \in {"none", "running", "ok", "failed", "gave_up"}
      BY <1>0 DEF HomeRecord
    <3>6. Goes(r, [home[r] EXCEPT !.at = "answering", !.said = response,
                                  !.handler = home[r].handler])
      BY <1>0, <3>4 DEF HomeRecord
    <3> QED
      BY <2>0, <3>3, <3>5, <3>6, AnswersKeeps
  <2> QED
    BY <2>1, <2>2
<1>2. CASE HandlerOverdue(r)
  <2>0. home[r].at = "handling" /\ stopped' = stopped
    BY <1>2 DEF HandlerOverdue
  <2>1. CASE stopped
    BY <1>0, <1>2, <2>0, <2>1, ToldKeeps DEF HandlerOverdue, RequestKnows
  <2>2. CASE ~stopped
    <3> DEFINE h == IF home[r].handler = "running" THEN "running" ELSE "none"
    <3>1. Contracted(OwnAnswer("timeout")) /\ Own(OwnAnswer("timeout"))
      BY OwnAnswerContracted
    <3>2. Goes(r, [home[r] EXCEPT !.at = "answering", !.said = OwnAnswer("timeout"), !.handler = h])
      BY <1>0, <1>2, <2>2 DEF HandlerOverdue, HomeRecord
    <3>3. h \in {"none", "running", "ok", "failed", "gave_up"}
      OBVIOUS
    <3> HIDE DEF h
    <3> QED
      BY <1>0, <2>0, <3>1, <3>2, <3>3, AnswersKeeps
  <2> QED
    BY <2>1, <2>2
<1>3. CASE ReplyBegins(r)
  <2>1. CASE home[r].clock = "bound_over"
    BY <1>0, <1>3, <2>1, ToldKeeps DEF ReplyBegins, RequestKnows
  <2>2. CASE home[r].clock # "bound_over"
    <3> DEFINE q == [home[r] EXCEPT !.at = "replying", !.reply = "queued"]
    <3>1. q \in HomeRecord /\ RequestKnows(q, stopped)
      BY <1>0, <1>3 DEF HomeRecord, RequestKnows, ReplyBegins
    <3> QED
      BY <1>0, <1>3, <2>2, <3>1, HomeRecordKeeps DEF ReplyBegins
  <2> QED
    BY <2>1, <2>2
<1>4. CASE ReplyReturned(r)
  <2> DEFINE what == CASE home[r].reply = "written"     -> "payload"
                       [] stopped                       -> "stopped"
                       [] home[r].clock = "bound_over"  -> "nothing"
                       [] OTHER                         -> "error"
  <2>1. what \in {"payload", "nothing", "error", "stopped"}
    OBVIOUS
  <2>2. /\ what = "payload" => home[r].reply = "written"
        /\ what = "error" => home[r].reply = "failed"
        /\ home[r].reply # "queued"
    BY <1>4 DEF ReplyReturned
  <2>3. Told(r, what) /\ stopped' = stopped
    BY <1>4 DEF ReplyReturned
  <2> HIDE DEF what
  <2> QED
    BY <1>0, <2>1, <2>2, <2>3, ToldKeeps
<1>5. CASE ReplyOverdue(r)
  BY <1>0, <1>5, ToldKeeps DEF ReplyOverdue
<1> QED
  BY <1>1, <1>2, <1>3, <1>4, <1>5 DEF HomeStep

\* The reply on its way.
LEMMA ReplyWritesKeeps ==
  ASSUME HomeKnows, NEW r \in HomeRequestIds, ReplyWrites(r)
  PROVE  HomeKnows'
<1>0. home[r] \in HomeRecord /\ RequestKnows(home[r], stopped) /\ stopped \in BOOLEAN
  BY HomeTyped DEF HomeKnows, HomeTypeOK
<1>1. PICK place \in {"writing", "written", "failed"} :
        Goes(r, [home[r] EXCEPT !.reply = place])
  BY DEF ReplyWrites
<1>2. home[r].reply \in {"queued", "writing"} /\ stopped' = stopped
  BY DEF ReplyWrites
<1> DEFINE q == [home[r] EXCEPT !.reply = place]
<1>3. q \in HomeRecord /\ RequestKnows(q, stopped)
  BY <1>0, <1>2 DEF HomeRecord, RequestKnows
<1> QED
  BY <1>0, <1>1, <1>2, <1>3, HomeRecordKeeps

LEMMA HomeStepKeeps == HomeKnows /\ HomeNext => HomeKnows'
<1>1. HomeKnows /\ StopAnswering => HomeKnows'
  BY DEF HomeKnows, HomeTypeOK, StopAnswering, RequestKnows
<1> QED
  BY <1>1, HandlerKeeps, AnsweringKeeps, ReplyWritesKeeps DEF HomeNext

LEMMA HomeBeginsKnowing == HomeInit => HomeKnows
<1> SUFFICES ASSUME HomeInit PROVE HomeKnows
  OBVIOUS
<1> DEFINE q == [at |-> "awaited", clock |-> "open", handler |-> "none", said |-> Nothing,
                 reply |-> "none", told |-> "none"]
<1>1. q \in HomeRecord /\ RequestKnows(q, stopped)
  BY DEF HomeRecord, RequestKnows, Nothing, Response, ResponseTypes, NoCode
<1>2. home = [r \in HomeRequestIds |-> q] /\ stopped = FALSE
  BY DEF HomeInit
<1> QED
  BY <1>1, <1>2 DEF HomeKnows, HomeTypeOK, HomeRecord

\* What a request knows is what its caller is told.
LEMMA HomeTellsTruth == HomeKnows => HomeToldTruth
BY DEF HomeKnows, RequestKnows, HomeToldTruth, Contracted, Own

\* What was told stands: no request that is over is told again, and the reply it
\* left behind finds its context over (AnswerHomeRequest, Replier.Reply).
LEMMA HomeStepStands == HomeKnows /\ HomeNext => AnswerStands
<1> SUFFICES ASSUME HomeKnows, HomeNext, NEW r \in HomeRequestIds, home[r].told # "none"
             PROVE  /\ home'[r].told = home[r].told
                    /\ home'[r].reply \in {"writing", "written"} =>
                         home[r].reply \in {"writing", "written"}
  BY DEF AnswerStands
<1>0. /\ home[r] \in HomeRecord /\ home[r].at = "done"
      /\ home[r].reply = "queued" => ContextOver(r)
  BY HomeTyped DEF RequestKnows, ContextOver
<1>1. ASSUME NEW q \in HomeRequestIds, NEW fields, Goes(q, fields),
             q = r => /\ fields.told = home[r].told
                      /\ fields.reply \in {"writing", "written"} =>
                           home[r].reply \in {"writing", "written"}
      PROVE  /\ home'[r].told = home[r].told
             /\ home'[r].reply \in {"writing", "written"} =>
                  home[r].reply \in {"writing", "written"}
  BY <1>1 DEF Goes, HomeKnows, HomeTypeOK
<1>2. CASE StopAnswering
  BY <1>2 DEF StopAnswering
<1>3. ASSUME NEW q \in HomeRequestIds, HomeStep(q)
      PROVE  home'[r] = home[r]
  <2>1. q # r
    BY <1>0, <1>3 DEF HomeStep, HandlerAnswered, HandlerOverdue, ReplyBegins, ReplyReturned,
                      ReplyOverdue
  <2>2. \E fields : Goes(q, fields)
    BY <1>3 DEF HomeStep, HandlerAnswered, HandlerOverdue, ReplyBegins, ReplyReturned,
                ReplyOverdue, Told, Answers
  <2> QED
    BY <2>1, <2>2 DEF Goes, HomeKnows, HomeTypeOK
<1>4. ASSUME NEW q \in HomeRequestIds, RequestArrives(q) \/ TimePasses(q) \/ HandlerReturns(q)
      PROVE  /\ home'[r].told = home[r].told
             /\ home'[r].reply \in {"writing", "written"} =>
                  home[r].reply \in {"writing", "written"}
  <2>1. home[q] \in HomeRecord
    BY HomeTyped
  <2>2. CASE RequestArrives(q) \/ TimePasses(q)
    BY <1>1, <2>1, <2>2 DEF RequestArrives, TimePasses, HomeRecord
  <2>3. CASE HandlerReturns(q)
    <3>1. PICK did, answer :
            Goes(q, IF home[q].at = "handling"
                    THEN [home[q] EXCEPT !.handler = did, !.said = answer]
                    ELSE [home[q] EXCEPT !.handler = "none"])
      BY <2>3 DEF HandlerReturns
    <3> QED
      BY <1>1, <2>1, <3>1 DEF HomeRecord
  <2> QED
    BY <1>4, <2>2, <2>3
<1>5. ASSUME NEW q \in HomeRequestIds, ReplyWrites(q)
      PROVE  /\ home'[r].told = home[r].told
             /\ home'[r].reply \in {"writing", "written"} =>
                  home[r].reply \in {"writing", "written"}
  <2>1. home[q] \in HomeRecord
    BY HomeTyped
  <2>2. CASE home[q].reply = "queued" /\ ~ContextOver(q) /\ Goes(q, [home[q] EXCEPT !.reply = "writing"])
    <3>1. q # r
      BY <1>0, <2>2
    <3> QED
      BY <1>1, <2>2, <3>1
  <2>3. CASE Goes(q, [home[q] EXCEPT !.reply = "failed"])
    BY <1>1, <2>1, <2>3 DEF HomeRecord
  <2>4. CASE home[q].reply = "writing" /\ Goes(q, [home[q] EXCEPT !.reply = "written"])
    BY <1>1, <2>1, <2>4 DEF HomeRecord
  <2> QED
    BY <1>5, <2>2, <2>3, <2>4 DEF ReplyWrites
<1> QED
  BY <1>2, <1>3, <1>4, <1>5 DEF HomeNext

--------------------------------------------------------------------------------
(***************************************************************************)
(* The origin preference.                                                  *)
(***************************************************************************)
\* A call holds the client of the attempt it is at, and none before that
\* attempt was built or after it was closed.
OriginKnows ==
  /\ OriginTypeOK
  /\ \A c \in Connects :
       /\ where[c] \in {"called", "origin", "failed", "hub"} => opened[c] = {}
       /\ where[c] = "closing" => opened[c] = {"origin"}
       /\ where[c] = "connected" => opened[c] \in {{"origin"}, {"hub"}}

\* Any number of calls share the preference, and each knows what it holds
\* (OriginPreference.Connect).
LEMMA OriginStepKeeps == OriginKnows /\ OriginNext => OriginKnows'
<1> SUFFICES ASSUME OriginKnows, OriginNext PROVE OriginKnows'
  OBVIOUS
<1> USE DEF To
<1>1. ASSUME NEW c \in Connects,
             \/ OriginLooks(c) \/ OriginBuilt(c) \/ OriginFails(c) \/ OriginCleaned(c)
             \/ HubBuilt(c)
      PROVE  OriginKnows'
  BY <1>1 DEF OriginKnows, OriginTypeOK, OriginLooks, OriginBuilt, OriginFails, OriginCleaned, HubBuilt
<1>2. ASSUME NEW c \in Connects, OriginLeftAlone(c)
      PROVE  OriginKnows'
  BY <1>2, OriginAssumption DEF OriginKnows, OriginTypeOK, OriginLeftAlone, Blames
<1>3. ASSUME NEW c \in Connects, OriginCallerLeaves(c)
      PROVE  OriginKnows'
  BY <1>3 DEF OriginKnows, OriginTypeOK, OriginCallerLeaves
<1>4. CASE OriginTick
  BY <1>4, OriginAssumption DEF OriginKnows, OriginTypeOK, OriginTick
<1> QED
  BY <1>1, <1>2, <1>3, <1>4 DEF OriginNext

LEMMA OriginBeginsKnowing == OriginInit => OriginKnows
BY OriginAssumption DEF OriginInit, OriginKnows, OriginTypeOK

\* Only a call that failed with its context alive leaves the origin alone.
LEMMA OriginStepBlamesFairly == OriginKnows /\ OriginNext => BlamedFairly
<1> SUFFICES ASSUME OriginKnows, OriginNext, quietUntil' # quietUntil
             PROVE  \E c \in Connects : where[c] = "failed" /\ ~ctxOver[c] /\ where'[c] = "hub"
  BY DEF BlamedFairly
<1>1. PICK c \in Connects : OriginLeftAlone(c)
  BY DEF OriginNext, OriginLooks, OriginBuilt, OriginFails, OriginCleaned, HubBuilt,
         OriginCallerLeaves, OriginTick
<1> QED
  BY <1>1 DEF OriginLeftAlone, Blames, To, OriginKnows, OriginTypeOK

--------------------------------------------------------------------------------
(***************************************************************************)
(* What the hub can be asked.                                              *)
(***************************************************************************)
LEMMA LeastOf ==
  ASSUME NEW S \in SUBSET Nat, S # {}
  PROVE  \E least \in S : \A n \in S : least <= n
<1>1. IsWellFoundedOn(OpToRel(<, Nat), Nat)
  BY NatLessThanWellFounded
<1>2. PICK x \in S : \A y \in S : ~ (<<y, x>> \in OpToRel(<, Nat))
  BY <1>1, WFMin
<1>3. \A y \in S : ~(y < x)
  BY <1>2 DEF OpToRel
<1> QED
  BY <1>3

\* Among finitely many scores there is a first of the best.
LEMMA FirstOfTheBest ==
  ASSUME NEW S \in SUBSET Nat, S # {}, NEW bound \in Nat, NEW score \in [S -> 0 .. bound]
  PROVE  \E n \in S : \A m \in S : score[n] > score[m] \/ (score[n] = score[m] /\ n <= m)
<1> DEFINE Short == {bound - score[n] : n \in S}
<1>0. \A n \in S : score[n] \in 0 .. bound /\ bound - score[n] \in Nat
  OBVIOUS
<1>1. Short \in SUBSET Nat /\ Short # {}
  BY <1>0, Zenon
<1>2. PICK short \in Short : \A k \in Short : short <= k
  <2> HIDE DEF Short
  <2> QED
    BY <1>1, LeastOf
<1>3. PICK top \in S : short = bound - score[top]
  OBVIOUS
<1>4. ASSUME NEW n \in S PROVE score[n] <= score[top]
  <2>1. bound - score[n] \in Short
    OBVIOUS
  <2>2. bound - score[top] <= bound - score[n]
    BY <1>2, <1>3, <2>1
  <2>3. score[n] \in 0 .. bound /\ score[top] \in 0 .. bound
    OBVIOUS
  <2> HIDE DEF Short
  <2> QED
    BY <2>2, <2>3
<1> DEFINE Best == {n \in S : score[n] = score[top]}
<1>5. PICK n \in Best : \A m \in Best : n <= m
  <2>1. Best \in SUBSET Nat /\ Best # {}
    OBVIOUS
  <2> HIDE DEF Best
  <2> QED
    BY <2>1, LeastOf
<1>6. ASSUME NEW m \in S PROVE score[n] > score[m] \/ (score[n] = score[m] /\ n <= m)
  <2>1. score[m] \in 0 .. bound /\ score[top] \in 0 .. bound /\ score[n] = score[top]
    OBVIOUS
  <2>2. score[m] <= score[top]
    BY <1>4
  <2>3. score[m] = score[top] => n <= m
    BY <1>5
  <2> QED
    BY <2>1, <2>2, <2>3
<1> QED
  BY <1>6

\* Rows of a listing: at some of finitely many places, each of a language.
AreRows(rows) ==
  /\ \E n \in Nat : DOMAIN rows \subseteq 1 .. n
  /\ \A n \in DOMAIN rows : rows[n].lang # NoTag

Speaking(rows, n) == {m \in DOMAIN rows : rows[m].template /\ SameLanguage(rows[m].lang, rows[n].lang)}

LEMMA SpeakingCounted ==
  ASSUME NEW rows, NEW bound \in Nat, DOMAIN rows \subseteq 1 .. bound, NEW n
  PROVE  /\ Cardinality(Speaking(rows, n)) \in 0 .. bound
         /\ Cardinality(Speaking(rows, n)) > 0 <=> Speaking(rows, n) # {}
<1>1. IsFiniteSet(1 .. bound) /\ Cardinality(1 .. bound) = bound
  BY FS_Interval
<1>2. Speaking(rows, n) \in SUBSET (1 .. bound)
  BY DEF Speaking
<1>3. /\ IsFiniteSet(Speaking(rows, n))
      /\ Cardinality(Speaking(rows, n)) <= bound
  BY <1>1, <1>2, FS_Subset
<1>4. Cardinality(Speaking(rows, n)) \in Nat
  BY <1>3, FS_CardinalityType
<1>5. Cardinality(Speaking(rows, n)) = 0 <=> Speaking(rows, n) = {}
  BY <1>3, FS_EmptySet
<1> QED
  BY <1>3, <1>4, <1>5

LEMMA ClosestIsAvailable ==
  ASSUME NEW t, NEW available, ClosestLanguage(t, available) # NoTag
  PROVE  \E n \in DOMAIN available : ClosestLanguage(t, available) = available[n]
<1> DEFINE distance == [n \in DOMAIN available |-> Distance(t, available[n])]
           nearest == Nearest(distance)
<1>1. ClosestLanguage(t, available) = IF nearest = {} THEN NoTag ELSE available[CHOOSE n \in nearest : TRUE]
  BY DEF ClosestLanguage, TagAt
<1>2. nearest # {}
  <2> HIDE DEF nearest
  <2> QED
    BY <1>1
<1>3. (CHOOSE n \in nearest : TRUE) \in nearest
  <2> HIDE DEF nearest
  <2> QED
    BY <1>2
<1>4. nearest \subseteq DOMAIN available
  BY DEF Nearest
<1> HIDE DEF nearest
<1> QED
  BY <1>1, <1>2, <1>3, <1>4

\* The nearest language of a manifest has a sentence, and there is one when
\* any row of the manifest has one.
LEMMA NearestSpeaks ==
  ASSUME NEW t, NEW rows, AreRows(rows)
  PROVE  /\ NearestHubLanguage(t, rows) # NoTag
              => CanCarrySentences(RowsOf(rows, NearestHubLanguage(t, rows)))
         /\ NearestHubLanguage(t, rows) = NoTag => ~CanCarrySentences(rows)
<1> DEFINE chosen == NearestHubLanguage(t, rows)
           says(n) == Cardinality(Speaking(rows, n))
           speakable == {n \in Groups(rows) : says(n) > 0}
           candidates == [n \in speakable |-> rows[n].lang]
           closest == ClosestLanguage(t, candidates)
           theirs == IF runtime.speaks = NoTag THEN NoTag ELSE ClosestLanguage(runtime.speaks, candidates)
           most == {n \in speakable : \A m \in speakable :
                      says(n) > says(m) \/ (says(n) = says(m) /\ n =< m)}
<1>0. PICK bound \in Nat : DOMAIN rows \subseteq 1 .. bound
  BY DEF AreRows
<1>1. chosen = IF closest # NoTag THEN closest
               ELSE IF theirs # NoTag THEN theirs
               ELSE IF most = {} THEN NoTag ELSE candidates[CHOOSE n \in most : TRUE]
  BY DEF NearestHubLanguage, Speaking
<1> HIDE DEF says
<1>2. /\ speakable \subseteq DOMAIN rows /\ DOMAIN candidates = speakable
      /\ \A n \in speakable : candidates[n] = rows[n].lang /\ rows[n].lang # NoTag
  BY DEF Groups, AreRows
<1>3. most \subseteq speakable
  OBVIOUS
<1>4. ASSUME NEW n \in speakable PROVE CanCarrySentences(RowsOf(rows, rows[n].lang))
  <2>1. says(n) > 0
    OBVIOUS
  <2>2. Speaking(rows, n) # {}
    BY <1>0, <2>1, SpeakingCounted DEF says
  <2>3. PICK m \in DOMAIN rows : rows[m].template /\ SameLanguage(rows[m].lang, rows[n].lang)
    BY <2>2 DEF Speaking
  <2>4. m \in DOMAIN RowsOf(rows, rows[n].lang) /\ RowsOf(rows, rows[n].lang)[m] = rows[m]
    BY <2>3 DEF RowsOf, Restrict
  <2> QED
    BY <2>3, <2>4 DEF CanCarrySentences
<1>5. closest # NoTag => \E n \in speakable : closest = rows[n].lang
  <2> SUFFICES ASSUME closest # NoTag PROVE \E n \in speakable : closest = rows[n].lang
    OBVIOUS
  <2> HIDE DEF candidates, speakable
  <2>1. \E n \in DOMAIN candidates : closest = candidates[n]
    BY ClosestIsAvailable
  <2> QED
    BY <1>2, <2>1
<1>6. theirs # NoTag => \E n \in speakable : theirs = rows[n].lang
  <2> SUFFICES ASSUME theirs # NoTag PROVE \E n \in speakable : theirs = rows[n].lang
    OBVIOUS
  <2> HIDE DEF candidates, speakable
  <2>1. theirs = ClosestLanguage(runtime.speaks, candidates)
    OBVIOUS
  <2>2. \E n \in DOMAIN candidates : theirs = candidates[n]
    <3> HIDE DEF theirs
    <3> QED
      BY <2>1, ClosestIsAvailable
  <2> QED
    BY <1>2, <2>2
<1>7. most # {} => \E n \in speakable : candidates[CHOOSE m \in most : TRUE] = rows[n].lang
  <2> HIDE DEF most, candidates, speakable
  <2>1. most # {} => (CHOOSE m \in most : TRUE) \in most
    OBVIOUS
  <2> QED
    BY <1>2, <1>3, <2>1
<1> HIDE DEF closest, theirs
<1>8. chosen # NoTag => CanCarrySentences(RowsOf(rows, chosen))
  <2> HIDE DEF chosen, most, candidates, speakable
  <2> SUFFICES ASSUME chosen # NoTag PROVE \E n \in speakable : chosen = rows[n].lang
    BY <1>4
  <2> QED
    BY <1>1, <1>5, <1>6, <1>7
<1>9. ASSUME CanCarrySentences(rows) PROVE chosen # NoTag
  <2>1. PICK k \in DOMAIN rows : rows[k].template
    BY <1>9 DEF CanCarrySentences
  <2> DEFINE alike == {m \in DOMAIN rows : SameLanguage(rows[m].lang, rows[k].lang)}
  <2>2. alike \in SUBSET Nat /\ alike # {}
    BY <1>0, <2>1 DEF SameLanguage
  <2>3. PICK first \in alike : \A m \in alike : first <= m
    <3> HIDE DEF alike
    <3> QED
      BY <2>2, LeastOf
  <2>4. first \in Groups(rows)
    <3> SUFFICES ASSUME NEW m \in DOMAIN rows, m < first, SameLanguage(rows[m].lang, rows[first].lang)
                 PROVE  FALSE
      BY DEF Groups
    <3>1. m \in alike
      BY DEF SameLanguage
    <3>2. first \in Nat /\ m \in Nat
      BY <1>0
    <3> QED
      BY <2>3, <3>1, <3>2
  <2>5. k \in Speaking(rows, first)
    BY <2>1 DEF Speaking, SameLanguage
  <2>6. first \in speakable
    BY <1>0, <2>4, <2>5, SpeakingCounted DEF says
  <2> DEFINE score == [n \in speakable |-> says(n)]
  <2>7. /\ speakable \in SUBSET Nat /\ speakable # {} /\ score \in [speakable -> 0 .. bound]
    <3>1. \A n : says(n) \in 0 .. bound
      BY <1>0, SpeakingCounted DEF says
    <3>2. speakable \in SUBSET Nat /\ speakable # {}
      BY <1>0, <1>2, <2>6
    <3> HIDE DEF speakable
    <3> QED
      BY <3>1, <3>2
  <2>8. PICK n \in speakable : \A m \in speakable : score[n] > score[m] \/ (score[n] = score[m] /\ n <= m)
    <3> HIDE DEF speakable, score
    <3> QED
      BY <2>7, FirstOfTheBest
  <2>9. n \in most
    <3>1. \A m \in speakable : score[m] = says(m)
      OBVIOUS
    <3> HIDE DEF speakable, score
    <3> QED
      BY <2>8, <3>1
  <2>10. candidates[CHOOSE m \in most : TRUE] # NoTag
    <3>1. most # {}
      BY <2>9
    <3> HIDE DEF most, candidates, speakable
    <3> QED
      BY <1>2, <1>7, <3>1
  <2>11. most # {}
    BY <2>9
  <2> HIDE DEF most, candidates, chosen
  <2> QED
    BY <1>1, <2>10, <2>11
<1> QED
  BY <1>8, <1>9


--------------------------------------------------------------------------------
\* What is listed is a part of what the hub has.
PartOf(rows) ==
  /\ DOMAIN rows \subseteq DOMAIN runtime.rows
  /\ \A n \in DOMAIN rows : rows[n] = runtime.rows[n]

ListingStages == {"own", "usual", "whole"}

HubKnows == AreRows(runtime.rows) /\ Len(languages) \in Nat

PlacesKnow ==
  /\ at \in {"own", "usual", "whole", "adapt", "padatious", "describe", "over"}
  /\ outcome \in {"none", "inventory", "names", "denied", "silent", "failed", "broken", "canceled"}
  /\ (at = "over") = (outcome # "none")
  /\ Len(listedIn) \in Nat /\ Len(listedIn) =< Len(languages)
  /\ at \in ListingStages => Len(listedIn) < Len(languages)

SentKnows ==
  /\ sent \in Seq(ToSet(sent)) /\ waiting \subseteq DOMAIN sent
  /\ answered \in Nat /\ answered =< Len(sent)
  /\ at = "over" => waiting = {}

CopiesKnow == copies \in Seq(Nat) /\ Len(copies) = Len(sent)

ListedKnows ==
  /\ listedIn \in Seq(DOMAIN listed) /\ ToSet(listedIn) = DOMAIN listed
  /\ \A t \in DOMAIN listed : PartOf(listed[t])
  /\ PartOf(own.rows) /\ PartOf(whole.rows)

\* Until the whole manifest came without a sentence, every language has one.
SpeaksKnows ==
  /\ options.nearest /\ (whole = Unasked \/ CanCarrySentences(whole.rows))
       => \A t \in DOMAIN listed : CanCarrySentences(listed[t])
  /\ at = "whole" => whole = Unasked

\* The registrations asked about.
AskedAbout == {sent[n].about : n \in {m \in DOMAIN sent : sent[m].kind = "describe"}}

DescribedKnows ==
  /\ at \notin {"describe", "over"} => DOMAIN found = {} /\ late = {} /\ AskedAbout = {}
  /\ DOMAIN found \subseteq Wanted /\ DOMAIN found \subseteq AskedAbout
  /\ late \subseteq Wanted /\ late \intersect DOMAIN found = {}
  /\ \A k \in DOMAIN found : found[k] \subseteq Samples(k)
  /\ late # {} => HasDefinitions(found)
  /\ outcome = "inventory" => Wanted \subseteq DOMAIN found \union late
  /\ outcome = "silent" => ~HasDefinitions(found)

\* Of a batch, those found.
FoundOf(batch) == {m \in batch : sent[m].about \in DOMAIN found}

BatchKnows ==
  at = "describe" =>
    /\ \A m \in waiting : sent[m].kind = "describe" /\ sent[m].about \in Wanted \ late
    /\ AskedAbout \subseteq DOMAIN found \union late \union {sent[m].about : m \in waiting}
    /\ waiting # {} => answered =< Cardinality(FoundOf(waiting))

CallKnows == HubKnows /\ PlacesKnow /\ SentKnows /\ ListedKnows /\ SpeaksKnows /\ DescribedKnows /\ BatchKnows

IntentsKnow == CallKnows /\ CopiesKnow

--------------------------------------------------------------------------------
LEMMA PartsAreRows ==
  ASSUME HubKnows, NEW rows, PartOf(rows)
  PROVE  AreRows(rows)
BY DEF HubKnows, PartOf, AreRows

LEMMA EmptyIsPart == PartOf(<< >>)
BY DEF PartOf

LEMMA ListingIsPart ==
  ASSUME NEW t
  PROVE  PartOf(Listing(t))
<1>1. CASE t = NoTag
  BY <1>1 DEF Listing, PartOf
<1>2. CASE t # NoTag
  <2> DEFINE theirs == {n \in DOMAIN runtime.rows : runtime.rows[n].lang = t}
  <2>1. Listing(t) = [n \in theirs |-> runtime.rows[n]]
    BY <1>2 DEF Listing, Restrict
  <2> QED
    BY <2>1 DEF PartOf
<1> QED
  BY <1>1, <1>2

LEMMA RowsOfIsPart ==
  ASSUME NEW t, NEW rows, PartOf(rows)
  PROVE  PartOf(RowsOf(rows, t))
<1> DEFINE theirs == {n \in DOMAIN rows : SameLanguage(rows[n].lang, t)}
<1>1. RowsOf(rows, t) = [n \in theirs |-> rows[n]]
  BY DEF RowsOf, Restrict
<1> QED
  BY <1>1 DEF PartOf

LEMMA NothingToSay == ~CanCarrySentences(<< >>)
BY DEF CanCarrySentences

LEMMA AppendedTo ==
  ASSUME NEW S, NEW s \in Seq(S), NEW e
  PROVE  /\ Append(s, e) \in Seq(S \union {e})
         /\ Len(Append(s, e)) = Len(s) + 1
         /\ \A x : x \in ToSet(Append(s, e)) <=> x \in ToSet(s) \/ x = e
         /\ \A i \in 1 .. Len(s) : Append(s, e)[i] = s[i]
         /\ Append(s, e)[Len(s) + 1] = e
<1>1. s \in Seq(S \union {e})
  OBVIOUS
<1> QED
  BY <1>1 DEF ToSet

LEMMA OfItsOwn ==
  ASSUME NEW S, NEW s \in Seq(S)
  PROVE  s \in Seq(ToSet(s))
BY DEF ToSet

--------------------------------------------------------------------------------
\* The call is over.
LEMMA QueryOverKnows ==
  ASSUME CallKnows, UNCHANGED <<Given, sent, answered>>, at # "over",
         NEW what \in {"inventory", "names", "denied", "silent", "failed", "broken", "canceled"},
         QueryOver(what),
         what = "inventory" => Wanted \subseteq DOMAIN found \union late,
         what = "silent" => ~HasDefinitions(found)
  PROVE  CallKnows'
<1> USE DEF CallKnows
<1>1. /\ languages' = languages /\ options' = options /\ runtime' = runtime /\ sent' = sent
      /\ answered' = answered /\ outcome' = what /\ at' = "over" /\ waiting' = {} /\ own' = own
      /\ whole' = whole /\ listed' = listed /\ listedIn' = listedIn /\ found' = found /\ late' = late
  BY DEF QueryOver, Given
<1>2. HubKnows' /\ PlacesKnow' /\ SentKnows'
  BY <1>1 DEF HubKnows, PlacesKnow, SentKnows, ListingStages, AreRows, ToSet
<1>3. ListedKnows' /\ SpeaksKnows'
  BY <1>1 DEF ListedKnows, SpeaksKnows, PartOf, ToSet
<1>4. Wanted' = Wanted /\ AskedAbout' = AskedAbout
  BY <1>1 DEF Wanted, AskedAbout
<1>5. DescribedKnows' /\ BatchKnows'
  BY <1>1, <1>4 DEF DescribedKnows, BatchKnows
<1> QED
  BY <1>2, <1>3, <1>5

\* A language is listed; the descriptions have not begun.
LEMMA ListedUnderKnows ==
  ASSUME CallKnows, UNCHANGED <<Given, sent, answered>>, at \in ListingStages,
         NEW rows, NEW tag, PartOf(rows), ListedUnder(rows, tag), PartOf(whole'.rows),
         options.nearest /\ (whole' = Unasked \/ CanCarrySentences(whole'.rows))
           => CanCarrySentences(rows) /\ \A t \in DOMAIN listed : CanCarrySentences(listed[t])
  PROVE  CallKnows'
<1> USE DEF CallKnows
<1> DEFINE seen == {t \in DOMAIN listed : SameLanguage(t, tag)}
           key == IF seen = {} THEN tag ELSE CHOOSE t \in seen : TRUE
<1>1. /\ languages' = languages /\ options' = options /\ runtime' = runtime /\ sent' = sent
      /\ answered' = answered /\ outcome' = outcome /\ waiting' = {} /\ own' = None
      /\ found' = found /\ late' = late
      /\ listed' = [t \in DOMAIN listed \union {key} |-> IF t = key THEN rows ELSE listed[t]]
      /\ listedIn' = Append(listedIn, key)
      /\ at' = IF Len(listedIn') < Len(languages) THEN "own" ELSE "describe"
  BY DEF ListedUnder, Given
<1> HIDE DEF seen, key
<1>2. /\ listedIn' \in Seq(DOMAIN listed \union {key}) /\ Len(listedIn') = Len(listedIn) + 1
      /\ ToSet(listedIn') = ToSet(listedIn) \union {key}
  <2> DEFINE tags == DOMAIN listed
  <2>1. listedIn \in Seq(tags) /\ listedIn' = Append(listedIn, key)
    BY <1>1 DEF ListedKnows
  <2> HIDE DEF tags
  <2> DEFINE more == Append(listedIn, key)
  <2>2. more \in Seq(tags \union {key}) /\ Len(more) = Len(listedIn) + 1
    BY <2>1, AppendedTo
  <2>3. \A x : x \in ToSet(more) <=> x \in ToSet(listedIn) \/ x = key
    BY <2>1, AppendedTo
  <2>4. listedIn' = more
    BY <2>1
  <2> HIDE DEF more
  <2> QED
    BY <2>2, <2>3, <2>4 DEF tags
<1>3. HubKnows' /\ PlacesKnow'
  BY <1>1, <1>2 DEF HubKnows, PlacesKnow, ListingStages, AreRows
<1>4. SentKnows'
  BY <1>1 DEF SentKnows, ToSet
<1>5. DOMAIN listed' = DOMAIN listed \union {key} /\ listed'[key] = rows
      /\ \A t \in DOMAIN listed' : listed'[t] = rows \/ (t \in DOMAIN listed /\ listed'[t] = listed[t])
  BY <1>1
<1>6. ListedKnows'
  <2>1. \A r : PartOf(r) = PartOf(r)'
    BY <1>1 DEF PartOf
  <2>2. PartOf(own'.rows)
    BY <1>1, EmptyIsPart DEF None
  <2>3. \A t \in DOMAIN listed' : PartOf(listed'[t])
    BY <1>5 DEF ListedKnows
  <2> QED
    BY <1>2, <1>5, <2>1, <2>2, <2>3 DEF ListedKnows
<1>7. SpeaksKnows'
  BY <1>1, <1>5 DEF SpeaksKnows, CanCarrySentences
<1>8. DescribedKnows' /\ BatchKnows'
  <2>1. DOMAIN found = {} /\ late = {} /\ AskedAbout = {} /\ outcome = "none" /\ AskedAbout' = {}
    BY <1>1 DEF DescribedKnows, ListingStages, AskedAbout, PlacesKnow
  <2> QED
    BY <1>1, <2>1 DEF DescribedKnows, BatchKnows
<1> QED
  BY <1>3, <1>4, <1>6, <1>7, <1>8

\* The next attempt is made with what was listed so far kept.
LEMMA KeepsKnows ==
  ASSUME CallKnows, UNCHANGED <<Given, sent, answered>>, at \in ListingStages,
         NEW rows, NEW tag, PartOf(rows), Keeps(rows, tag), at' \in {"usual", "whole"},
         at' = "whole" => whole = Unasked
  PROVE  CallKnows'
<1> USE DEF CallKnows
<1>1. /\ languages' = languages /\ options' = options /\ runtime' = runtime /\ sent' = sent
      /\ answered' = answered /\ outcome' = outcome /\ waiting' = {}
      /\ own'.rows = rows /\ whole' = whole /\ listed' = listed /\ listedIn' = listedIn
      /\ found' = found /\ late' = late
  BY DEF Keeps, Given
<1>2. HubKnows' /\ PlacesKnow' /\ SentKnows'
  BY <1>1 DEF HubKnows, PlacesKnow, SentKnows, ListingStages, AreRows, ToSet
<1>3. ListedKnows' /\ SpeaksKnows'
  BY <1>1 DEF ListedKnows, SpeaksKnows, PartOf, ToSet
<1>4. Wanted' = Wanted /\ AskedAbout' = AskedAbout
  BY <1>1 DEF Wanted, AskedAbout
<1>5. DescribedKnows' /\ BatchKnows'
  BY <1>1, <1>4 DEF DescribedKnows, BatchKnows, ListingStages
<1> QED
  BY <1>2, <1>3, <1>5

\* The engines are asked.
LEMMA NamesNextKnows ==
  ASSUME CallKnows, UNCHANGED <<Given, sent, answered>>, at \notin {"describe", "over"},
         NEW stage \in {"adapt", "padatious"}, NamesNext(stage)
  PROVE  CallKnows'
<1> USE DEF CallKnows
<1>1. /\ languages' = languages /\ options' = options /\ runtime' = runtime /\ sent' = sent
      /\ answered' = answered /\ outcome' = outcome /\ waiting' = {} /\ at' = stage
      /\ own' = own /\ whole' = whole /\ listed' = listed /\ listedIn' = listedIn
      /\ found' = found /\ late' = late
  BY DEF NamesNext, Given
<1>2. HubKnows' /\ PlacesKnow' /\ SentKnows'
  BY <1>1 DEF HubKnows, PlacesKnow, SentKnows, ListingStages, AreRows, ToSet
<1>3. ListedKnows' /\ SpeaksKnows'
  BY <1>1 DEF ListedKnows, SpeaksKnows, PartOf, ToSet
<1>4. Wanted' = Wanted /\ AskedAbout' = AskedAbout
  BY <1>1 DEF Wanted, AskedAbout
<1>5. DescribedKnows' /\ BatchKnows'
  BY <1>1, <1>4 DEF DescribedKnows, BatchKnows
<1> QED
  BY <1>2, <1>3, <1>5

--------------------------------------------------------------------------------
\* The whole manifest, once it is there, gives every language a sentence or
\* has none.
LEMMA InNearestKnows ==
  ASSUME CallKnows, UNCHANGED <<Given, sent, answered>>, at \in ListingStages,
         NEW w, NEW rows, NEW tag, PartOf(w.rows), PartOf(rows), w # Unasked,
         options.nearest /\ CanCarrySentences(w.rows)
           => \A t \in DOMAIN listed : CanCarrySentences(listed[t]),
         InNearest(w, rows, tag)
  PROVE  CallKnows'
<1> DEFINE chosen == NearestHubLanguage(Language, w.rows)
<1>1. whole' = w
  BY DEF InNearest
<1>2. IF chosen = NoTag THEN ListedUnder(rows, tag) ELSE ListedUnder(RowsOf(w.rows, chosen), chosen)
  BY DEF InNearest
<1>3. /\ chosen # NoTag => CanCarrySentences(RowsOf(w.rows, chosen))
      /\ chosen = NoTag => ~CanCarrySentences(w.rows)
  BY PartsAreRows, NearestSpeaks DEF CallKnows
<1> HIDE DEF chosen
<1>4. PartOf(RowsOf(w.rows, chosen))
  BY RowsOfIsPart
<1>5. CASE chosen = NoTag
  BY <1>1, <1>2, <1>3, <1>5, ListedUnderKnows
<1>6. CASE chosen # NoTag
  <2> DEFINE theirs == RowsOf(w.rows, chosen)
  <2>1. PartOf(theirs) /\ ListedUnder(theirs, chosen) /\ CanCarrySentences(theirs)
    BY <1>2, <1>3, <1>4, <1>6
  <2> HIDE DEF theirs
  <2> QED
    BY <1>1, <2>1, ListedUnderKnows
<1> QED
  BY <1>5, <1>6

LEMMA NearerKnows ==
  ASSUME CallKnows, UNCHANGED <<Given, sent, answered>>, at \in {"own", "usual"},
         NEW rows, NEW tag, PartOf(rows), Nearer(rows, tag)
  PROVE  CallKnows'
<1>1. at \in ListingStages /\ PartOf(whole.rows) /\ SpeaksKnows
  BY DEF ListingStages, CallKnows, ListedKnows
<1>2. CASE ~options.nearest \/ CanCarrySentences(rows)
  <2>1. ListedUnder(rows, tag) /\ whole' = whole
    BY <1>2 DEF Nearer
  <2>2. options.nearest /\ (whole' = Unasked \/ CanCarrySentences(whole'.rows))
           => CanCarrySentences(rows) /\ \A t \in DOMAIN listed : CanCarrySentences(listed[t])
    BY <1>1, <1>2, <2>1 DEF SpeaksKnows
  <2> QED
    BY <1>1, <2>1, <2>2, ListedUnderKnows
<1>3. CASE ~(~options.nearest \/ CanCarrySentences(rows)) /\ whole = Unasked
  <2>1. Keeps(rows, tag) /\ at' = "whole"
    BY <1>3 DEF Nearer
  <2> QED
    BY <1>1, <1>3, <2>1, KeepsKnows
<1>4. CASE ~(~options.nearest \/ CanCarrySentences(rows)) /\ whole # Unasked
  <2>1. InNearest(whole, rows, tag)
    BY <1>4 DEF Nearer
  <2>2. options.nearest /\ CanCarrySentences(whole.rows)
           => \A t \in DOMAIN listed : CanCarrySentences(listed[t])
    BY <1>1 DEF SpeaksKnows
  <2> QED
    BY <1>1, <1>4, <2>1, <2>2, InNearestKnows
<1> QED
  BY <1>2, <1>3, <1>4

LEMMA WholeKnows ==
  ASSUME CallKnows, UNCHANGED <<Given, sent, answered>>, at = "whole",
         NEW w, PartOf(w.rows), w # Unasked, InNearest(w, own.rows, own.tag)
  PROVE  CallKnows'
<1>1. at \in ListingStages /\ PartOf(own.rows)
  BY DEF ListingStages, CallKnows, ListedKnows
<1>2. options.nearest => \A t \in DOMAIN listed : CanCarrySentences(listed[t])
  BY DEF CallKnows, SpeaksKnows
<1> QED
  BY <1>1, <1>2, InNearestKnows

LEMMA ListedStepKnows ==
  ASSUME CallKnows, UNCHANGED <<Given, sent, answered>>, at \notin {"describe", "over"},
         NEW rows, PartOf(rows), Listed(rows)
  PROVE  CallKnows'
<1>1. PartOf(own.rows)
  BY DEF CallKnows, ListedKnows
<1>2. CASE at = "own" /\ OwnListed(rows)
  <2>1. CASE Keeps(rows, Language) /\ at' = "usual"
    <3>1. at \in ListingStages
      BY <1>2 DEF ListingStages
    <3> QED
      BY <2>1, <3>1, KeepsKnows
  <2>2. CASE Nearer(rows, Language)
    BY <1>2, <2>2, NearerKnows
  <2> QED
    BY <1>2, <2>1, <2>2 DEF OwnListed
<1>3. CASE at = "usual" /\ UsualListed(rows)
  <2>1. CASE Nearer(rows, UsualForm(Language))
    BY <1>3, <2>1, NearerKnows
  <2>2. CASE Nearer(own.rows, own.tag)
    BY <1>1, <1>3, <2>2, NearerKnows
  <2> QED
    BY <1>3, <2>1, <2>2 DEF UsualListed
<1>4. CASE at = "whole" /\ InNearest(Whole("manifest", rows), own.rows, own.tag)
  <2> DEFINE w == Whole("manifest", rows)
  <2>1. PartOf(w.rows) /\ w # Unasked /\ InNearest(w, own.rows, own.tag)
    BY <1>4 DEF Whole, Unasked
  <2> HIDE DEF w
  <2> QED
    BY <1>4, <2>1, WholeKnows
<1>5. CASE NamesNext("padatious")
  BY <1>5, NamesNextKnows
<1>6. CASE QueryOver("names")
  BY <1>6, QueryOverKnows
<1> QED
  BY <1>2, <1>3, <1>4, <1>5, <1>6 DEF Listed

LEMMA UnlistedStepKnows ==
  ASSUME CallKnows, UNCHANGED <<Given, sent, answered>>, at \notin {"describe", "over"},
         NEW why \in {"denied", "silent", "failed", "broken"}, Unlisted(why)
  PROVE  CallKnows'
<1>1. PartOf(own.rows) /\ ~HasDefinitions(found)
  BY DEF CallKnows, ListedKnows, DescribedKnows, HasDefinitions
<1>2. CASE NamesNext("adapt")
  BY <1>2, NamesNextKnows
<1>3. CASE QueryOver(why)
  BY <1>1, <1>3, QueryOverKnows
<1>4. CASE at = "usual" /\ UsualFailed(why)
  <2>1. CASE QueryOver(why)
    BY <1>3, <2>1
  <2>2. CASE Nearer(own.rows, own.tag)
    BY <1>1, <1>4, <2>2, NearerKnows
  <2> QED
    BY <1>4, <2>1, <2>2 DEF UsualFailed
<1>5. CASE at = "whole" /\ InNearest(Unanswered, own.rows, own.tag)
  <2>1. PartOf(Unanswered.rows) /\ Unanswered # Unasked
    BY EmptyIsPart DEF Whole, Unasked, Unanswered
  <2> QED
    BY <1>5, <2>1, WholeKnows
<1> QED
  BY <1>2, <1>3, <1>4, <1>5 DEF Unlisted

--------------------------------------------------------------------------------
LEMMA FiniteRange ==
  ASSUME NEW S, NEW s \in Seq(S)
  PROVE  IsFiniteSet(ToSet(s))
<1>1. PICK n \in Nat : n = Len(s)
  OBVIOUS
<1>2. s \in [1 .. n -> ToSet(s)] /\ ToSet(s) = {s[i] : i \in 1 .. n}
  BY <1>1 DEF ToSet
<1>3. s \in Surjection(1 .. n, ToSet(s))
  BY <1>2 DEF Surjection
<1>4. IsFiniteSet(1 .. n)
  BY <1>1, FS_Interval
<1> QED
  BY <1>3, <1>4, FS_Surjection

\* What can be asked about is finite: rows of a hub, under tags listed.
LEMMA WantedFinite ==
  ASSUME CallKnows
  PROVE  IsFiniteSet(Wanted)
<1>1. PICK n \in Nat : DOMAIN runtime.rows \subseteq 1 .. n
  BY DEF CallKnows, HubKnows, AreRows
<1> DEFINE I == DOMAIN runtime.rows
           T == ToSet(listedIn)
           f == [p \in I \X T |-> <<runtime.rows[p[1]].intent, p[2]>>]
           R == {f[p] : p \in I \X T}
<1>2. IsFiniteSet(1 .. n)
  BY <1>1, FS_Interval
<1>3. IsFiniteSet(I)
  BY <1>1, <1>2, FS_Subset
<1>4. IsFiniteSet(T)
  <2> DEFINE tags == DOMAIN listed
  <2>1. listedIn \in Seq(tags)
    BY DEF CallKnows, ListedKnows
  <2> HIDE DEF tags
  <2> QED
    BY <2>1, FiniteRange
<1>5. T = DOMAIN listed /\ \A t \in T : PartOf(listed[t])
  BY DEF CallKnows, ListedKnows
<1> HIDE DEF I, T
<1>6. IsFiniteSet(I \X T)
  BY <1>3, <1>4, FS_Product
<1>7. f \in Surjection(I \X T, R)
  <2>1. f \in [I \X T -> R]
    OBVIOUS
  <2> HIDE DEF f
  <2> QED
    BY <2>1 DEF Surjection
<1>8. IsFiniteSet(R)
  <2> HIDE DEF f, R
  <2> QED
    BY <1>6, <1>7, FS_Surjection
<1>9. Wanted \subseteq R
  <2> SUFFICES ASSUME NEW k \in Wanted PROVE k \in R
    OBVIOUS
  <2>1. PICK t \in T : \E m \in DOMAIN listed[t] : k = <<listed[t][m].intent, t>>
    <3>1. Wanted = {} \/ Wanted = UNION {{<<listed[t][m].intent, t>> :
                               m \in {l \in DOMAIN listed[t] : listed[t][l].template}} : t \in T}
      BY DEF Wanted, T
    <3> QED
      BY <3>1
  <2>2. PICK m \in DOMAIN listed[t] : k = <<listed[t][m].intent, t>>
    BY <2>1
  <2>3. m \in I /\ listed[t][m] = runtime.rows[m]
    BY <1>5, <2>1, <2>2 DEF PartOf, I
  <2>4. k = f[<<m, t>>] /\ <<m, t>> \in I \X T
    BY <2>1, <2>2, <2>3
  <2> HIDE DEF f
  <2> QED
    BY <2>4
<1> HIDE DEF R
<1> QED
  BY <1>8, <1>9, FS_Subset

\* A batch in some order: as long as it is large.
LEMMA SetInOrder ==
  ASSUME NEW S, IsFiniteSet(S)
  PROVE  SetToSeq(S) \in [1 .. Cardinality(S) -> S]
<1>1. \E f \in [1 .. Cardinality(S) -> S] : IsInjective(f)
  BY FS_CardinalityType DEF ExistsBijection, Bijection, Injection
<1> QED
  BY <1>1 DEF SetToSeq

--------------------------------------------------------------------------------
LEMMA DeliveredKeeps ==
  ASSUME IntentsKnow, NEW n \in DOMAIN sent, Delivered(n)
  PROVE  CopiesKnow' /\ UNCHANGED <<Given, sent>> /\ waiting # {} /\ at # "over"
<1>1. /\ sent' = sent /\ UNCHANGED Given /\ waiting # {} /\ copies' = [copies EXCEPT ![n] = @ + 1]
  BY DEF Delivered
<1>2. n \in 1 .. Len(sent)
  BY DEF IntentsKnow, CallKnows, SentKnows
<1>3. copies' \in Seq(Nat) /\ Len(copies') = Len(copies)
  BY <1>1, <1>2 DEF IntentsKnow, CopiesKnow
<1>4. at # "over"
  BY <1>1 DEF IntentsKnow, CallKnows, SentKnows
<1> QED
  BY <1>1, <1>3, <1>4 DEF CopiesKnow, IntentsKnow

LEMMA QuerySentKnows ==
  ASSUME IntentsKnow, QuerySent
  PROVE  IntentsKnow'
<1> USE DEF IntentsKnow, CallKnows
<1> DEFINE query == [kind |-> Kind(at), about |-> Tagged]
           queries == ToSet(sent)
<1>1. /\ languages' = languages /\ options' = options /\ runtime' = runtime
      /\ sent' = Append(sent, query) /\ copies' = Append(copies, 0) /\ waiting' = {Len(sent')}
      /\ answered' = answered /\ outcome' = outcome /\ at' = at
      /\ own' = own /\ whole' = whole /\ listed' = listed /\ listedIn' = listedIn
      /\ found' = found /\ late' = late
      /\ at \in {"own", "usual", "whole", "adapt", "padatious"}
  BY DEF QuerySent, Given
<1>2. query.kind # "describe"
  BY <1>1 DEF Kind
<1>3. sent \in Seq(queries)
  BY DEF SentKnows
<1>4. CopiesKnow'
  BY <1>1, <1>3 DEF CopiesKnow
<1> HIDE DEF query, queries
<1>5. /\ sent' \in Seq(queries \union {query}) /\ Len(sent') = Len(sent) + 1
      /\ ToSet(sent') = queries \union {query}
      /\ \A i \in 1 .. Len(sent) : sent'[i] = sent[i]
      /\ sent'[Len(sent) + 1] = query
  <2> DEFINE more == Append(sent, query)
  <2>1. more \in Seq(queries \union {query}) /\ Len(more) = Len(sent) + 1
    BY <1>3, AppendedTo
  <2>2. \A x : x \in ToSet(more) <=> x \in ToSet(sent) \/ x = query
    BY <1>3, AppendedTo
  <2>3. (\A i \in 1 .. Len(sent) : more[i] = sent[i]) /\ more[Len(sent) + 1] = query
    BY <1>3, AppendedTo
  <2>4. sent' = more
    BY <1>1
  <2> HIDE DEF more
  <2> QED
    BY <2>1, <2>2, <2>3, <2>4 DEF queries
<1>6. HubKnows' /\ PlacesKnow'
  BY <1>1 DEF HubKnows, PlacesKnow, ListingStages, AreRows
<1>7. SentKnows'
  <2>1. DOMAIN sent' = 1 .. Len(sent') /\ Len(sent') \in Nat /\ Len(sent) \in Nat
    BY <1>3, <1>5
  <2>2. waiting' \subseteq DOMAIN sent'
    BY <1>1, <1>5, <2>1
  <2>3. answered' \in Nat /\ answered' =< Len(sent')
    BY <1>1, <1>5, <2>1 DEF SentKnows
  <2> QED
    BY <1>1, <1>5, <2>2, <2>3 DEF SentKnows
<1>8. ListedKnows' /\ SpeaksKnows'
  BY <1>1 DEF ListedKnows, SpeaksKnows, PartOf, ToSet
<1>9. AskedAbout' = {} /\ Wanted' = Wanted
  <2>1. \A m \in DOMAIN sent : sent[m].kind # "describe"
    BY <1>1 DEF DescribedKnows, AskedAbout
  <2>2. \A m \in DOMAIN sent' : sent'[m].kind # "describe"
    BY <1>2, <1>3, <1>5, <2>1
  <2> QED
    BY <1>1, <2>2 DEF AskedAbout, Wanted
<1>10. DescribedKnows' /\ BatchKnows'
  BY <1>1, <1>9 DEF DescribedKnows, BatchKnows
<1> QED
  BY <1>4, <1>6, <1>7, <1>8, <1>10

LEMMA BatchSentKnows ==
  ASSUME IntentsKnow, BatchSent
  PROVE  IntentsKnow'
<1> USE DEF IntentsKnow, CallKnows
<1> DEFINE queries == ToSet(sent)
<1>1. /\ languages' = languages /\ options' = options /\ runtime' = runtime
      /\ answered' = 0 /\ outcome' = outcome /\ at' = at /\ at = "describe" /\ waiting = {}
      /\ own' = own /\ whole' = whole /\ listed' = listed /\ listedIn' = listedIn
      /\ found' = found /\ late' = late /\ waiting' = (Len(sent) + 1) .. Len(sent')
  BY DEF BatchSent, Given
<1>2. PICK batch \in SUBSET Left :
        /\ sent' = sent \o SetToSeq({[kind |-> "describe", about |-> k] : k \in batch})
        /\ copies' = copies \o [n \in 1 .. Cardinality(batch) |-> 0]
  BY DEF BatchSent, Batches
<1> DEFINE made == {[kind |-> "describe", about |-> k] : k \in batch}
           ordered == SetToSeq(made)
           f == [k \in batch |-> [kind |-> "describe", about |-> k]]
<1>3. batch \subseteq Wanted \ late
  BY <1>2 DEF Left
<1>4. IsFiniteSet(batch) /\ Cardinality(batch) \in Nat
  <2>1. IsFiniteSet(Wanted)
    BY WantedFinite
  <2> QED
    BY <1>3, <2>1, FS_Subset, FS_CardinalityType
<1>5. IsFiniteSet(made) /\ Cardinality(made) = Cardinality(batch)
  <2>1. f \in [batch -> made]
    OBVIOUS
  <2>2. \A k \in batch : f[k].about = k
    OBVIOUS
  <2>3. \A e \in made : \E k \in batch : f[k] = e
    OBVIOUS
  <2> HIDE DEF f, made
  <2>4. f \in Bijection(batch, made)
    BY <2>1, <2>2, <2>3 DEF Bijection, Injection, Surjection, IsInjective
  <2> QED
    BY <1>4, <2>4, FS_Bijection DEF ExistsBijection
<1>6. \A e \in made : e.kind = "describe" /\ e.about \in Wanted \ late
  BY <1>3
<1> HIDE DEF made
<1>7. PICK n \in Nat : n = Cardinality(batch)
  BY <1>4
<1>8. ordered \in Seq(made) /\ Len(ordered) = n /\ \A i \in 1 .. n : ordered[i] \in made
  <2>1. ordered \in [1 .. n -> made]
    BY <1>5, <1>7, SetInOrder
  <2> HIDE DEF ordered
  <2> QED
    BY <2>1
<1>9. sent' = sent \o ordered
  BY <1>2 DEF made
<1> HIDE DEF ordered
<1>10. sent \in Seq(queries)
  BY DEF SentKnows
<1> HIDE DEF queries
<1>11. PICK l \in Nat : l = Len(sent)
  BY <1>10
<1>12. /\ sent' \in Seq(queries \union made) /\ Len(sent') = l + n
       /\ \A i \in 1 .. l : sent'[i] = sent[i]
       /\ \A i \in l + 1 .. l + n : sent'[i] \in made
  <2>1. sent \in Seq(queries \union made) /\ ordered \in Seq(queries \union made)
    BY <1>8, <1>10
  <2>2. sent \o ordered \in Seq(queries \union made) /\ Len(sent \o ordered) = l + n
    BY <1>8, <1>11, <2>1
  <2>3. \A i \in 1 .. l : (sent \o ordered)[i] = sent[i]
    BY <1>8, <1>11, <2>1
  <2>4. \A i \in l + 1 .. l + n : (sent \o ordered)[i] = ordered[i - l]
    BY <1>8, <1>11, <2>1
  <2>5. \A i \in l + 1 .. l + n : i - l \in 1 .. n
    OBVIOUS
  <2> QED
    BY <1>8, <1>9, <2>2, <2>3, <2>4, <2>5
<1>13. CopiesKnow'
  <2> DEFINE zeros == [i \in 1 .. n |-> 0]
  <2>1. zeros \in Seq(Nat) /\ Len(zeros) = n
    OBVIOUS
  <2>2. copies \in Seq(Nat) /\ Len(copies) = l /\ copies' = copies \o zeros
    BY <1>2, <1>7, <1>11 DEF CopiesKnow
  <2> HIDE DEF zeros
  <2>3. copies' \in Seq(Nat) /\ Len(copies') = l + n
    BY <2>1, <2>2
  <2> QED
    BY <1>12, <2>3 DEF CopiesKnow
<1>14. DOMAIN sent' = 1 .. (l + n) /\ waiting' = l + 1 .. l + n /\ DOMAIN sent = 1 .. l
  BY <1>1, <1>10, <1>11, <1>12
<1>15. HubKnows' /\ PlacesKnow'
  BY <1>1 DEF HubKnows, PlacesKnow, ListingStages, AreRows
<1>16. SentKnows'
  <2>1. sent' \in Seq(ToSet(sent'))
    BY <1>12, OfItsOwn
  <2> QED
    BY <1>1, <1>12, <1>14, <2>1 DEF SentKnows
<1>17. ListedKnows' /\ SpeaksKnows'
  BY <1>1 DEF ListedKnows, SpeaksKnows, PartOf, ToSet
<1>18. Wanted' = Wanted
  BY <1>1 DEF Wanted
<1>19. \A m \in waiting' : sent'[m].kind = "describe" /\ sent'[m].about \in Wanted \ late
  BY <1>6, <1>12, <1>14
<1>20. AskedAbout \subseteq AskedAbout'
  <2>1. \A m \in DOMAIN sent : m \in DOMAIN sent' /\ sent'[m] = sent[m]
    BY <1>12, <1>14
  <2> QED
    BY <2>1 DEF AskedAbout
<1>21. AskedAbout' \subseteq AskedAbout \union {sent'[m].about : m \in waiting'}
  <2> SUFFICES ASSUME NEW m \in DOMAIN sent', sent'[m].kind = "describe", m \notin waiting'
               PROVE  sent'[m].about \in AskedAbout
    BY DEF AskedAbout
  <2>1. m \in DOMAIN sent /\ sent'[m] = sent[m]
    BY <1>12, <1>14
  <2> QED
    BY <2>1 DEF AskedAbout
<1>22. DescribedKnows'
  BY <1>1, <1>18, <1>20 DEF DescribedKnows
<1>23. Cardinality(FoundOf(waiting)') \in Nat
  <2>1. IsFiniteSet(1 .. (l + n))
    BY <1>7, <1>11, FS_Interval
  <2> DEFINE old == FoundOf(waiting)'
  <2>2. old \subseteq 1 .. (l + n)
    BY <1>14 DEF FoundOf
  <2> HIDE DEF old
  <2>3. Cardinality(old) \in Nat
    BY <2>1, <2>2, FS_Subset, FS_CardinalityType
  <2> QED
    BY <2>3 DEF old
<1>24. BatchKnows'
  BY <1>1, <1>18, <1>19, <1>21, <1>23 DEF BatchKnows
<1> QED
  BY <1>13, <1>15, <1>16, <1>17, <1>22, <1>24

LEMMA BatchUnsentKnows ==
  ASSUME IntentsKnow, BatchUnsent
  PROVE  IntentsKnow'
<1> USE DEF IntentsKnow
<1>1. /\ UNCHANGED <<Given, sent, answered>> /\ copies' = copies /\ sent' = sent
      /\ at = "describe" /\ waiting = {}
  BY DEF BatchUnsent
<1>2. CopiesKnow'
  BY <1>1 DEF CopiesKnow
<1>3. CASE ~HasDefinitions(found)
  BY <1>1, <1>2, <1>3, QueryOverKnows DEF BatchUnsent
<1>4. CASE HasDefinitions(found)
  <2> USE DEF CallKnows
  <2>1. PICK batch \in SUBSET Left : late' = late \union batch
    BY <1>4 DEF BatchUnsent, Batches
  <2>2. batch \subseteq Wanted /\ batch \intersect AskedAbout = {}
    BY <2>1 DEF Left, AskedAbout
  <2>3. /\ languages' = languages /\ options' = options /\ runtime' = runtime /\ sent' = sent
        /\ answered' = answered /\ outcome' = outcome /\ at' = at /\ waiting' = waiting /\ own' = own
        /\ whole' = whole /\ listed' = listed /\ listedIn' = listedIn /\ found' = found
    BY <1>4 DEF BatchUnsent, Given
  <2>4. HubKnows' /\ PlacesKnow' /\ SentKnows'
    BY <2>3 DEF HubKnows, PlacesKnow, SentKnows, ListingStages, AreRows, ToSet
  <2>5. ListedKnows' /\ SpeaksKnows'
    BY <2>3 DEF ListedKnows, SpeaksKnows, PartOf, ToSet
  <2>6. Wanted' = Wanted /\ AskedAbout' = AskedAbout
    BY <2>3 DEF Wanted, AskedAbout
  <2>7. outcome = "none"
    BY <1>1 DEF PlacesKnow
  <2>8. DescribedKnows' /\ BatchKnows'
    BY <1>1, <1>4, <2>1, <2>2, <2>3, <2>6, <2>7 DEF DescribedKnows, BatchKnows
  <2> QED
    BY <1>2, <2>4, <2>5, <2>8
<1> QED
  BY <1>3, <1>4

LEMMA InventoryMadeKnows ==
  ASSUME IntentsKnow, InventoryMade
  PROVE  IntentsKnow'
<1> USE DEF IntentsKnow
<1>1. /\ UNCHANGED <<Given, sent, answered>> /\ copies' = copies /\ sent' = sent
      /\ at = "describe" /\ waiting = {} /\ Left = {} /\ QueryOver("inventory")
  BY DEF InventoryMade
<1>2. Wanted \subseteq AskedAbout \union late
  BY <1>1 DEF Left, AskedAbout
<1>3. AskedAbout \subseteq DOMAIN found \union late
  BY <1>1 DEF CallKnows, BatchKnows
<1>4. CallKnows'
  BY <1>1, <1>2, <1>3, QueryOverKnows
<1> QED
  BY <1>1, <1>4 DEF CopiesKnow

--------------------------------------------------------------------------------
\* Everything but how often an answer came is as it was.
LEMMA CallStays ==
  ASSUME CallKnows,
         UNCHANGED <<Given, at, sent, waiting, own, whole, listed, listedIn, found, late, answered, outcome>>
  PROVE  CallKnows'
<1> USE DEF CallKnows
<1>1. /\ languages' = languages /\ options' = options /\ runtime' = runtime /\ sent' = sent
      /\ answered' = answered /\ outcome' = outcome /\ at' = at /\ waiting' = waiting /\ own' = own
      /\ whole' = whole /\ listed' = listed /\ listedIn' = listedIn /\ found' = found /\ late' = late
  BY DEF Given
<1>2. HubKnows' /\ PlacesKnow' /\ SentKnows'
  BY <1>1 DEF HubKnows, PlacesKnow, SentKnows, ListingStages, AreRows, ToSet
<1>3. ListedKnows' /\ SpeaksKnows'
  BY <1>1 DEF ListedKnows, SpeaksKnows, PartOf, ToSet
<1>4. Wanted' = Wanted /\ AskedAbout' = AskedAbout /\ FoundOf(waiting)' = FoundOf(waiting)
  BY <1>1 DEF Wanted, AskedAbout, FoundOf
<1>5. DescribedKnows' /\ BatchKnows'
  BY <1>1, <1>4 DEF DescribedKnows, BatchKnows
<1> QED
  BY <1>2, <1>3, <1>5

LEMMA QueryAnsweredKnows ==
  ASSUME IntentsKnow, NEW n \in DOMAIN sent, QueryAnswered(n)
  PROVE  IntentsKnow'
<1>1. Delivered(n) /\ at # "describe" /\ answered' = answered
  BY DEF QueryAnswered
<1>2. CopiesKnow' /\ UNCHANGED <<Given, sent, answered>> /\ at \notin {"describe", "over"}
  BY <1>1, DeliveredKeeps
<1>3. CASE Listed(Listing(sent[n].about))
  BY <1>2, <1>3, ListingIsPart, ListedStepKnows DEF IntentsKnow
<1>4. CASE Unlisted("failed")
  BY <1>2, <1>4, UnlistedStepKnows DEF IntentsKnow
<1> QED
  BY <1>3, <1>4 DEF QueryAnswered

LEMMA IgnoredKnows ==
  ASSUME IntentsKnow, NEW n \in DOMAIN sent, Ignored(n)
  PROVE  IntentsKnow'
<1>1. Delivered(n)
      /\ UNCHANGED <<at, waiting, own, whole, listed, listedIn, found, late, answered, outcome>>
  BY DEF Ignored
<1>2. CopiesKnow' /\ UNCHANGED <<Given, sent>>
  BY <1>1, DeliveredKeeps
<1> QED
  BY <1>1, <1>2, CallStays DEF IntentsKnow

\* A registration of the batch is described, which closes the batch when it
\* was the last.
LEMMA DescribedStepKnows ==
  ASSUME IntentsKnow, NEW n \in DOMAIN sent, Described(n)
  PROVE  IntentsKnow'
<1> USE DEF IntentsKnow, CallKnows
<1>1. /\ Delivered(n) /\ at = "describe" /\ answered' = answered + 1
      /\ at' = at /\ own' = own /\ whole' = whole /\ listed' = listed /\ listedIn' = listedIn
      /\ late' = late /\ outcome' = outcome
      /\ waiting' = IF answered' = Cardinality(waiting) THEN {} ELSE waiting
  BY DEF Described
<1>2. PICK key \in About(n) \ DOMAIN found :
        \E definitions \in {{}, Samples(sent[n].about)} : Notes(key, definitions)
  BY DEF Described
<1>3. PICK definitions \in {{}, Samples(sent[n].about)} : Notes(key, definitions)
  BY <1>2
<1>4. CopiesKnow' /\ sent' = sent /\ waiting # {}
      /\ languages' = languages /\ options' = options /\ runtime' = runtime
  BY <1>1, DeliveredKeeps DEF Given
<1>5. PICK w \in waiting : sent[w].about = key /\ key = sent[n].about
  <2>1. CASE runtime.echoes
    BY <1>2, <2>1 DEF About
  <2>2. CASE ~runtime.echoes
    BY <1>2, <2>2 DEF About
  <2> QED
    BY <2>1, <2>2
<1>6. /\ DOMAIN found' = DOMAIN found \union {key} /\ found'[key] = definitions
      /\ \A k \in DOMAIN found : found'[k] = found[k]
  BY <1>2, <1>3 DEF Notes
<1>7. /\ key \in Wanted \ late /\ key \in AskedAbout /\ key \notin DOMAIN found
      /\ definitions \subseteq Samples(key) /\ outcome = "none"
  <2>1. sent[w].kind = "describe" /\ sent[w].about \in Wanted \ late /\ w \in DOMAIN sent
    BY <1>1, <1>5 DEF BatchKnows, SentKnows
  <2>2. outcome = "none"
    BY <1>1 DEF PlacesKnow
  <2> QED
    BY <1>2, <1>3, <1>5, <2>1, <2>2 DEF AskedAbout
<1>8. PICK l \in Nat : l = Len(sent) /\ DOMAIN sent = 1 .. l
  BY DEF SentKnows
<1>9. IsFiniteSet(waiting) /\ Cardinality(waiting) \in Nat /\ Cardinality(waiting) =< l
  <2>0. l \in Nat
    BY <1>8
  <2>1. IsFiniteSet(1 .. l) /\ Cardinality(1 .. l) = l
    BY <2>0, FS_Interval
  <2>2. waiting \subseteq 1 .. l
    BY <1>8 DEF SentKnows
  <2> QED
    BY <2>1, <2>2, FS_Subset, FS_CardinalityType
<1> DEFINE before == FoundOf(waiting)
           after  == {m \in waiting : sent[m].about \in DOMAIN found'}
<1>10. before \subseteq waiting /\ after \subseteq waiting /\ before \union {w} \subseteq after /\ w \notin before
  BY <1>5, <1>6, <1>7 DEF FoundOf
<1>11. /\ IsFiniteSet(before) /\ IsFiniteSet(after)
       /\ Cardinality(before) \in Nat /\ Cardinality(after) \in Nat
       /\ Cardinality(after) =< Cardinality(waiting)
       /\ Cardinality(waiting) = Cardinality(after) => waiting = after
  <2> HIDE DEF before, after
  <2> QED
    BY <1>9, <1>10, FS_Subset, FS_CardinalityType
<1>12. Cardinality(before) + 1 =< Cardinality(after)
  <2> HIDE DEF before, after
  <2>1. IsFiniteSet(before \union {w}) /\ Cardinality(before \union {w}) = Cardinality(before) + 1
    BY <1>10, <1>11, FS_AddElement
  <2>2. Cardinality(before \union {w}) =< Cardinality(after)
    BY <1>10, <1>11, FS_Subset
  <2> QED
    BY <2>1, <2>2
<1>13. answered \in Nat /\ answered' \in Nat /\ answered' =< Cardinality(after)
  <2>1. answered \in Nat /\ answered =< Cardinality(before)
    BY <1>1, <1>4 DEF BatchKnows, SentKnows
  <2> HIDE DEF before, after
  <2> QED
    BY <1>1, <1>11, <1>12, <2>1
<1>14. answered' =< Len(sent')
  <2> HIDE DEF before, after
  <2> QED
    BY <1>4, <1>8, <1>9, <1>11, <1>13
<1>15. waiting' = {} => \A m \in waiting : sent[m].about \in DOMAIN found'
  <2>1. SUFFICES ASSUME waiting' = {} PROVE waiting = after
    OBVIOUS
  <2>2. answered' = Cardinality(waiting)
    BY <1>1, <1>4, <2>1
  <2> HIDE DEF before, after
  <2> QED
    BY <1>9, <1>11, <1>13, <2>2
<1>16. HubKnows' /\ PlacesKnow' /\ SentKnows'
  <2>1. HubKnows' /\ PlacesKnow'
    BY <1>1, <1>4 DEF HubKnows, PlacesKnow, ListingStages, AreRows
  <2>2. waiting' \subseteq DOMAIN sent' /\ sent' \in Seq(ToSet(sent'))
    BY <1>1, <1>4 DEF SentKnows, ToSet
  <2> QED
    BY <1>1, <1>13, <1>14, <2>1, <2>2 DEF SentKnows
<1>17. ListedKnows' /\ SpeaksKnows'
  BY <1>1, <1>4 DEF ListedKnows, SpeaksKnows, PartOf, ToSet
<1>18. Wanted' = Wanted /\ AskedAbout' = AskedAbout
  BY <1>1, <1>4 DEF Wanted, AskedAbout
<1>19. HasDefinitions(found) => HasDefinitions(found')
  BY <1>6 DEF HasDefinitions
<1>20. DescribedKnows'
  <2>1. DOMAIN found' \subseteq Wanted' /\ DOMAIN found' \subseteq AskedAbout'
    BY <1>6, <1>7, <1>18 DEF DescribedKnows
  <2>2. late' \subseteq Wanted' /\ late' \intersect DOMAIN found' = {}
    BY <1>1, <1>6, <1>7, <1>18 DEF DescribedKnows
  <2>3. \A k \in DOMAIN found' : found'[k] \subseteq Samples(k)
    BY <1>6, <1>7 DEF DescribedKnows
  <2>4. late' # {} => HasDefinitions(found')
    BY <1>1, <1>19 DEF DescribedKnows
  <2>5. \A k \in DOMAIN found' : found'[k] \subseteq Samples(k)'
    BY <2>3 DEF Samples
  <2>6. HasDefinitions(found)' = HasDefinitions(found')
    BY DEF HasDefinitions
  <2> QED
    BY <1>1, <1>7, <2>1, <2>2, <2>4, <2>5, <2>6 DEF DescribedKnows
<1>21. BatchKnows'
  <2>1. \A m \in waiting' : sent'[m].kind = "describe" /\ sent'[m].about \in Wanted' \ late'
    BY <1>1, <1>4, <1>18 DEF BatchKnows
  <2>2. AskedAbout' \subseteq DOMAIN found' \union late' \union {sent'[m].about : m \in waiting'}
    <3>1. AskedAbout \subseteq DOMAIN found' \union late \union {sent[m].about : m \in waiting}
      BY <1>1, <1>6 DEF BatchKnows
    <3>2. waiting' = {} \/ waiting' = waiting
      BY <1>1
    <3> QED
      BY <1>1, <1>4, <1>15, <1>18, <3>1, <3>2
  <2>3. waiting' # {} => answered' =< Cardinality(FoundOf(waiting)')
    <3>1. waiting' # {} => FoundOf(waiting)' = after
      BY <1>1, <1>4 DEF FoundOf
    <3> HIDE DEF after
    <3> QED
      BY <1>13, <3>1
  <2> QED
    BY <2>1, <2>2, <2>3 DEF BatchKnows
<1> QED
  BY <1>4, <1>16, <1>17, <1>20, <1>21

LEMMA BatchSilentKnows ==
  ASSUME CallKnows, UNCHANGED <<Given, sent, answered>>, at = "describe", waiting # {}, BatchSilent
  PROVE  CallKnows'
<1> USE DEF CallKnows
<1>1. CASE ~HasDefinitions(found)
  BY <1>1, QueryOverKnows DEF BatchSilent
<1>2. CASE HasDefinitions(found)
  <2> DEFINE missed == {sent[n].about : n \in waiting} \ DOMAIN found
  <2>1. /\ languages' = languages /\ options' = options /\ runtime' = runtime /\ sent' = sent
        /\ answered' = answered /\ outcome' = outcome /\ at' = at /\ waiting' = {} /\ own' = own
        /\ whole' = whole /\ listed' = listed /\ listedIn' = listedIn /\ found' = found
        /\ late' = late \union missed
    BY <1>2 DEF BatchSilent, Given
  <2>2. missed \subseteq Wanted /\ missed \intersect DOMAIN found = {}
    BY DEF BatchKnows
  <2>3. AskedAbout \subseteq DOMAIN found \union late \union missed
    BY DEF BatchKnows
  <2> HIDE DEF missed
  <2>4. HubKnows' /\ PlacesKnow' /\ SentKnows'
    BY <2>1 DEF HubKnows, PlacesKnow, SentKnows, ListingStages, AreRows, ToSet
  <2>5. ListedKnows' /\ SpeaksKnows'
    BY <2>1 DEF ListedKnows, SpeaksKnows, PartOf, ToSet
  <2>6. Wanted' = Wanted /\ AskedAbout' = AskedAbout /\ outcome = "none"
    BY <2>1 DEF Wanted, AskedAbout, PlacesKnow
  <2>7. DescribedKnows' /\ BatchKnows'
    BY <1>2, <2>1, <2>2, <2>3, <2>6 DEF DescribedKnows, BatchKnows
  <2> QED
    BY <2>4, <2>5, <2>7
<1> QED
  BY <1>1, <1>2

\* What a query waits for does not come.
LEMMA UnansweredKnows ==
  ASSUME IntentsKnow, HubDenies \/ QueryDeadline \/ LinkEnds \/ IntentsCanceled
  PROVE  IntentsKnow'
<1>1. UNCHANGED <<Given, sent, answered>> /\ copies' = copies /\ sent' = sent
  BY DEF HubDenies, QueryDeadline, LinkEnds, IntentsCanceled
<1>2. CallKnows /\ at # "over"
  BY DEF IntentsKnow, CallKnows, SentKnows, HubDenies, QueryDeadline, LinkEnds, IntentsCanceled
<1>3. CASE at = "describe"
  <2>1. ASSUME QueryOver("denied") \/ QueryOver("broken") \/ QueryOver("canceled") PROVE CallKnows'
    BY <1>1, <1>2, <2>1, QueryOverKnows DEF IntentsKnow
  <2>2. ASSUME BatchSilent /\ waiting # {} PROVE CallKnows'
    BY <1>1, <1>2, <1>3, <2>2, BatchSilentKnows DEF IntentsKnow
  <2>3. CallKnows'
    BY <1>3, <2>1, <2>2 DEF HubDenies, QueryDeadline, LinkEnds, IntentsCanceled
  <2> QED
    BY <1>1, <2>3 DEF IntentsKnow, CopiesKnow
<1>4. CASE at # "describe"
  <2>1. ASSUME Unlisted("denied") \/ Unlisted("silent") \/ Unlisted("broken") PROVE CallKnows'
    BY <1>1, <1>2, <1>4, <2>1, UnlistedStepKnows
  <2>2. ASSUME QueryOver("canceled") PROVE CallKnows'
    BY <1>1, <1>2, <2>2, QueryOverKnows
  <2>3. CallKnows'
    BY <1>4, <2>1, <2>2 DEF HubDenies, QueryDeadline, LinkEnds, IntentsCanceled
  <2> QED
    BY <1>1, <2>3 DEF IntentsKnow, CopiesKnow
<1> QED
  BY <1>3, <1>4

--------------------------------------------------------------------------------
LEMMA IntentsStepKeeps ==
  ASSUME IntentsKnow, [IntentsNext]_intentVars
  PROVE  IntentsKnow'
<1>1. CASE QuerySent
  BY <1>1, QuerySentKnows
<1>2. CASE BatchSent
  BY <1>2, BatchSentKnows
<1>3. CASE BatchUnsent
  BY <1>3, BatchUnsentKnows
<1>4. CASE InventoryMade
  BY <1>4, InventoryMadeKnows
<1>5. ASSUME NEW n \in DOMAIN sent, QueryAnswered(n) \/ Described(n) \/ Ignored(n)
      PROVE  IntentsKnow'
  BY <1>5, QueryAnsweredKnows, DescribedStepKnows, IgnoredKnows
<1>6. CASE HubDenies \/ QueryDeadline \/ LinkEnds \/ IntentsCanceled
  BY <1>6, UnansweredKnows
<1>7. CASE UNCHANGED intentVars
  <2>1. copies' = copies /\ sent' = sent /\ CallKnows'
    BY <1>7, CallStays DEF intentVars, Given, IntentsKnow
  <2> QED
    BY <2>1 DEF IntentsKnow, CopiesKnow
<1> QED
  BY <1>1, <1>2, <1>3, <1>4, <1>5, <1>6, <1>7 DEF IntentsNext

LEMMA IntentsBeginKnowing ==
  ASSUME NEW spoken, NEW runtimes, NEW choices, IntentsInitWith(spoken, runtimes, choices),
         \A tags \in spoken : Len(tags) \in Nat \ {0},
         \A h \in runtimes : AreRows(h.rows)
  PROVE  IntentsKnow
<1>1. /\ languages \in spoken /\ runtime \in runtimes /\ at = "own" /\ outcome = "none"
      /\ sent = << >> /\ copies = << >> /\ waiting = {} /\ own = None /\ whole = Unasked /\ answered = 0
      /\ listed = << >> /\ listedIn = << >> /\ found = << >> /\ late = {}
  BY DEF IntentsInitWith
<1>2. HubKnows /\ PlacesKnow
  BY <1>1 DEF HubKnows, PlacesKnow, ListingStages
<1>3. SentKnows /\ CopiesKnow
  BY <1>1 DEF SentKnows, CopiesKnow, ToSet
<1>4. DOMAIN listed = {} /\ ToSet(listedIn) = {} /\ listedIn \in Seq(DOMAIN listed)
  BY <1>1 DEF ToSet
<1>5. ListedKnows
  BY <1>1, <1>4, EmptyIsPart DEF ListedKnows, None, Unasked, Whole
<1>6. SpeaksKnows
  BY <1>1, <1>4 DEF SpeaksKnows
<1>7. DescribedKnows /\ BatchKnows
  BY <1>1 DEF DescribedKnows, BatchKnows, AskedAbout, HasDefinitions
<1> QED
  BY <1>2, <1>3, <1>5, <1>6, <1>7 DEF IntentsKnow, CallKnows

LEMMA IntentsTellTruth ==
  ASSUME IntentsKnow
  PROVE  IntentsTypeOK /\ SomethingToSay /\ DescriptionsTrue
<1> USE DEF IntentsKnow, CallKnows
<1>1. IntentsTypeOK
  <2>1. DOMAIN copies = DOMAIN sent
    BY DEF SentKnows, CopiesKnow
  <2> QED
    BY <2>1 DEF IntentsTypeOK, PlacesKnow, SentKnows, ListedKnows, DescribedKnows
<1>2. SomethingToSay
  <2>1. \A i \in DOMAIN listedIn : listedIn[i] \in DOMAIN listed
    BY DEF ListedKnows, ToSet
  <2> QED
    BY <2>1 DEF SomethingToSay, SpeaksKnows
<1>3. DescriptionsTrue
  BY DEF DescriptionsTrue, DescribedKnows
<1> QED
  BY <1>1, <1>2, <1>3

--------------------------------------------------------------------------------
(***************************************************************************)
(* The client: every part knows what it should, whichever is at work.      *)
(***************************************************************************)
ClientKnows ==
  /\ GateIInv /\ WorkKnows /\ ConversationsKnow /\ AskKnows /\ ListenKnows /\ HomeKnows
  /\ OriginKnows /\ IntentsKnow

\* A step is one of a single part, and each other part stays as it is.
LEMMA OnePartSteps ==
  ASSUME [Next]_clientVars
  PROVE  /\ [GateNext]_gateVars /\ [ConversationsNext]_conversationVars /\ [AskNext]_askVars
         /\ [ListenNext]_listenVars /\ [HomeNext]_homeVars /\ [IntentsNext]_intentVars
         /\ [OriginNext]_originVars
<1>1. CASE UNCHANGED clientVars
  <2>1. /\ UNCHANGED gateVars /\ UNCHANGED conversationVars /\ UNCHANGED askVars
        /\ UNCHANGED listenVars /\ UNCHANGED homeVars /\ UNCHANGED intentVars /\ UNCHANGED originVars
    BY <1>1 DEF clientVars
  <2> QED
    BY <2>1
<1>2. CASE GateNext /\ AtRest("gate")
  BY <1>2 DEF AtRest
<1>3. CASE ConversationsNext /\ AtRest("conversations")
  BY <1>3 DEF AtRest
<1>4. CASE AskNext /\ AtRest("ask")
  BY <1>4 DEF AtRest
<1>5. CASE ListenNext /\ AtRest("listen")
  BY <1>5 DEF AtRest
<1>6. CASE HomeNext /\ AtRest("home")
  BY <1>6 DEF AtRest
<1>7. CASE IntentsNext /\ AtRest("intents")
  BY <1>7 DEF AtRest
<1>8. CASE OriginNext /\ AtRest("origin")
  BY <1>8 DEF AtRest
<1> QED
  BY <1>1, <1>2, <1>3, <1>4, <1>5, <1>6, <1>7, <1>8 DEF Next

\* What a part at rest knew, it knows.
LEMMA ConversationsRest == ConversationsKnow /\ UNCHANGED conversationVars => ConversationsKnow'
BY DEF ConversationsKnow, conversationVars, Grouped, Seqs

LEMMA AskRest == AskKnows /\ UNCHANGED askVars => AskKnows'
BY DEF AskKnows, AskTypeOK, askVars

LEMMA ListenRest == ListenKnows /\ UNCHANGED listenVars => ListenKnows'
BY DEF ListenKnows, ListenTypeOK, CollectorKnows, EndKnows, StreamTellsTruth, listenVars, Holds, Due, asked

LEMMA HomeRest == HomeKnows /\ UNCHANGED homeVars => HomeKnows'
BY DEF HomeKnows, HomeTypeOK, homeVars

LEMMA OriginRest == OriginKnows /\ UNCHANGED originVars => OriginKnows'
BY DEF OriginKnows, OriginTypeOK, originVars

LEMMA ClientStepKeeps == ClientKnows /\ [Next]_clientVars => ClientKnows'
<1> SUFFICES ASSUME ClientKnows, [Next]_clientVars PROVE ClientKnows'
  OBVIOUS
<1>1. GateIInv' /\ WorkKnows'
  BY OnePartSteps, GateStepKeeps, WorkersStepKeep DEF ClientKnows
<1>2. ConversationsKnow'
  BY OnePartSteps, ConversationsStepKeeps, ConversationsRest DEF ClientKnows
<1>3. AskKnows'
  BY OnePartSteps, AskStepKeeps, AskRest DEF ClientKnows
<1>4. ListenKnows'
  BY OnePartSteps, ListenStepKeeps, ListenRest DEF ClientKnows
<1>5. HomeKnows'
  BY OnePartSteps, HomeStepKeeps, HomeRest DEF ClientKnows
<1>6. OriginKnows'
  BY OnePartSteps, OriginStepKeeps, OriginRest DEF ClientKnows
<1>7. IntentsKnow'
  BY OnePartSteps, IntentsStepKeeps DEF ClientKnows
<1> QED
  BY <1>1, <1>2, <1>3, <1>4, <1>5, <1>6, <1>7 DEF ClientKnows

LEMMA Places ==
  /\ \A a : DOMAIN <<a>> = 1 .. 1 /\ Len(<<a>>) = 1
  /\ \A a, b : DOMAIN <<a, b>> = 1 .. 2 /\ Len(<<a, b>>) = 2
  /\ \A a, b, c : DOMAIN <<a, b, c>> = 1 .. 3
  /\ \A a, b, c, d : DOMAIN <<a, b, c, d>> = 1 .. 4
OBVIOUS

\* The hubs of the instances are hubs: finitely many rows, each of a language.
LEMMA HubsAreHubs ==
  /\ \A tags \in Asked : Len(tags) \in Nat \ {0}
  /\ \A h \in OpenHubs \union OtherHubs : AreRows(h.rows)
<1>1. \A tags \in Asked : Len(tags) \in Nat \ {0}
  <2>1. ASSUME NEW tags \in Asked PROVE \E a, b : tags = <<a, b>>
    BY Zenon DEF Asked
  <2>2. ASSUME NEW tags \in Asked PROVE Len(tags) = 2
    BY <2>1, Places
  <2> QED
    BY <2>2
<1>2. \A rows \in Manifests : \E n \in Nat : DOMAIN rows \subseteq 1 .. n
  <2>0. ASSUME NEW rows \in Manifests
        PROVE  (\E a, b : rows = <<a, b>>) \/ (\E a, b, c : rows = <<a, b, c>>)
               \/ (\E a, b, c, d : rows = <<a, b, c, d>>)
    BY Zenon DEF Manifests
  <2>1. \A rows \in Manifests : DOMAIN rows = 1 .. 2 \/ DOMAIN rows = 1 .. 3 \/ DOMAIN rows = 1 .. 4
    BY <2>0, Places
  <2> SUFFICES ASSUME NEW rows \in Manifests PROVE \E n \in Nat : DOMAIN rows \subseteq 1 .. n
    OBVIOUS
  <2>2. 1 .. 2 \subseteq 1 .. 4 /\ 1 .. 3 \subseteq 1 .. 4
    OBVIOUS
  <2> QED
    BY <2>1, <2>2
<1>3. \A rows \in Manifests : AreRows(rows)
  BY <1>2, NoTagAssumption DEF AreRows
<1>4. \A h \in OpenHubs \union OtherHubs : h.rows \in Manifests
  BY DEF OpenHubs, OtherHubs
<1> QED
  BY <1>1, <1>3, <1>4

LEMMA ClientBeginsKnowing == Init => ClientKnows
<1> SUFFICES ASSUME Init PROVE ClientKnows
  OBVIOUS
<1>1. GateIInv /\ WorkKnows
  BY GateBeginsKnowing, WorkersBeginKnowing DEF Init
<1>2. ConversationsKnow /\ ListenKnows /\ HomeKnows /\ OriginKnows
  BY ConversationsBeginKnowing, ListenBeginsKnowing, HomeBeginsKnowing, OriginBeginsKnowing DEF Init
<1>3. AskKnows
  BY AskBeginsKnowing DEF Init, AskInit
<1>4. IntentsKnow
  <2>1. CASE part = "intents"
    <3>1. IntentsInitWith(Asked, OpenHubs \union OtherHubs, LeftOn)
      BY <2>1 DEF Init
    <3> QED
      BY <3>1, HubsAreHubs, IntentsBeginKnowing
  <2>2. CASE part # "intents"
    <3>1. IntentsInitWith({<<EnUS>>}, {SilentHub}, {NothingElse})
      BY <2>2 DEF Init
    <3>2. \A tags \in {<<EnUS>>} : Len(tags) \in Nat \ {0}
      BY Places
    <3>3. \A h \in {SilentHub} : AreRows(h.rows)
      <4>1. SilentHub.rows = << >>
        BY DEF SilentHub
      <4>2. AreRows(<< >>)
        BY DEF AreRows
      <4> QED
        BY <4>1, <4>2
    <3> DEFINE spoken == {<<EnUS>>}
               runtimes == {SilentHub}
               choices == {NothingElse}
    <3>4. /\ IntentsInitWith(spoken, runtimes, choices)
          /\ \A tags \in spoken : Len(tags) \in Nat \ {0}
          /\ \A h \in runtimes : AreRows(h.rows)
      BY <3>1, <3>2, <3>3, Zenon
    <3> HIDE DEF spoken, runtimes, choices
    <3> QED
      BY <3>4, IntentsBeginKnowing
  <2> QED
    BY <2>1, <2>2
<1> QED
  BY <1>1, <1>2, <1>3, <1>4 DEF ClientKnows

--------------------------------------------------------------------------------
\* For any number of calls, requests, events and connects, what each part
\* relies on holds all along (client.go, listen.go, home.go, intents.go,
\* session.go: one part's steps leave the others' state alone).
THEOREM ClientInvariance == Spec => []ClientKnows
BY ClientBeginsKnowing, ClientStepKeeps, PTL DEF Spec

\* Every part's state is of its type, the conversations remembered are whole
\* and no more than fit, and the inventory call's bookkeeping adds up
\* (client.go:164-199, intents.go:1008-1029).
THEOREM ClientTyped == Spec => []TypeOK
<1>1. ClientKnows => TypeOK
  BY ConversationsWhole, IntentsTellTruth
     DEF ClientKnows, TypeOK, AskKnows, ListenKnows, HomeKnows, OriginKnows
<1> QED
  BY <1>1, ClientInvariance, PTL

\* Nothing a caller is told is untrue: one operation inside the transport, a
\* stream's end and count, a home's answer, a registration's description, a
\* sentence for every language where the hub has one, and the client held
\* (client.go:328-331, listen.go:149-160, home.go:262-289, intents.go:585-597,
\* 1017-1029, session.go:820-860).
THEOREM ClientTellsTruth == Spec => []ClientTruth
<1>1. ClientKnows => OneOperation
  BY DEF ClientKnows, GateIInv, OneOperation, Busy
<1>2. ClientKnows => OneClient
  BY DEF ClientKnows, OriginKnows, OneClient, OriginTypeOK
<1>3. ClientKnows => ClientTruth
  BY <1>1, <1>2, HomeTellsTruth, IntentsTellTruth DEF ClientKnows, ListenKnows, ClientTruth
<1> QED
  BY <1>3, ClientInvariance, PTL

\* A link that is up is taken down for its own failure only, and an origin is
\* left alone for its own (client.go:406-423, session.go:848-853).
THEOREM BlamedForTheirOwnAlways == Spec => BlamedForTheirOwn
<1>1. ClientKnows /\ [Next]_clientVars => SoundLinkKept
  BY OnePartSteps, GateStepSound DEF ClientKnows
<1>2. ClientKnows /\ [Next]_clientVars => BlamedFairly
  <2> SUFFICES ASSUME ClientKnows, [Next]_clientVars PROVE BlamedFairly
    OBVIOUS
  <2>1. CASE UNCHANGED originVars
    BY <2>1 DEF BlamedFairly, originVars
  <2>2. CASE OriginNext
    BY <2>2, OriginStepBlamesFairly DEF ClientKnows
  <2> QED
    BY <2>1, <2>2, OnePartSteps
<1> QED
  BY <1>1, <1>2, ClientInvariance, PTL DEF Spec, BlamedForTheirOwn

\* For any number of asks and queries and any order of their replies, an ask is
\* refused by a denial of its own or of one long over, and loses no speech that
\* arrived before its end (client.go:788-800, 853-870).
THEOREM AskHeardRightAlways == Spec => AskHeardRight
<1>1. ClientKnows /\ [Next]_clientVars => RefusalNotAnothers /\ SpeechNotLost
  BY OnePartSteps, AskStepRefuses, AskStepSpeaks DEF ClientKnows
<1> QED
  BY <1>1, ClientInvariance, PTL DEF Spec, AskHeardRight

\* For any number of home requests, a caller is told once and no reply is begun
\* behind it, whatever the handler and the link do late (home.go:249-258).
THEOREM HomeAnswersAlwaysStand == Spec => HomeAnswersStand
<1>1. ClientKnows /\ [Next]_clientVars => AnswerStands
  <2> SUFFICES ASSUME ClientKnows, [Next]_clientVars PROVE AnswerStands
    OBVIOUS
  <2>1. CASE UNCHANGED homeVars
    BY <2>1 DEF AnswerStands, homeVars
  <2>2. CASE HomeNext
    BY <2>2, HomeStepStands DEF ClientKnows
  <2> QED
    BY <2>1, <2>2, OnePartSteps
<1> QED
  BY <1>1, ClientInvariance, PTL DEF Spec, HomeAnswersStand

\* Of the inventory the same holds for any languages, any hub of finitely many
\* rows and any of the caller's options: nobody who wants a near language is
\* shown one without a sentence by a hub that gave some, and descriptions are
\* filed under what they describe (intents.go:585-597, 1017-1029, 1108-1122).
THEOREM InventoryOfAnyHub ==
  ASSUME NEW CONSTANT spoken, NEW CONSTANT runtimes, NEW CONSTANT choices,
         \A tags \in spoken : Len(tags) \in Nat \ {0},
         \A h \in runtimes : AreRows(h.rows)
  PROVE  IntentsInitWith(spoken, runtimes, choices) /\ [][IntentsNext]_intentVars
           => [](IntentsTypeOK /\ SomethingToSay /\ DescriptionsTrue)
<1>1. IntentsInitWith(spoken, runtimes, choices) => IntentsKnow
  BY IntentsBeginKnowing
<1> QED
  BY <1>1, IntentsStepKeeps, IntentsTellTruth, PTL
================================================================================
