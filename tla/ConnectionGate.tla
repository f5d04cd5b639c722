------------------------------- MODULE ConnectionGate -------------------------------
(***************************************************************************)
(* The connection gate of the runtime client (client.go, context_mutex.go).*)
(* Connect, ConnectWithInfo, Close and every send take the gate and hand   *)
(* it to a worker goroutine, which keeps it until the transport, and the   *)
(* cleanup after a failure, have really returned.  The caller waits no     *)
(* longer than its context: it may be gone while its worker still works.   *)
(* The transport is any RuntimeTransport, one that ignores its context and *)
(* one that is closed before Connect looks at it included.                 *)
(***************************************************************************)
EXTENDS Naturals

CONSTANTS Calls, NoCall  \* slots for calls: a slot is free again once its worker ended too

ASSUME NoCallAssumption == NoCall \notin Calls

VARIABLES
  gate,  \* connectionGate: the call whose worker holds it
  call,  \* call[k]: the caller, its context and its worker
  link   \* what Transport.Healthcheck sees, with the hub's verdict when it closed it

gateVars == <<gate, call, link>>

Ops        == {"connect", "send", "hive", "info", "close"}
Errors     == {"none", "timeout", "refused", "failed", "nothing_sent"}
WorkPlaces == {"none", "look", "connect", "check", "operate", "cleanup", "done"}

GateTypeOK ==
  /\ gate \in Calls \cup {NoCall}
  /\ call \in [Calls -> [op : Ops, at : {"idle", "locking", "waiting"},
                         work : WorkPlaces, over : BOOLEAN, err : Errors,
                         told : Errors]]
  /\ link \in {"up", "down", "refused"}

GateInit ==
  /\ gate = NoCall
  /\ call = [k \in Calls |-> [op |-> "close", at |-> "idle", work |-> "none",
                              over |-> FALSE, err |-> "none", told |-> "none"]]
  /\ link = "down"

--------------------------------------------------------------------------------
(***************************************************************************)
(* The caller.                                                             *)
(***************************************************************************)
CallBegins(k) ==
  /\ call[k].at = "idle" /\ call[k].work = "none"
  /\ \E op \in Ops : call' = [call EXCEPT ![k] =
       [@ EXCEPT !.op = op, !.at = "locking", !.over = FALSE, !.err = "none",
                 !.told = "none"]]
  /\ UNCHANGED <<gate, link>>

\* Propagate, Escalate and Broadcast send with the context they are given; every
\* other call bounds it.
Bounded(k) == call[k].op # "hive"

\* The deadline of the call, or its caller's cancellation.
ContextEnds(k) ==
  /\ ~call[k].over /\ call[k].at # "idle"
  /\ call' = [call EXCEPT ![k].over = TRUE]
  /\ UNCHANGED <<gate, link>>

Returned(k, err) == [call EXCEPT ![k] = [@ EXCEPT !.at = "idle", !.told = err]]

LockGate(k) ==
  /\ call[k].at = "locking" /\ ~call[k].over
  /\ gate = NoCall
  /\ gate' = k
  /\ call' = [call EXCEPT ![k] =
       [@ EXCEPT !.at = "waiting",
                 !.work = IF call[k].op = "connect" THEN "look" ELSE "operate"]]
  /\ UNCHANGED link

LockGivesUp(k) ==
  /\ call[k].at = "locking" /\ call[k].over
  /\ call' = Returned(k, "timeout")
  /\ UNCHANGED <<gate, link>>

\* The result is in, but a context that has ended by now outweighs it.
TakeResult(k) ==
  /\ call[k].at = "waiting" /\ call[k].work \in {"done", "none"}
  /\ call' = Returned(k, IF call[k].over THEN "timeout" ELSE call[k].err)
  /\ UNCHANGED <<gate, link>>

\* Mutant: the caller gives the gate back as it leaves.
CallerLeavesUnlocking(k) ==
  /\ call[k].at = "waiting" /\ call[k].over
  /\ call' = Returned(k, "timeout")
  /\ gate' = NoCall
  /\ UNCHANGED link

\* Mutant: the caller waits for its worker.
CallerStays(k) == call[k].at = "waiting" /\ FALSE /\ UNCHANGED gateVars

CallerLeaves(k) ==
  /\ call[k].at = "waiting" /\ call[k].over
  /\ call' = Returned(k, "timeout")
  /\ UNCHANGED <<gate, link>>

--------------------------------------------------------------------------------
(***************************************************************************)
(* The worker.                                                             *)
(***************************************************************************)
WorkGoesOn(k, place, err) == call' = [call EXCEPT ![k] = [@ EXCEPT !.work = place, !.err = err]]

\* Where Connect's worker goes with err: any error is cleaned up.
Settled(k, err) == WorkGoesOn(k, IF err = "none" THEN "done" ELSE "cleanup", err)

ConnectLooks(k) ==
  /\ call[k].work = "look"
  /\ \/ call[k].over /\ Settled(k, "timeout")
     \/ ~call[k].over /\ link = "up" /\ Settled(k, "none")
     \/ ~call[k].over /\ link # "up" /\ WorkGoesOn(k, "connect", "none")
  /\ UNCHANGED <<gate, link>>

TransportConnects(k) ==
  /\ call[k].work = "connect"
  /\ \E err \in {"none", "failed"} :
       /\ WorkGoesOn(k, "check", err)
       /\ link' \in {"up", "down", "refused"}
  /\ UNCHANGED gate

\* What a link that is gone after a Connect without error says of the hub.
ClosedBeforeReady == IF link = "refused" THEN "refused" ELSE "failed"

ConnectChecks(k) ==
  /\ call[k].work = "check"
  /\ Settled(k, IF call[k].over THEN "timeout"
                ELSE IF call[k].err = "none" /\ link # "up" THEN ClosedBeforeReady
                ELSE call[k].err)
  /\ UNCHANGED <<gate, link>>

\* Mutant: any error of a send or a Close is cleaned up after.
CleansAnyError(op, err) == op # "info" /\ err # "none"

\* Of runOwned: a send that wrote nothing leaves the transport sound.  After a
\* hive send, as after a Close, nothing is cleaned up.
NeedsCleanup(op, err) == op = "send" /\ err \notin {"none", "nothing_sent"}

Operated(k, err) ==
  WorkGoesOn(k, IF NeedsCleanup(call[k].op, err) THEN "cleanup" ELSE "done",
             IF err # "none" /\ call[k].over THEN "timeout" ELSE err)

TransportSends(k) ==
  /\ call[k].work = "operate" /\ call[k].op \in {"send", "hive"}
  /\ \/ link = "up" /\ Operated(k, "none") /\ UNCHANGED link
     \/ Operated(k, "nothing_sent") /\ UNCHANGED link
     \/ Operated(k, "failed") /\ link' \in {link, "down"}
  /\ UNCHANGED gate

TransportTells(k) ==
  /\ call[k].work = "operate" /\ call[k].op = "info"
  /\ Operated(k, "none")
  /\ UNCHANGED <<gate, link>>

TransportCloses(k) ==
  /\ call[k].work = "operate" /\ call[k].op = "close"
  /\ \/ Operated(k, "none") /\ link' = "down"
     \/ Operated(k, "failed") /\ UNCHANGED link
  /\ UNCHANGED gate

\* Disconnect with a context of its own, its error ignored.
Cleanup(k) ==
  /\ call[k].work = "cleanup"
  /\ WorkGoesOn(k, "done", call[k].err)
  /\ link' \in {link, "down"}
  /\ UNCHANGED gate

UnlockGate(k) ==
  /\ call[k].work = "done"
  /\ call' = [call EXCEPT ![k].work = "none"]
  /\ gate' = NoCall
  /\ UNCHANGED link

LinkDrops ==
  /\ link = "up"
  /\ link' \in {"down", "refused"}
  /\ UNCHANGED <<gate, call>>

TransportStep(k) ==
  \/ TransportConnects(k) \/ TransportSends(k) \/ TransportTells(k)
  \/ TransportCloses(k)   \/ Cleanup(k)

CallerStep(k) == LockGivesUp(k) \/ TakeResult(k) \/ CallerLeaves(k)

WorkerStep(k) == ConnectLooks(k) \/ ConnectChecks(k) \/ UnlockGate(k)

GateNext ==
  \/ \E k \in Calls : CallBegins(k) \/ ContextEnds(k) \/ LockGate(k)
                      \/ CallerStep(k) \/ WorkerStep(k) \/ TransportStep(k)
  \/ LinkDrops

\* The deadline of a bounded call comes, and the goroutines are scheduled.
\* Nothing makes the transport return.
GateFairness ==
  \A k \in Calls : /\ WF_gateVars(Bounded(k) /\ ContextEnds(k))
                   /\ WF_gateVars(CallerStep(k)) /\ WF_gateVars(WorkerStep(k))

GateSpec == GateInit /\ [][GateNext]_gateVars /\ GateFairness

--------------------------------------------------------------------------------
\* Calls of this client are inside the transport: in Connect, in a send, in
\* a Disconnect or in the cleanup.
Busy(k) == call[k].work \in {"connect", "operate", "cleanup"}

\* The transport serves one call of the client at a time, whoever has left
\* meanwhile: nobody dials, sends or closes during another call's cleanup
\* (client.go:328-331, 399-400).
OneOperation == \A j, k \in Calls : Busy(j) /\ Busy(k) => j = k

\* The inductive invariant of OneOperation: the gate is owned by exactly the
\* call whose worker is alive.
GateIInv ==
  /\ GateTypeOK
  /\ \A k \in Calls : call[k].work # "none" <=> gate = k
  /\ \A k \in Calls : call[k].at = "locking" => call[k].work = "none"

\* A link that is up is only taken down by the hub, by Close, by a send of any
\* kind that fails on it, and by the cleanup of a Connect or send that failed:
\* a caller that gave up while queued and a send that wrote nothing leave it
\* to the others (client.go:399-400, 410-415).
SoundLinkKept ==
  link = "up" /\ link' # "up" =>
    \/ call' = call
    \/ \E k \in Calls : /\ gate = k /\ Busy(k)
                        /\ call[k].op \in {"connect", "send", "hive", "close"}
                        /\ call'[k].err # "nothing_sent"

\* A call returns once its context is over, which a bounded one's will be,
\* even when the transport never does, and as long as the transport does the
\* gate is always given back (client.go:331, 399: the caller is bounded, its
\* worker keeps the gate).
GateServes ==
  /\ \A k \in Calls :
       call[k].at # "idle" /\ (Bounded(k) \/ call[k].over) ~> call[k].at = "idle"
  /\ (\A k \in Calls : WF_gateVars(TransportStep(k))) => []<>(gate = NoCall)
================================================================================
