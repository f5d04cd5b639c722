------------------------------- MODULE HubSession -------------------------------
(***************************************************************************)
(* The link kept by a HubSession (session.go).  The session holds at most  *)
(* one client.  Everything that replaces, closes or uses that client runs  *)
(* on a goroutine that owns the gate, a channel of capacity one:           *)
(*                                                                         *)
(*   Callers   foreground goroutines: Connect, Ask/Emit/Reply (call),      *)
(*             Warm, Probe and Close, any number of times each;            *)
(*   Run       the supervising goroutine of HubSession.Run;                *)
(*   Warmer    the goroutine Warm starts, at most one at a time.           *)
(*                                                                         *)
(* A client is an object the factory builds: "gone" before it is built and *)
(* after its Close succeeded, "open" while its link is up (Alive), "dead"  *)
(* when the link has dropped but Close has not succeeded.  Time is left    *)
(* out: cooling stands for retryAt lying in the future, a context may end  *)
(* at any step, and the refusal grace of Run (module LinkSupervisor) shows *)
(* as a choice between trying again and giving up after a refusal.         *)
(***************************************************************************)

CONSTANTS
  Callers,  \* goroutines that use the session
  Run,      \* the goroutine inside HubSession.Run
  Warmer,   \* the goroutine started by Warm
  Clients,  \* the client objects the factory hands out
  Entries,  \* what callers do: a subset of "connect", "call", "warm", ...
  Deadlines, \* the goroutines whose context may end: a subset of Procs
  None      \* nil

Procs == Callers \cup {Run, Warmer}

ASSUME RolesAssumption ==
  /\ Run \notin Callers
  /\ Warmer \notin Callers
  /\ Run # Warmer
  /\ None \notin Procs
  /\ None \notin Clients

VARIABLES
  gate,     \* the goroutine whose token fills the gate, or None
  client,   \* s.client: the client held, or None
  retired,  \* s.retired: a client let go whose Close has not succeeded
  closed,   \* s.closed
  warming,  \* s.warming
  cooling,  \* s.clock().Before(s.retryAt)
  up,       \* s.up: what the OnStateChange watchers were last told
  status,   \* status[c]: what has become of client object c
  pc,       \* pc[p]: where goroutine p is
  op,       \* op[p]: the operation p runs
  ended,    \* ended[p]: the context of p's operation has ended
  err,      \* err[p]: the error p's operation has met so far
  local,    \* local[p]: the client in p's local variable
  shut      \* a Close has returned nil

session   == <<client, retired, closed, warming, cooling, up>>
goroutine == <<pc, op, ended, err, local>>
vars == <<gate, client, retired, closed, warming, cooling, up, status, pc, op,
          ended, err, local, shut>>

Operations == {"none", "connect", "call", "warm", "probe", "close", "watch"}

\* What an error says to Run: nothing wrong, a failure, a refusal of the
\* credentials, or a key no retry can change (linkOutcome).
DialErrors == {"failed", "refused", "key"}
Errors     == {"none"} \cup DialErrors

\* Places where the goroutine owns the gate ...
GatePlaces == {"held", "stale", "letGo", "ensure", "cleaning", "dialling",
               "adopt", "discarding", "settling", "markUp", "operating", "drop",
               "closing", "release"}
\* ... and places where it does not.
FreePlaces == {"idle", "acquire", "released", "loop", "watching", "decide",
               "pausing"}

TypeOK ==
  /\ gate \in Procs \cup {None}
  /\ client \in Clients \cup {None}
  /\ retired \in Clients \cup {None}
  /\ closed \in BOOLEAN
  /\ warming \in BOOLEAN
  /\ cooling \in BOOLEAN
  /\ up \in BOOLEAN
  /\ status \in [Clients -> {"gone", "open", "dead"}]
  /\ pc \in [Procs -> GatePlaces \cup FreePlaces]
  /\ op \in [Procs -> Operations]
  /\ ended \in [Procs -> BOOLEAN]
  /\ err \in [Procs -> Errors]
  /\ local \in [Procs -> Clients \cup {None}]
  /\ shut \in BOOLEAN

Init ==
  /\ gate = None
  /\ client = None
  /\ retired = None
  /\ closed = FALSE
  /\ warming = FALSE
  /\ cooling = FALSE
  /\ up = FALSE
  /\ status = [c \in Clients |-> "gone"]
  /\ pc = [p \in Procs |-> "idle"]
  /\ op = [p \in Procs |-> "none"]
  /\ ended = [p \in Procs |-> FALSE]
  /\ err = [p \in Procs |-> "none"]
  /\ local = [p \in Procs |-> None]
  /\ shut = FALSE

--------------------------------------------------------------------------------
(***************************************************************************)
(* Helpers.                                                                *)
(***************************************************************************)

Alive(c) == c # None /\ status[c] = "open"

Unclosed == {c \in Clients : status[c] # "gone"}

GoTo(p, place) == pc' = [pc EXCEPT ![p] = place]

Fails(p, e) == err' = [err EXCEPT ![p] = e]

\* The operation of p is over: its goroutine or its caller goes on.
Finish(p) ==
  /\ pc'    = [pc    EXCEPT ![p] = "idle"]
  /\ op'    = [op    EXCEPT ![p] = "none"]
  /\ ended' = [ended EXCEPT ![p] = FALSE]
  /\ err'   = [err   EXCEPT ![p] = "none"]
  /\ local' = [local EXCEPT ![p] = None]

\* Goroutine p starts operation o at a place, with a live context.
Start(p, o, place) ==
  /\ pc' = [pc EXCEPT ![p] = place]
  /\ op' = [op EXCEPT ![p] = o]
  /\ UNCHANGED <<ended, err, local>>

--------------------------------------------------------------------------------
(***************************************************************************)
(* Callers enter and leave.                                                *)
(***************************************************************************)

\* Connect, Ask, Emit or Reply is called; it first waits for the gate.
Enter(p) ==
  /\ p \in Callers
  /\ pc[p] = "idle"
  /\ \E o \in Entries \cap {"connect", "call"} : Start(p, o, "acquire")
  /\ UNCHANGED <<gate, session, status, shut>>

\* Close marks the session closed before it waits for the gate.
EnterClose(p) ==
  /\ "close" \in Entries
  /\ p \in Callers
  /\ pc[p] = "idle"
  /\ closed' = TRUE
  /\ Start(p, "close", "acquire")
  /\ UNCHANGED <<gate, client, retired, warming, cooling, up, status, shut>>

\* Probe takes the gate only when it is free.
ProbeWaitsForNobody == TRUE        \* mutant: Probe without the gate
ProbeMayEnter == gate = None

EnterProbe(p) ==
  /\ "probe" \in Entries
  /\ p \in Callers
  /\ pc[p] = "idle"
  /\ ProbeMayEnter
  /\ gate' = p
  /\ Start(p, "probe", "held")
  /\ UNCHANGED <<session, status, shut>>

\* The check Warm makes before it starts its goroutine.
MayWarm == ~closed /\ ~warming /\ ~cooling

Warm(p) ==
  /\ "warm" \in Entries
  /\ p \in Callers
  /\ pc[p] = "idle"
  /\ MayWarm
  /\ warming' = TRUE
  /\ Start(Warmer, "warm", "acquire")
  /\ UNCHANGED <<gate, client, retired, closed, cooling, up, status, shut>>

\* The gate is free; a context that ended meanwhile gives it straight back,
\* which Withdraw covers.
Acquire(p) ==
  /\ pc[p] = "acquire"
  /\ gate = None
  /\ ~ended[p]
  /\ gate' = p
  /\ GoTo(p, "held")
  /\ UNCHANGED <<session, status, op, ended, err, local, shut>>

\* The context ended before the gate was had: the operation does nothing.
Withdraw(p) ==
  /\ pc[p] = "acquire"
  /\ ended[p]
  /\ Finish(p)
  /\ warming' = IF p = Warmer THEN FALSE ELSE warming
  /\ UNCHANGED <<gate, client, retired, closed, cooling, up, status, shut>>

--------------------------------------------------------------------------------
(***************************************************************************)
(* The goroutine that owns the gate.                                       *)
(***************************************************************************)

\* What each operation does first with the client the session holds.  The
\* place "stale" drops it and then goes on to ensure; "drop" drops it and ends.

\* Connect keeps a link that is up.
ConnectLooks(p) ==
  /\ op[p] = "connect"
  /\ GoTo(p, IF client = None THEN "ensure"
             ELSE IF Alive(client) THEN "release" ELSE "stale")

\* Ask, Emit and Reply (call).
CallLooks(p) ==
  /\ op[p] = "call"
  /\ GoTo(p, IF client = None \/ Alive(client) THEN "ensure" ELSE "stale")

\* Warm does not look: ensure returns the client that is held, up or not.
WarmLooks(p) == op[p] = "warm" /\ GoTo(p, "ensure")

ProbeLooks(p) ==
  /\ op[p] = "probe"
  /\ GoTo(p, IF ~closed /\ client # None /\ ~Alive(client)
               THEN "drop" ELSE "release")

\* Run's watch drops the client it saw down, if it is still the one held.
WatchLooks(p) ==
  /\ op[p] = "watch"
  /\ GoTo(p, IF client = local[p] THEN "drop" ELSE "release")

CloseLooks(p) == op[p] = "close" /\ GoTo(p, "drop")

Look(p) ==
  /\ pc[p] = "held"
  /\ \/ ConnectLooks(p) \/ CallLooks(p) \/ WarmLooks(p)
     \/ ProbeLooks(p) \/ WatchLooks(p) \/ CloseLooks(p)
  /\ UNCHANGED <<gate, session, status, op, ended, err, local, shut>>

ForgotRetiring == retired            \* mutant: drop loses the client
LetGo == IF client # None THEN client ELSE retired

\* drop: the client is let go in one critical section, and the watchers hear
\* that the link is down.
Drop(p) ==
  /\ pc[p] \in {"stale", "drop"}
  /\ retired' = LetGo
  /\ client' = None
  /\ up' = FALSE
  /\ GoTo(p, IF pc[p] = "drop" THEN "closing" ELSE "letGo")
  /\ UNCHANGED <<gate, closed, warming, cooling, status, op, ended, err,
                 local, shut>>

NeverRefuses == FALSE                \* mutant: ensure without the check
Refuses == closed

\* ensure: the session is still open?  The client is read in the same section.
Ensure(p) ==
  /\ pc[p] = "ensure"
  /\ IF Refuses
       THEN /\ Fails(p, "failed")
            /\ GoTo(p, "release")
            /\ UNCHANGED local
       ELSE /\ local' = [local EXCEPT ![p] = client]
            /\ GoTo(p, "cleaning")
            /\ UNCHANGED err
  /\ UNCHANGED <<gate, session, status, op, ended, shut>>

\* mutant: Warm does not mark the link up
SilentWarm(p) == IF op[p] = "call" THEN "markUp"
                 ELSE IF op[p] = "connect" THEN "settling" ELSE "release"

\* Where ensure's callers go on with a client.
AfterEnsure(p) == IF op[p] = "connect" THEN "settling" ELSE "markUp"

CleanupPlaces == {"letGo", "cleaning", "closing", "discarding"}

\* Where cleanup leads once nothing is retired.
AfterCleanup(p) ==
  CASE pc[p] = "letGo" -> "ensure"
    [] pc[p] = "cleaning" /\ local[p] = None -> "dialling"
    [] pc[p] = "cleaning" /\ local[p] # None -> AfterEnsure(p)
    [] OTHER -> "release"

\* cleanup: the retired client is closed, and forgotten once that succeeded.
Cleanup(p) ==
  /\ pc[p] \in CleanupPlaces
  /\ GoTo(p, AfterCleanup(p))
  /\ retired' = None
  /\ status' = [c \in Clients |-> IF c = retired THEN "gone" ELSE status[c]]
  /\ UNCHANGED <<gate, client, closed, warming, cooling, up, op, ended, err,
                 local, shut>>

\* mutant: the error of the retired client's Close is ignored
CleanupErrorIgnored(p) ==
  /\ pc[p] \in CleanupPlaces
  /\ retired # None
  /\ GoTo(p, AfterCleanup(p))
  /\ UNCHANGED <<gate, session, status, op, ended, err, local, shut>>

\* Close of the retired client fails: it may still own a transport, so it
\* stays retired and the operation ends.
CleanupFails(p) ==
  /\ pc[p] \in CleanupPlaces
  /\ retired # None
  /\ Fails(p, IF err[p] = "none" THEN "failed" ELSE err[p])
  /\ GoTo(p, "release")
  /\ UNCHANGED <<gate, session, status, op, ended, local, shut>>

\* Only Run tells one dial error from another.
Refusals(p) == IF p = Run THEN DialErrors ELSE {"failed"}

\* The factory returns: a client, an error, or an error with the client that
\* met it.  A client that comes after its caller's context ended is an error.
Dial(p) ==
  /\ pc[p] = "dialling"
  /\ \/ \E c \in Clients \ {local[q] : q \in Procs} :
          /\ status[c] = "gone"
          /\ local' = [local EXCEPT ![p] = c]
          /\ \/ /\ status' = [status EXCEPT ![c] = "open"]
                /\ Fails(p, IF ended[p] THEN "failed" ELSE "none")
             \/ /\ \E s \in {"open", "dead"} : status' = [status EXCEPT ![c] = s]
                /\ \E e \in Refusals(p) : Fails(p, e)
     \/ /\ \E e \in Refusals(p) : Fails(p, e)
        /\ UNCHANGED <<status, local>>
  /\ GoTo(p, "adopt")
  /\ UNCHANGED <<gate, session, op, ended, shut>>

\* ensure, under the lock: the new client is kept only when the session has not
\* closed during the dial.
Kept(p) == err[p] = "none" /\ ~closed

Adopt(p) ==
  /\ pc[p] = "adopt"
  /\ Kept(p)
  /\ client' = local[p]
  /\ cooling' = FALSE
  /\ GoTo(p, AfterEnsure(p))
  /\ UNCHANGED <<gate, retired, closed, warming, up, status, op, ended, err,
                 local, shut>>

\* The attempt failed or came too late: the ladder waits, and a client that
\* was built all the same is retired and closed.
Reject(p) ==
  /\ pc[p] = "adopt"
  /\ ~Kept(p)
  /\ cooling' = TRUE
  /\ retired' = IF local[p] # None THEN local[p] ELSE retired
  /\ GoTo(p, IF local[p] # None THEN "discarding" ELSE "release")
  /\ Fails(p, IF err[p] = "none" THEN "failed" ELSE err[p])
  /\ UNCHANGED <<gate, client, closed, warming, up, status, op, ended, local,
                 shut>>

\* Connect waits out the settle window; a link that went down inside it is
\* a refusal, a rejected key or a drop, and is let go (closedEarly).
Settle(p) ==
  /\ pc[p] = "settling"
  /\ \/ /\ ended[p]
        /\ Fails(p, "failed")
        /\ GoTo(p, "drop")
     \/ /\ ~Alive(local[p])
        /\ \E e \in Refusals(p) : Fails(p, e)
        /\ GoTo(p, "drop")
     \/ /\ Alive(local[p])
        /\ GoTo(p, "markUp")
        /\ UNCHANGED err
  /\ UNCHANGED <<gate, session, status, op, ended, local, shut>>

\* markUp: the watchers hear that the link is up, if it is still the one held.
MarkUp(p) ==
  /\ pc[p] = "markUp"
  /\ up' = (up \/ client = local[p])
  /\ GoTo(p, IF op[p] = "call" THEN "operating" ELSE "release")
  /\ UNCHANGED <<gate, client, retired, closed, warming, cooling, status, op,
                 ended, err, local, shut>>

\* A Client whose link dropped dials again itself inside Ask or Emit.
Reopen(p) ==
  /\ pc[p] = "operating"
  /\ status[local[p]] = "dead"
  /\ status' = [status EXCEPT ![local[p]] = "open"]
  /\ UNCHANGED <<gate, session, goroutine, shut>>

\* The operation returns.  An error the hub did not answer with lets the link
\* go, unless the caller withdrew and the link is still up.
Operate(p) ==
  /\ pc[p] = "operating"
  /\ \/ /\ GoTo(p, "release")       \* success, or an answer of the hub's
        /\ UNCHANGED err
     \/ /\ Fails(p, "failed")
        /\ GoTo(p, IF ended[p] /\ Alive(local[p]) THEN "release" ELSE "drop")
  /\ UNCHANGED <<gate, session, status, op, ended, local, shut>>

--------------------------------------------------------------------------------
(***************************************************************************)
(* The gate is given back.                                                 *)
(***************************************************************************)

\* mutant: Probe of a closed session returns without giving the gate back
ProbeKeepsGate(p) == IF closed /\ op[p] = "probe" THEN gate ELSE None
GateAfter(p) == None

\* A Connect, an Ask or Emit, or a Close returns to its caller.
ReleaseCall(p) ==
  /\ p \in Callers
  /\ pc[p] = "release"
  /\ op[p] \in {"connect", "call", "close"}
  /\ gate' = None
  /\ Finish(p)
  /\ shut' = (shut \/ (op[p] = "close" /\ err[p] = "none"))
  /\ UNCHANGED <<session, status>>

\* Run's Connect or watch is over.
ReleaseRun ==
  /\ pc[Run] = "release"
  /\ gate' = None
  /\ GoTo(Run, IF op[Run] = "watch" THEN "loop" ELSE "decide")
  /\ local' = [local EXCEPT ![Run] = None]
  /\ Fails(Run, IF op[Run] = "watch" THEN "none" ELSE err[Run])
  /\ UNCHANGED <<session, status, op, ended, shut>>

\* Warm's goroutine and Probe have a last step after the gate.
ReleaseWarm(p) ==
  /\ pc[p] = "release"
  /\ op[p] \in {"warm", "probe"}
  /\ gate' = GateAfter(p)
  /\ GoTo(p, "released")
  /\ UNCHANGED <<session, status, op, ended, err, local, shut>>

\* The goroutine of Warm clears warming after it gave the gate back.
Warmed ==
  /\ pc[Warmer] = "released"
  /\ warming' = FALSE
  /\ Finish(Warmer)
  /\ UNCHANGED <<gate, client, retired, closed, cooling, up, status, shut>>

\* Probe warms a session that is left without a client ...
ProbeWarms(p) ==
  /\ p \in Callers
  /\ pc[p] = "released"
  /\ err[p] = "none" /\ client = None /\ MayWarm
  /\ warming' = TRUE
  /\ pc' = [pc EXCEPT ![p] = "idle", ![Warmer] = "acquire"]
  /\ op' = [op EXCEPT ![p] = "none", ![Warmer] = "warm"]
  /\ ended' = [ended EXCEPT ![p] = FALSE, ![Warmer] = ended[p]]
  /\ err' = [err EXCEPT ![p] = "none"]
  /\ local' = [local EXCEPT ![p] = None]
  /\ UNCHANGED <<gate, client, retired, closed, cooling, up, status, shut>>

\* ... and otherwise just returns.
ProbeEnds(p) ==
  /\ p \in Callers
  /\ pc[p] = "released"
  /\ ~(err[p] = "none" /\ client = None /\ MayWarm)
  /\ Finish(p)
  /\ UNCHANGED <<gate, session, status, shut>>

--------------------------------------------------------------------------------
(***************************************************************************)
(* Run.                                                                    *)
(***************************************************************************)

RunStarts ==
  /\ pc[Run] = "idle"
  /\ Start(Run, "none", "loop")
  /\ UNCHANGED <<gate, session, status, shut>>

\* The head of Run's loop.
RunLoop ==
  /\ pc[Run] = "loop"
  /\ \/ /\ closed \/ ended[Run]
        /\ Finish(Run)
     \/ /\ ~closed /\ ~ended[Run] /\ Alive(client)
        /\ Start(Run, "watch", "watching")
     \/ /\ ~closed /\ ~ended[Run] /\ ~Alive(client)
        /\ Start(Run, "connect", "acquire")
  /\ UNCHANGED <<gate, session, status, shut>>

WakesOnlyOnClient == client = None   \* mutant: watch without s.wake
WakesOnlyOnClose == closed           \* mutant: watch waits for this client
WatchOver == closed \/ client = None

BlindToDrops == FALSE                \* mutant: watch without the Alive check
DropNoticed == client # None /\ ~Alive(client)

\* watch: Run looks at the held link until it is gone.  Closing the session
\* wakes it.
Watch ==
  /\ pc[Run] = "watching"
  /\ \/ /\ ended[Run]
        /\ Finish(Run)
     \/ /\ WatchOver
        /\ GoTo(Run, "loop")
        /\ UNCHANGED <<op, ended, err, local>>
     \/ /\ DropNoticed
        /\ local' = [local EXCEPT ![Run] = client]
        /\ GoTo(Run, "acquire")
        /\ UNCHANGED <<op, ended, err>>
  /\ UNCHANGED <<gate, session, status, shut>>

\* Run after an attempt: it ends, holds the link, waits, or gives up.
Decide ==
  /\ pc[Run] = "decide"
  /\ \/ /\ \/ err[Run] # "none" /\ (closed \/ ended[Run])
           \/ err[Run] \in {"refused", "key"}
        /\ Finish(Run)
     \/ /\ err[Run] = "none"
        /\ GoTo(Run, "loop")
        /\ UNCHANGED <<op, ended, err, local>>
     \/ /\ err[Run] \in {"failed", "refused"} /\ ~closed /\ ~ended[Run]
        /\ GoTo(Run, "pausing")
        /\ Fails(Run, "none")
        /\ UNCHANGED <<op, ended, local>>
  /\ UNCHANGED <<gate, session, status, shut>>

\* pause: the wait is over, the session closed, or the context ended.
Pause ==
  /\ pc[Run] = "pausing"
  /\ \/ ended[Run] /\ Finish(Run)
     \/ GoTo(Run, "loop") /\ UNCHANGED <<op, ended, err, local>>
  /\ UNCHANGED <<gate, session, status, shut>>

--------------------------------------------------------------------------------
(***************************************************************************)
(* The surroundings.                                                       *)
(***************************************************************************)

\* The hub or the network takes a link down.
LinkDrops(c) ==
  /\ status[c] = "open"
  /\ status' = [status EXCEPT ![c] = "dead"]
  /\ UNCHANGED <<gate, session, goroutine, shut>>

\* A caller withdraws, or its deadline passes.
ContextEnds(p) ==
  /\ p \in Deadlines
  /\ pc[p] # "idle"
  /\ ~ended[p]
  /\ ended' = [ended EXCEPT ![p] = TRUE]
  /\ UNCHANGED <<gate, session, status, pc, op, err, local, shut>>

\* The clock passes retryAt.
CoolDown ==
  /\ cooling
  /\ cooling' = FALSE
  /\ UNCHANGED <<gate, client, retired, closed, warming, up, status, goroutine,
                 shut>>

Environment ==
  \/ \E c \in Clients : LinkDrops(c)
  \/ \E p \in Procs : ContextEnds(p)
  \/ CoolDown

Calls == \E p \in Callers : Enter(p) \/ EnterClose(p) \/ EnterProbe(p) \/ Warm(p)

\* What goroutine p does on its own once it has been called.
Step(p) ==
  \/ Withdraw(p)
  \/ Look(p) \/ Drop(p) \/ Ensure(p) \/ Cleanup(p) \/ CleanupFails(p)
  \/ Dial(p) \/ Adopt(p) \/ Reject(p) \/ Settle(p) \/ MarkUp(p) \/ Operate(p)
  \/ ReleaseCall(p) \/ ReleaseWarm(p) \/ ProbeWarms(p) \/ ProbeEnds(p)

RunStep == ReleaseRun \/ RunLoop \/ Watch \/ Decide \/ Pause

Next ==
  \/ Calls
  \/ RunStarts
  \/ RunStep
  \/ Warmed
  \/ \E p \in Procs : Acquire(p) \/ Step(p) \/ Reopen(p)
  \/ Environment

Spec == Init /\ [][Next]_vars

\* A running goroutine is scheduled; dials, closes, settle windows, pauses and
\* operations all end by a deadline or by their context.  The Go runtime hands
\* a channel to its blocked senders in order, so a goroutine that waits for a
\* gate that keeps being given back gets it.
Fairness ==
  /\ \A p \in Procs : WF_vars(Step(p)) /\ SF_vars(Acquire(p))
  /\ WF_vars(RunStep)
  /\ WF_vars(Warmed)

FairSpec == Spec /\ Fairness

--------------------------------------------------------------------------------
(***************************************************************************)
(* The inductive invariant: types, who owns the gate, and what each place  *)
(* knows about the client objects.                                         *)
(***************************************************************************)

\* A goroutine is at a place of the gate's owner exactly when it owns the gate,
\* and Warm's goroutine runs exactly while warming is set.
GateOwned ==
  /\ \A p \in Procs : pc[p] \in GatePlaces <=> gate = p
  /\ warming <=> pc[Warmer] # "idle"

\* Who accounts for each client object that is not closed.
Account ==
  /\ \A c \in Clients :
       status[c] # "gone" <=>
         \/ c \in {client, retired}
         \/ \E p \in Procs : pc[p] = "adopt" /\ local[p] = c
  /\ client = None \/ retired = None

\* What the owner of the gate knows about the session at each place.
OwnerKnows ==
  \A p \in Procs :
    /\ pc[p] \in {"letGo", "closing", "discarding"} => client = None
    /\ pc[p] = "cleaning" => local[p] = client
    /\ pc[p] \in {"dialling", "adopt"} => client = None /\ retired = None
    /\ pc[p] = "dialling" => local[p] = None
    /\ pc[p] = "adopt" /\ err[p] = "none" => local[p] # None
    /\ pc[p] \in {"settling", "markUp", "operating"} =>
         client = local[p] /\ client # None

\* The watchers were told what the session holds, but for a link that has just
\* been taken or is about to be let go.
Told ==
  /\ client = None => ~up
  /\ client # None /\ ~up =>
       \E p \in Procs : pc[p] \in {"settling", "markUp", "drop"}

\* What a Close knows, and what holds once one has returned nil.
CloseKnows ==
  /\ \A p \in Procs : op[p] = "close" =>
       /\ closed /\ p \in Callers
       /\ pc[p] \in {"acquire", "held", "drop", "closing", "release"}
       /\ pc[p] = "release" /\ err[p] = "none" => client = None /\ retired = None
  /\ shut =>
       /\ closed /\ client = None /\ retired = None
       /\ \A p \in Procs :
            pc[p] \notin {"cleaning", "dialling", "adopt", "settling", "markUp",
                         "operating"}

\* The types and the four parts above: inductive, and enough for every safety
\* property below.  A second closer, a late Warm or a failed Close breaks the
\* properties only by breaking one of these first.
IInv == TypeOK /\ GateOwned /\ Account /\ OwnerKnows /\ Told /\ CloseKnows

(***************************************************************************)
(* Safety.                                                                 *)
(***************************************************************************)

\* The session never owns two links: at most one client object is unclosed,
\* and the factory is only asked for one when there is none.  A client whose
\* Close failed still counts (cleanup, ensure).
OneLink ==
  /\ \A c, d \in Unclosed : c = d
  /\ \A p \in Procs : pc[p] = "dialling" => Unclosed = {}

\* No link is lost: a client that has not been closed is held, is retired and
\* will be closed again, or is the one ensure is about to take or discard.
NoLinkLost ==
  \A c \in Unclosed :
    \/ c \in {client, retired}
    \/ \E p \in Procs : pc[p] = "adopt" /\ local[p] = c

\* Whenever nobody owns the gate, the watchers were last told "up" exactly
\* when the session holds a client (drop, markUp).
UpMeansHeld == gate = None => (up <=> client # None)

\* The client a Connect settles, or an admitted Ask or Emit runs on, stays the
\* client the session holds until that call is over (call, watch, Probe).
CallKeepsItsClient ==
  \A p \in Procs :
    pc[p] \in {"settling", "markUp", "operating"} => client = local[p]

\* Once a Close has returned nil the session owns no link, and no goroutine,
\* however late it comes, opens another (Close, ensure).
ShutStaysShut ==
  shut => /\ Unclosed = {}
          /\ \A p \in Procs : pc[p] \notin {"dialling", "adopt", "operating"}

--------------------------------------------------------------------------------
(***************************************************************************)
(* Liveness, under Fairness.                                               *)
(***************************************************************************)

\* Every call, and every goroutine Warm starts, returns: none is left waiting
\* for the gate by one that ended without giving it back.
CallsReturn ==
  \A p \in Callers \cup {Warmer} : (pc[p] # "idle") ~> (pc[p] = "idle")

\* Closing the session ends Run, even when Close itself gives up waiting.
CloseEndsRun == closed ~> (pc[Run] = "idle")

\* While Run runs, a held link that dropped is let go or comes back.
DeadLinkLetGo ==
  \A c \in Clients :
    (client = c /\ status[c] = "dead")
      ~> (client # c \/ status[c] = "open" \/ pc[Run] = "idle")

\* While Run runs, a session without a link dials, or cannot close the client
\* it let go before.
LinkSought ==
  (client = None /\ pc[Run] # "idle")
    ~> (\/ client # None
        \/ pc[Run] = "idle"
        \/ retired # None
        \/ \E p \in Procs : pc[p] = "dialling")

\* What Run is for: a dead link is let go, and a missing one is sought.
LinkCaredFor == DeadLinkLetGo /\ LinkSought
================================================================================
