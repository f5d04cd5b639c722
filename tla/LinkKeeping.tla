------------------------------ MODULE LinkKeeping ------------------------------
(***************************************************************************)
(* HubSession.Run keeping a link up over time (session.go): Run dials,     *)
(* watches, pauses and gives up as its LinkSupervisor decides, while       *)
(* foreground calls dial whenever they like and Warm dials when the        *)
(* session's own ladder lets it.  Every attempt is one step here; how      *)
(* attempts exclude one another is module HubSession's subject.            *)
(***************************************************************************)
EXTENDS LinkSupervisor, Sequences, FiniteSets

CONSTANTS
  MaxTime,     \* bound: the clock stops there
  MaxAttempts  \* bound: outcomes Run tells its supervisor

ASSUME BoundsAssumption == MaxTime \in Nat /\ MaxAttempts \in Nat

VARIABLES
  now,        \* the clock
  linkUp,     \* the session holds a client whose link is up
  run,        \* where Run is
  sup,        \* Run's LinkSupervisor
  pauseUntil, \* when Run's pause ends
  retryAt,    \* s.retryAt
  retryWait,  \* s.retryWait
  told,       \* history: what Run told its supervisor, and when
  admitted    \* history: the link has been up for a while since sup.since

vars == <<now, linkUp, run, sup, pauseUntil, retryAt, retryWait, told, admitted>>

supervisor == <<sup, told>>
ladder     == <<retryAt, retryWait>>

TypeOK ==
  /\ now \in 0 .. MaxTime
  /\ linkUp \in BOOLEAN
  /\ run \in {"loop", "watch", "pause", "refused", "key"}
  /\ sup \in [wait : Retry .. Ceiling, refusing : BOOLEAN, since : 0 .. MaxTime]
  /\ pauseUntil \in Nat
  /\ retryAt \in Nat
  /\ retryWait \in Retry .. Ceiling
  /\ told \in Seq([outcome : Outcomes, at : 0 .. MaxTime, action : Actions,
                   wait : Nat])
  /\ admitted \in BOOLEAN

Init ==
  /\ now = 0
  /\ linkUp = FALSE
  /\ run = "loop"
  /\ sup = Fresh
  /\ pauseUntil = 0
  /\ retryAt = 0
  /\ retryWait = Retry
  /\ told = <<>>
  /\ admitted = FALSE

--------------------------------------------------------------------------------

\* Run tells its supervisor an outcome.
Tell(outcome) ==
  LET decision == After(sup, outcome, now)
  IN /\ Len(told) < MaxAttempts
     /\ sup' = decision.sup
     /\ told' = Append(told, [outcome |-> outcome, at |-> now,
                              action |-> decision.action, wait |-> decision.wait])
     /\ CASE decision.action = "hold"   -> run' = "loop" /\ UNCHANGED pauseUntil
          [] decision.action = "giveUp" -> run' = outcome /\ UNCHANGED pauseUntil
          [] decision.action = "retry" /\ outcome = "dropped" ->
               run' = "loop" /\ UNCHANGED pauseUntil
          [] OTHER -> run' = "pause" /\ pauseUntil' = now + decision.wait

\* The session's ladder after a dial (ensure).  A refusal inside the settle
\* window comes after the ladder was reset.
LadderAfter(dialled) ==
  IF dialled
    THEN retryAt' = 0 /\ retryWait' = Retry
    ELSE retryAt' = now + retryWait /\ retryWait' = NextWait(retryWait)

\* Run's Connect: one attempt, which fails before it dials when the client let go
\* before cannot be closed (drop, cleanup).  A foreground call or Warm to which
\* that happens changes nothing here.
RunDials ==
  /\ run = "loop"
  /\ ~linkUp
  /\ \E outcome \in {"up", "failed", "refused", "key"} :
       /\ Tell(outcome)
       /\ linkUp' = (outcome = "up")
       /\ admitted' = (admitted /\ (outcome # "refused" \/ sup.refusing))
       /\ \/ \E dialled \in BOOLEAN :
               /\ outcome = "up" => dialled
               /\ LadderAfter(dialled)
          \/ outcome = "failed" /\ UNCHANGED ladder
  /\ UNCHANGED now

\* Run finds the link up, whoever brought it up, and watches it.
RunWatches ==
  /\ run = "loop"
  /\ linkUp
  /\ run' = "watch"
  /\ UNCHANGED <<now, linkUp, supervisor, pauseUntil, ladder, admitted>>

\* ... or its Connect finds the link another goroutine has brought up meanwhile.
RunHolds ==
  /\ run = "loop"
  /\ linkUp
  /\ Tell("up")
  /\ UNCHANGED <<now, linkUp, ladder, admitted>>

RunSeesDrop ==
  /\ run = "watch"
  /\ ~linkUp
  /\ Tell("dropped")
  /\ UNCHANGED <<now, linkUp, ladder, admitted>>

RunResumes ==
  /\ run = "pause"
  /\ now >= pauseUntil
  /\ run' = "loop"
  /\ UNCHANGED <<now, linkUp, supervisor, pauseUntil, ladder, admitted>>

\* A foreground call dials, whatever the ladders say.
CallerDials ==
  /\ ~linkUp
  /\ linkUp' \in BOOLEAN
  /\ LadderAfter(linkUp')
  /\ UNCHANGED <<now, run, supervisor, pauseUntil, admitted>>

WarmDials ==
  /\ ~linkUp
  /\ now >= retryAt
  /\ linkUp' \in BOOLEAN
  /\ LadderAfter(linkUp')
  /\ UNCHANGED <<now, run, supervisor, pauseUntil, admitted>>

LinkDrops ==
  /\ linkUp
  /\ linkUp' = FALSE
  /\ UNCHANGED <<now, run, supervisor, pauseUntil, ladder, admitted>>

\* A unit of time is longer than the settle window: a link that is still up
\* when one has passed was not refused.
Tick ==
  /\ now < MaxTime
  /\ now' = now + 1
  /\ admitted' = (admitted \/ linkUp)
  /\ UNCHANGED <<linkUp, run, supervisor, pauseUntil, ladder>>

Next ==
  \/ RunDials \/ RunWatches \/ RunHolds \/ RunSeesDrop \/ RunResumes
  \/ CallerDials \/ WarmDials \/ LinkDrops \/ Tick

Spec == Init /\ [][Next]_vars

--------------------------------------------------------------------------------
(***************************************************************************)
(* Properties.                                                             *)
(***************************************************************************)

\* The reference ladder: Retry doubled n times, never past the ceiling, and the
\* ceiling itself where a doubling would end one unit below it.
Ladder[n \in Nat] ==
  IF n = 0 THEN Retry
  ELSE IF 2 * Ladder[n - 1] + 1 >= Ceiling THEN Ceiling ELSE 2 * Ladder[n - 1]

\* The outcomes told since the link was last reported up.
SinceUp(i) == {j \in 1 .. i - 1 :
                 /\ told[j].outcome \in {"failed", "refused"}
                 /\ \A k \in j .. i - 1 : told[k].outcome # "up"}

\* The refusals that lead up to attempt i without a
\* failure or a link that came up between them.
Streak(i) == {j \in 1 .. i :
                /\ told[j].outcome = "refused"
                /\ \A k \in j .. i : told[k].outcome \in {"refused", "dropped"}}

\* Run waits exactly the ladder's step after every failure and refusal, and a
\* drop alone is dialled at once, however the outcomes are mixed (After).
WaitsFollowLadder ==
  \A i \in 1 .. Len(told) : told[i].action = "retry" =>
    told[i].wait = IF told[i].outcome = "dropped" THEN 0
                   ELSE Ladder[Cardinality(SinceUp(i))]

\* Run gives up on a refusal exactly when refusals alone, with no failure and no
\* link up that Run saw between them, have lasted the grace (After).
GivesUpExactly ==
  \A i \in 1 .. Len(told) : told[i].outcome = "refused" =>
    (told[i].action = "giveUp" <=>
       \E j \in Streak(i) : told[i].at - told[j].at >= Grace)

\* Run does what its policy says of everything it was told (session.go:556-568).
PolicyKept == WaitsFollowLadder /\ GivesUpExactly

\* No retry is ever further away than the ceiling, on Run's ladder or on the
\* session's own, whatever was tried before (NextWait, pause, ensure).
WaitsBounded ==
  /\ run = "pause" => pauseUntil <= now + Ceiling
  /\ retryAt <= now + Ceiling

\* "until the refusals have lasted the refusal grace" (Run), and "LinkUp: ...
\* start the refusal clock afresh" (LinkSupervisor): when Run gives up for
\* refusals, the hub has not admitted the client since the first of them.
RefusedThroughout ==
  [][run # "refused" /\ run' = "refused" => ~admitted]_vars

================================================================================
