----------------------------- MODULE LinkSupervisor -----------------------------
(***************************************************************************)
(* The decisions about a long-lived link, as pure functions (session.go:   *)
(* HubSessionPolicy.NextWait, LinkSupervisor.After).  Durations are        *)
(* numbers of any one unit.                                                *)
(***************************************************************************)
EXTENDS Integers

CONSTANTS
  Retry,    \* policy.Retry: the first wait
  Ceiling,  \* policy.RetryCeiling: the longest wait
  Grace     \* refusalGrace

\* What HubSessionPolicy.Validate and NewLinkSupervisor see to.
ASSUME PolicyAssumption ==
  /\ Retry \in Nat \ {0}
  /\ Ceiling \in Nat /\ Retry <= Ceiling
  /\ Grace \in Nat \ {0}

Outcomes == {"up", "dropped", "failed", "refused", "key"}
Actions  == {"hold", "retry", "giveUp"}

\* mutants of the ladder: it passes the ceiling, or starts over
NextWaitUncapped(current) == current * 2
NextWaitForgets(current) == Retry

\* The wait after current: doubled, up to the ceiling.
NextWait(current) ==
  IF current >= Ceiling \div 2 THEN Ceiling ELSE current * 2

\* A supervisor: the next wait, and since when refusals have gone on.
Fresh == [wait |-> Retry, refusing |-> FALSE, since |-> 0]

Retrying(sup, wait) == [sup |-> sup, action |-> "retry", wait |-> wait]
Climbing(sup) == Retrying([sup EXCEPT !.wait = NextWait(@)], sup.wait)
GiveUp(sup)   == [sup |-> sup, action |-> "giveUp", wait |-> 0]

\* mutants: a failure does not stop the refusal clock; the clock restarts with
\* every refusal
RefusalsThrough(sup, outcome, now) ==
  IF outcome = "refused" /\ ~sup.refusing
    THEN [sup EXCEPT !.refusing = TRUE, !.since = now]
    ELSE sup

\* The refusal clock: it starts with the first refusal and any failure ends it.
Refusals(sup, outcome, now) ==
  CASE outcome = "refused" /\ ~sup.refusing ->
         [sup EXCEPT !.refusing = TRUE, !.since = now]
    [] outcome = "failed" -> [sup EXCEPT !.refusing = FALSE]
    [] OTHER -> sup

\* mutant: the grace is exclusive
LastedLonger(sup, now) == now - sup.since > Grace
Lasted(sup, now) == now - sup.since >= Grace

\* LinkSupervisor.After.
After(sup, outcome, now) ==
  LET counted == Refusals(sup, outcome, now)
  IN CASE outcome = "up" ->
            [sup |-> [sup EXCEPT !.wait = Retry, !.refusing = FALSE],
             action |-> "hold", wait |-> 0]
       [] outcome = "dropped" -> Retrying(sup, 0)
       [] outcome = "key" -> GiveUp(sup)
       [] outcome = "refused" /\ Lasted(counted, now) -> GiveUp(counted)
       [] OTHER -> Climbing(counted)

================================================================================
