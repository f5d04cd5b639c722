--------------------------------- MODULE OriginChoice ---------------------------------
(***************************************************************************)
(* session.go: OriginPreference.Connect, the hub's origin tried before its *)
(* public address, by calls that share one preference.                     *)
(*                                                                         *)
(* Building a client is the caller's: it succeeds, or fails with or        *)
(* without a client that has to be closed.  Time is a clock of few ticks.  *)
(***************************************************************************)
EXTENDS Integers

CONSTANTS Connects,  \* calls of Connect
          Cooldown,  \* how long a failing origin is left alone
          MaxTime    \* bound of the clock

ASSUME OriginAssumption == Cooldown \in Nat /\ MaxTime \in Nat

VARIABLES
  clock, quietUntil,  \* the time, and until when the origin is left alone
  where,              \* what each call is doing
  ctxOver,            \* whether its context is over
  opened              \* the clients it has open

originVars == <<clock, quietUntil, where, ctxOver, opened>>

OriginInit ==
  /\ clock = 0 /\ quietUntil = 0
  /\ where = [c \in Connects |-> "called"] /\ ctxOver = [c \in Connects |-> FALSE]
  /\ opened = [c \in Connects |-> {}]

CoolingDown == clock < quietUntil

To(c, place) == where' = [where EXCEPT ![c] = place]

\* A call whose context is over begins nothing; else the origin is tried
\* unless it is left alone.
OriginLooks(c) ==
  /\ where[c] = "called"
  /\ To(c, IF ctxOver[c] THEN "returned" ELSE IF CoolingDown THEN "hub" ELSE "origin")
  /\ UNCHANGED <<clock, quietUntil, ctxOver, opened>>

OriginBuilt(c) ==
  /\ where[c] = "origin" /\ To(c, "connected")
  /\ opened' = [opened EXCEPT ![c] = @ \union {"origin"}]
  /\ UNCHANGED <<clock, quietUntil, ctxOver>>

OriginFails(c) ==
  /\ where[c] = "origin"
  /\ \/ To(c, "failed") /\ UNCHANGED opened
     \/ To(c, "closing") /\ opened' = [opened EXCEPT ![c] = @ \union {"origin"}]
  /\ UNCHANGED <<clock, quietUntil, ctxOver>>

\* As a hasty fallback would: what the attempt left is left open.
OriginForgotten(c) ==
  /\ where[c] = "closing" /\ To(c, "failed")
  /\ UNCHANGED <<clock, quietUntil, ctxOver, opened>>

\* What the failed attempt left is closed before anything else is tried.
OriginCleaned(c) ==
  /\ where[c] = "closing"
  /\ \/ To(c, "failed") /\ opened' = [opened EXCEPT ![c] = @ \ {"origin"}]
     \/ To(c, "returned") /\ UNCHANGED opened
  /\ UNCHANGED <<clock, quietUntil, ctxOver>>

\* As a plain failure count would: every failure is the origin's.
BlamesAnyway(c) == where[c] = "failed"

\* The caller's own end says nothing of the origin.
Blames(c) == ~ctxOver[c]

OriginLeftAlone(c) ==
  /\ where[c] = "failed"
  /\ IF Blames(c)
     THEN quietUntil' = clock + Cooldown /\ To(c, "hub")
     ELSE To(c, "returned") /\ UNCHANGED quietUntil
  /\ UNCHANGED <<clock, ctxOver, opened>>

HubBuilt(c) ==
  /\ where[c] = "hub"
  /\ \/ To(c, "connected") /\ opened' = [opened EXCEPT ![c] = @ \union {"hub"}]
     \/ To(c, "returned") /\ UNCHANGED opened
  /\ UNCHANGED <<clock, quietUntil, ctxOver>>

OriginCallerLeaves(c) ==
  /\ ~ctxOver[c] /\ where[c] \notin {"connected", "returned"}
  /\ ctxOver' = [ctxOver EXCEPT ![c] = TRUE]
  /\ UNCHANGED <<clock, quietUntil, where, opened>>

OriginTick ==
  /\ clock < MaxTime /\ clock' = clock + 1
  /\ UNCHANGED <<quietUntil, where, ctxOver, opened>>

OriginNext ==
  \/ \E c \in Connects :
       \/ OriginLooks(c) \/ OriginBuilt(c) \/ OriginFails(c) \/ OriginCleaned(c)
       \/ OriginLeftAlone(c) \/ HubBuilt(c) \/ OriginCallerLeaves(c)
  \/ OriginTick

--------------------------------------------------------------------------------
OriginTypeOK ==
  /\ clock \in 0..MaxTime /\ quietUntil \in 0..(MaxTime + Cooldown)
  /\ where \in [Connects -> {"called", "origin", "closing", "failed", "hub", "connected", "returned"}]
  /\ ctxOver \in [Connects -> BOOLEAN]
  /\ opened \in [Connects -> SUBSET {"origin", "hub"}]

\* A call never holds two clients: what a failed attempt at the origin left is
\* closed before the public address is tried, and one that connected holds the
\* client it returns (session.go:843-847).
OneClient ==
  \A c \in Connects :
    /\ where[c] \in {"failed", "hub"} => opened[c] = {}
    /\ where[c] = "connected" => opened[c] \in {{"origin"}, {"hub"}}

\* An origin is left alone because it failed somebody, not because somebody
\* left (session.go:848-853).
BlamedFairly ==
  quietUntil' # quietUntil =>
    \E c \in Connects : where[c] = "failed" /\ ~ctxOver[c] /\ where'[c] = "hub"
================================================================================
