---------------------------- MODULE LinkKeepingProofs ----------------------------
(***************************************************************************)
(* For every policy, no retry is ever further away than the ceiling, on    *)
(* either ladder (HubSessionPolicy.NextWait, LinkSupervisor.After, ensure).*)
(* WaitsBounded is not inductive: it needs what the ladders hold between   *)
(* two attempts, LaddersHeld, and that rests on NextWait staying between   *)
(* the first wait and the ceiling.                                         *)
(***************************************************************************)
EXTENDS LinkKeeping, WellFoundedInduction, FiniteSetTheorems, TLAPS

\* What both ladders hold between two attempts.
LaddersHeld ==
  /\ now \in Nat
  /\ sup \in [wait : Retry .. Ceiling, refusing : BOOLEAN, since : Nat]
  /\ retryWait \in Retry .. Ceiling
  /\ pauseUntil \in Nat
  /\ retryAt \in Nat

\* The inductive invariant.
Bounded == LaddersHeld /\ WaitsBounded

\* NextWait stays on the ladder (NextWait): no step leaves Retry .. Ceiling.
LEMMA NextWaitOnLadder ==
  ASSUME NEW current \in Retry .. Ceiling
  PROVE  NextWait(current) \in Retry .. Ceiling
BY PolicyAssumption, SMT DEF NextWait

\* The supervisor's own ladder, and the wait it hands out, stay within bounds
\* whatever outcome it is told (LinkSupervisor.After).
LEMMA AfterOnLadder ==
  ASSUME NEW s \in [wait : Retry .. Ceiling, refusing : BOOLEAN, since : Nat],
         NEW outcome \in Outcomes, NEW t \in Nat
  PROVE  /\ After(s, outcome, t).sup \in
              [wait : Retry .. Ceiling, refusing : BOOLEAN, since : Nat]
         /\ After(s, outcome, t).wait \in 0 .. Ceiling
<1> DEFINE Sup == [wait : Retry .. Ceiling, refusing : BOOLEAN, since : Nat]
           counted == Refusals(s, outcome, t)
<1>1. counted \in Sup /\ counted.wait = s.wait
  BY DEF Refusals, Outcomes
<1>2. Retry \in Retry .. Ceiling /\ s.wait \in 0 .. Ceiling /\ 0 \in 0 .. Ceiling
  BY PolicyAssumption
<1>3. NextWait(counted.wait) \in Retry .. Ceiling
  BY <1>1, NextWaitOnLadder
<1>4. CASE outcome = "up"
  BY <1>2, <1>4 DEF After
<1>5. CASE outcome = "dropped"
  BY <1>2, <1>5 DEF After, Retrying
<1>6. CASE outcome = "key"
  BY <1>2, <1>6 DEF After, GiveUp
<1>7. CASE outcome = "refused" /\ Lasted(counted, t)
  BY <1>1, <1>2, <1>7 DEF After, GiveUp
<1>8. CASE outcome = "failed" \/ (outcome = "refused" /\ ~Lasted(counted, t))
  <2>1. After(s, outcome, t) = Climbing(counted)
    BY <1>8 DEF After
  <2>2. [counted EXCEPT !.wait = NextWait(@)] \in Sup
    BY <1>1, <1>3
  <2> QED
    BY <1>1, <1>2, <2>1, <2>2 DEF Climbing, Retrying
<1> QED
  BY <1>4, <1>5, <1>6, <1>7, <1>8 DEF Outcomes

\* What telling the supervisor does to Run's pause (Run).
LEMMA TellKeeps ==
  ASSUME NEW outcome \in Outcomes, Bounded, Tell(outcome), now' = now
  PROVE  /\ sup' \in [wait : Retry .. Ceiling, refusing : BOOLEAN, since : Nat]
         /\ pauseUntil' \in Nat
         /\ run' = "pause" => pauseUntil' <= now' + Ceiling
<1> DEFINE decision == After(sup, outcome, now)
<1>1. /\ decision.sup \in [wait : Retry .. Ceiling, refusing : BOOLEAN, since : Nat]
      /\ decision.wait \in 0 .. Ceiling
  BY AfterOnLadder DEF Bounded, LaddersHeld
<1>2. sup' = decision.sup
  BY DEF Tell
<1>3. \/ UNCHANGED pauseUntil /\ run' \in {"loop"} \cup Outcomes
      \/ run' = "pause" /\ pauseUntil' = now + decision.wait
  BY DEF Tell
<1>4. "pause" \notin {"loop"} \cup Outcomes
  BY DEF Outcomes
<1> QED
  BY <1>1, <1>2, <1>3, <1>4, PolicyAssumption DEF Bounded, LaddersHeld

\* What a dial does to the session's own ladder (ensure).
LEMMA LadderKeeps ==
  ASSUME NEW dialled \in BOOLEAN, Bounded, LadderAfter(dialled), now' = now
  PROVE  /\ retryWait' \in Retry .. Ceiling
         /\ retryAt' \in Nat
         /\ retryAt' <= now' + Ceiling
<1>1. CASE dialled
  BY <1>1, PolicyAssumption DEF LadderAfter, Bounded, LaddersHeld
<1>2. CASE ~dialled
  <2>1. retryAt' = now + retryWait /\ retryWait' = NextWait(retryWait)
    BY <1>2 DEF LadderAfter
  <2>2. retryWait \in Retry .. Ceiling
    BY DEF Bounded, LaddersHeld
  <2>3. NextWait(retryWait) \in Retry .. Ceiling
    BY <2>2, NextWaitOnLadder
  <2> QED
    BY <2>1, <2>2, <2>3, PolicyAssumption DEF Bounded, LaddersHeld
<1> QED
  BY <1>1, <1>2

LEMMA BoundedInit ==
  ASSUME Init PROVE Bounded
BY PolicyAssumption DEF Init, Fresh, Bounded, LaddersHeld, WaitsBounded

LEMMA BoundedNext ==
  ASSUME Bounded, [Next]_vars PROVE Bounded'
<1> USE DEF Bounded, LaddersHeld, WaitsBounded
<1>1. CASE RunDials
  <2>1. PICK outcome \in {"up", "failed", "refused", "key"} :
          /\ Tell(outcome)
          /\ (\E dialled \in BOOLEAN : LadderAfter(dialled)) \/ UNCHANGED ladder
    BY <1>1 DEF RunDials
  <2>2. now' = now
    BY <1>1 DEF RunDials
  <2>3. outcome \in Outcomes
    BY DEF Outcomes
  <2> QED
    BY <2>1, <2>2, <2>3, TellKeeps, LadderKeeps DEF ladder
<1>2. CASE RunHolds
  <2>1. Tell("up") /\ now' = now /\ UNCHANGED ladder /\ "up" \in Outcomes
    BY <1>2 DEF RunHolds, Outcomes
  <2> QED
    BY <2>1, TellKeeps DEF ladder
<1>3. CASE RunSeesDrop
  <2>1. Tell("dropped") /\ now' = now /\ UNCHANGED ladder /\ "dropped" \in Outcomes
    BY <1>3 DEF RunSeesDrop, Outcomes
  <2> QED
    BY <2>1, TellKeeps DEF ladder
<1>4. CASE RunWatches
  BY <1>4 DEF RunWatches, supervisor, ladder
<1>5. CASE RunResumes
  BY <1>5 DEF RunResumes, supervisor, ladder
<1>6. CASE CallerDials
  <2>1. LadderAfter(linkUp') /\ linkUp' \in BOOLEAN /\ now' = now
    BY <1>6 DEF CallerDials
  <2> QED
    BY <1>6, <2>1, LadderKeeps DEF CallerDials, supervisor
<1>7. CASE WarmDials
  <2>1. LadderAfter(linkUp') /\ linkUp' \in BOOLEAN /\ now' = now
    BY <1>7 DEF WarmDials
  <2> QED
    BY <1>7, <2>1, LadderKeeps DEF WarmDials, supervisor
<1>8. CASE LinkDrops
  BY <1>8 DEF LinkDrops, supervisor, ladder
<1>9. CASE Tick
  BY <1>9, PolicyAssumption DEF Tick, supervisor, ladder
<1>10. CASE UNCHANGED vars
  BY <1>10 DEF vars
<1> QED
  BY <1>1, <1>2, <1>3, <1>4, <1>5, <1>6, <1>7, <1>8, <1>9, <1>10 DEF Next

\* For every policy the code accepts, Run and Warm always try again within the
\* ceiling, whatever they met before (NextWait, After, ensure).
THEOREM RetryWithinCeiling == Spec => []WaitsBounded
<1>1. Init => Bounded
  BY BoundedInit
<1>2. Bounded /\ [Next]_vars => Bounded'
  BY BoundedNext
<1>3. Bounded => WaitsBounded
  BY DEF Bounded
<1> QED
  BY <1>1, <1>2, <1>3, PTL DEF Spec

(***************************************************************************)
(* The reference ladder.                                                   *)
(***************************************************************************)
\* Induction over the natural numbers, for a set.
LEMMA Induction ==
  ASSUME NEW S, 0 \in S, \A n \in Nat : n \in S => n + 1 \in S
  PROVE  Nat \subseteq S
<1> DEFINE T == Nat \ S
           R == OpToRel(<, Nat)
<1>1. SUFFICES ASSUME T # {} PROVE FALSE
  OBVIOUS
<1>2. IsWellFoundedOn(R, Nat)
  BY NatLessThanWellFounded
<1>3. PICK x \in T : \A y \in T : ~ (<<y, x>> \in R)
  <2>1. T \subseteq Nat
    OBVIOUS
  <2> HIDE DEF R, T
  <2> QED
    BY <1>1, <1>2, <2>1, WFMin
<1>4. \A y \in T : ~(y < x)
  BY <1>3 DEF OpToRel
<1>5. x # 0 /\ x - 1 \in Nat /\ x - 1 < x /\ (x - 1) + 1 = x
  OBVIOUS
<1> QED
  BY <1>4, <1>5

\* The first n steps of the ladder, as NextWait climbs them.
Climbs(g, n) == g[0] = Retry /\ \A i \in 0 .. n - 1 : g[i + 1] = NextWait(g[i])

\* There are such steps, for every n, ...
LEMMA StepsExist == \A n \in Nat : \E g \in [0 .. n -> Nat] : Climbs(g, n)
<1> DEFINE S == {n \in Nat : \E g \in [0 .. n -> Nat] : Climbs(g, n)}
<1>1. 0 \in S
  <2> DEFINE g == [i \in 0 .. 0 |-> Retry]
  <2>1. g \in [0 .. 0 -> Nat] /\ Climbs(g, 0)
    BY PolicyAssumption DEF Climbs
  <2> QED
    BY <2>1
<1>2. ASSUME NEW n \in Nat, n \in S PROVE n + 1 \in S
  <2>1. PICK g \in [0 .. n -> Nat] : Climbs(g, n)
    BY <1>2
  <2> DEFINE h == [i \in 0 .. n + 1 |-> IF i = n + 1 THEN NextWait(g[n]) ELSE g[i]]
  <2>2. g[n] \in Nat /\ NextWait(g[n]) \in Nat
    BY <2>1, PolicyAssumption DEF NextWait
  <2>3. h \in [0 .. n + 1 -> Nat]
    BY <2>2
  <2>4. Climbs(h, n + 1)
    <3>1. h[0] = Retry
      BY <2>1 DEF Climbs
    <3>2. ASSUME NEW i \in 0 .. n PROVE h[i + 1] = NextWait(h[i])
      <4>1. h[i] = g[i]
        OBVIOUS
      <4>2. CASE i = n
        BY <4>1, <4>2
      <4>3. CASE i # n
        BY <2>1, <4>1, <4>3 DEF Climbs
      <4> QED
        BY <4>2, <4>3
    <3> HIDE DEF h
    <3> QED
      BY <3>1, <3>2 DEF Climbs
  <2> QED
    BY <2>3, <2>4
<1> HIDE DEF S
<1>3. Nat \subseteq S
  BY <1>1, <1>2, Induction
<1> QED
  BY <1>3 DEF S

\* ... and they are the same for every n.
LEMMA StepsAgree ==
  ASSUME NEW n \in Nat, NEW m \in Nat, n <= m, NEW g, NEW h, Climbs(g, n), Climbs(h, m)
  PROVE  g[n] = h[n]
<1> DEFINE S == {i \in Nat : i <= n => g[i] = h[i]}
<1>1. 0 \in S
  BY DEF Climbs
<1>2. ASSUME NEW i \in Nat, i \in S PROVE i + 1 \in S
  <2>1. CASE i + 1 <= n
    <3>1. g[i + 1] = NextWait(g[i])
      BY <2>1, i \in 0 .. n - 1 DEF Climbs
    <3>2. h[i + 1] = NextWait(h[i])
      BY <2>1 DEF Climbs
    <3> QED
      BY <1>2, <2>1, <3>1, <3>2
  <2> QED
    BY <2>1
<1> HIDE DEF S
<1>3. Nat \subseteq S
  BY <1>1, <1>2, Induction
<1> QED
  BY <1>3 DEF S

\* Doubling up to the ceiling is what NextWait does with every wait there is.
LEMMA DoublesToCeiling ==
  ASSUME NEW wait \in Nat
  PROVE  NextWait(wait) = IF 2 * wait + 1 >= Ceiling THEN Ceiling ELSE 2 * wait
BY PolicyAssumption DEF NextWait

\* The reference ladder is a function: some function does what it says.
LEMMA LadderExists ==
  \E f : /\ f \in [Nat -> Nat]
         /\ f = [n \in Nat |->
                   IF n = 0 THEN Retry
                   ELSE IF 2 * f[n - 1] + 1 >= Ceiling THEN Ceiling ELSE 2 * f[n - 1]]
<1> DEFINE steps(n) == CHOOSE g \in [0 .. n -> Nat] : Climbs(g, n)
           f == [n \in Nat |-> steps(n)[n]]
<1>1. \A n \in Nat : steps(n) \in [0 .. n -> Nat] /\ Climbs(steps(n), n)
  BY StepsExist
<1> HIDE DEF steps
<1>2. f \in [Nat -> Nat]
  BY <1>1
<1>3. f[0] = Retry
  BY <1>1 DEF Climbs
<1>4. ASSUME NEW n \in Nat \ {0}
      PROVE  f[n] = IF 2 * f[n - 1] + 1 >= Ceiling THEN Ceiling ELSE 2 * f[n - 1]
  <2>1. n - 1 \in Nat /\ n - 1 \in 0 .. n - 1 /\ (n - 1) + 1 = n
    OBVIOUS
  <2>2. steps(n)[n] = NextWait(steps(n)[n - 1])
    BY <1>1, <2>1 DEF Climbs
  <2>3. steps(n - 1)[n - 1] = steps(n)[n - 1]
    BY <1>1, <2>1, StepsAgree
  <2>4. f[n] = NextWait(f[n - 1]) /\ f[n - 1] \in Nat
    BY <1>2, <2>1, <2>2, <2>3
  <2> QED
    BY <2>4, DoublesToCeiling
<1> HIDE DEF f
<1>5. f = [n \in Nat |-> IF n = 0 THEN Retry
                         ELSE IF 2 * f[n - 1] + 1 >= Ceiling THEN Ceiling ELSE 2 * f[n - 1]]
  BY <1>2, <1>3, <1>4
<1> QED
  BY <1>2, <1>5

\* So it starts at the first wait, NextWait climbs it, and it stays within bounds.
LEMMA LadderClimbs ==
  /\ Ladder[0] = Retry
  /\ \A n \in Nat : Ladder[n] \in Nat /\ Ladder[n + 1] = NextWait(Ladder[n])
<1> DEFINE Body(f) == [n \in Nat |-> IF n = 0 THEN Retry
                         ELSE IF 2 * f[n - 1] + 1 >= Ceiling THEN Ceiling ELSE 2 * f[n - 1]]
<1>1. \E f : f = Body(f)
  BY LadderExists
<1>2. Ladder = Body(Ladder)
  <2>1. Ladder = CHOOSE f : f = Body(f)
    BY DEF Ladder
  <2> HIDE DEF Body
  <2> QED
    BY <1>1, <2>1
<1>3. Ladder[0] = Retry
  BY <1>2
<1>4. ASSUME NEW n \in Nat
      PROVE  Ladder[n + 1] = IF 2 * Ladder[n] + 1 >= Ceiling THEN Ceiling ELSE 2 * Ladder[n]
  <2>1. n + 1 \in Nat /\ n + 1 # 0 /\ (n + 1) - 1 = n
    OBVIOUS
  <2> QED
    BY <1>2, <2>1
<1> DEFINE S == {n \in Nat : Ladder[n] \in Nat}
<1>5. 0 \in S
  BY <1>3, PolicyAssumption
<1>6. ASSUME NEW n \in Nat, n \in S PROVE n + 1 \in S
  BY <1>4, <1>6, PolicyAssumption
<1> HIDE DEF S
<1>7. Nat \subseteq S
  BY <1>5, <1>6, Induction
<1> QED
  BY <1>3, <1>4, <1>7, DoublesToCeiling DEF S

(***************************************************************************)
(* What Run told its supervisor, and what became of it.                    *)
(***************************************************************************)
Report == [outcome : Outcomes, at : 0 .. MaxTime, action : Actions, wait : Nat]
Sup    == [wait : Retry .. Ceiling, refusing : BOOLEAN, since : 0 .. MaxTime]

\* Run has not given up.
Going == run \notin {"refused", "key"}

\* While Run goes on, the next wait is the ladder's step for the attempts that
\* failed since the link was up.
LadderKnows == Going => sup.wait = Ladder[Cardinality(SinceUp(Len(told) + 1))]

\* While Run goes on, the refusal clock started with the first refusal of those that
\* lead up to now, and runs exactly when there is one.
ClockKnows ==
  /\ sup.since <= now
  /\ Going /\ sup.refusing => \E j \in Streak(Len(told)) : told[j].at = sup.since
  /\ \A j \in Streak(Len(told)) : sup.refusing /\ sup.since <= told[j].at

ReportKnows == TypeOK /\ LadderKnows /\ ClockKnows /\ PolicyKept

\* What After decides, of an outcome it is told.
LEMMA AfterDecides ==
  ASSUME NEW s \in Sup, NEW outcome \in Outcomes, NEW t \in 0 .. MaxTime
  PROVE  LET d == After(s, outcome, t)
             refused == outcome = "refused" /\ s.refusing /\ t - s.since >= Grace
         IN  /\ d.sup \in Sup /\ d.action \in Actions /\ d.wait \in Nat
             /\ d.action = "giveUp" <=> outcome = "key" \/ refused
             /\ d.action = "hold" <=> outcome = "up"
             /\ d.action = "retry" => d.wait = IF outcome = "dropped" THEN 0 ELSE s.wait
             /\ outcome \in {"dropped", "key"} => d.sup = s
             /\ outcome # "refused" => d.sup.since = s.since
             /\ outcome = "up" => d.sup.wait = Retry /\ ~d.sup.refusing
             /\ outcome = "failed" => d.sup.wait = NextWait(s.wait) /\ ~d.sup.refusing
             /\ outcome = "refused" =>
                  /\ d.sup.refusing /\ d.sup.since = (IF s.refusing THEN s.since ELSE t)
                  /\ ~refused => d.sup.wait = NextWait(s.wait)
<1> DEFINE counted == Refusals(s, outcome, t)
           d == After(s, outcome, t)
<1>0. /\ MaxTime \in Nat /\ s.wait \in Nat /\ s.wait \in Retry .. Ceiling /\ Retry \in Retry .. Ceiling
      /\ s.since \in 0 .. MaxTime /\ s.refusing \in BOOLEAN
  BY PolicyAssumption, BoundsAssumption DEF Sup
<1>1. NextWait(s.wait) \in Retry .. Ceiling
  BY <1>0, NextWaitOnLadder
<1>2. CASE outcome = "up"
  <2>1. d = [sup |-> [s EXCEPT !.wait = Retry, !.refusing = FALSE], action |-> "hold", wait |-> 0]
    BY <1>2 DEF After
  <2> HIDE DEF d
  <2>2. d.sup = [s EXCEPT !.wait = Retry, !.refusing = FALSE] /\ d.action = "hold" /\ d.wait = 0
    BY <2>1
  <2>3. d.sup \in Sup /\ d.sup.wait = Retry /\ ~d.sup.refusing /\ d.sup.since = s.since
    BY <1>0, <2>2 DEF Sup
  <2> USE DEF d
  <2> QED
    BY <1>0, <1>2, <2>2, <2>3 DEF Actions
<1>3. CASE outcome = "dropped"
  <2>1. d = [sup |-> s, action |-> "retry", wait |-> 0]
    BY <1>3 DEF After, Retrying
  <2> QED
    BY <1>0, <1>3, <2>1 DEF Actions
<1>4. CASE outcome = "key"
  <2>1. d = [sup |-> s, action |-> "giveUp", wait |-> 0]
    BY <1>4 DEF After, GiveUp
  <2> QED
    BY <1>0, <1>4, <2>1 DEF Actions
<1>5. CASE outcome = "failed"
  <2>1. counted = [s EXCEPT !.refusing = FALSE]
    BY <1>5 DEF Refusals
  <2>2. d = Climbing(counted)
    BY <1>5 DEF After
  <2>3. d = [sup |-> [counted EXCEPT !.wait = NextWait(counted.wait)], action |-> "retry",
             wait |-> counted.wait]
    BY <2>2 DEF Climbing, Retrying
  <2>4. /\ counted \in Sup /\ counted.wait = s.wait /\ ~counted.refusing
        /\ counted.since = s.since
    BY <2>1 DEF Sup
  <2> HIDE DEF counted, d
  <2>5. d.sup = [counted EXCEPT !.wait = NextWait(s.wait)] /\ d.action = "retry" /\ d.wait = s.wait
    BY <2>3, <2>4
  <2>6. /\ d.sup \in Sup /\ d.sup.wait = NextWait(s.wait) /\ ~d.sup.refusing
        /\ d.sup.since = s.since
    BY <1>1, <2>4, <2>5 DEF Sup
  <2> USE DEF d
  <2> QED
    BY <1>0, <1>5, <2>5, <2>6 DEF Actions
<1>6. CASE outcome = "refused"
  <2>1. counted = IF s.refusing THEN s ELSE [s EXCEPT !.refusing = TRUE, !.since = t]
    BY <1>6 DEF Refusals
  <2>2. /\ counted \in Sup /\ counted.wait = s.wait /\ counted.refusing
        /\ counted.since = IF s.refusing THEN s.since ELSE t
    BY <1>0, <2>1 DEF Sup
  <2>3. Lasted(counted, t) <=> s.refusing /\ t - s.since >= Grace
    BY <1>0, <2>2, PolicyAssumption DEF Lasted
  <2>4. CASE Lasted(counted, t)
    <3>1. d = [sup |-> counted, action |-> "giveUp", wait |-> 0]
      BY <1>6, <2>4 DEF After, GiveUp
    <3> HIDE DEF counted, d
    <3>2. d.sup = counted /\ d.action = "giveUp" /\ d.wait = 0
      BY <3>1
    <3> USE DEF d
    <3> QED
      BY <1>0, <1>6, <2>2, <2>3, <2>4, <3>2 DEF Actions
  <2>5. CASE ~Lasted(counted, t)
    <3>1. d = Climbing(counted)
      BY <1>6, <2>5 DEF After
    <3>2. d = [sup |-> [counted EXCEPT !.wait = NextWait(counted.wait)], action |-> "retry",
               wait |-> counted.wait]
      BY <3>1 DEF Climbing, Retrying
    <3> HIDE DEF counted, d
    <3>3. d.sup = [counted EXCEPT !.wait = NextWait(s.wait)] /\ d.action = "retry" /\ d.wait = s.wait
      BY <2>2, <3>2
    <3>4. /\ d.sup \in Sup /\ d.sup.wait = NextWait(s.wait) /\ d.sup.refusing
          /\ d.sup.since = IF s.refusing THEN s.since ELSE t
      BY <1>1, <2>2, <3>3 DEF Sup
    <3> USE DEF d
    <3> QED
      BY <1>0, <1>6, <2>3, <2>5, <3>3, <3>4 DEF Actions
  <2> QED
    BY <2>4, <2>5
<1> QED
  BY <1>2, <1>3, <1>4, <1>5, <1>6 DEF Outcomes

\* A report is added to those there are, and says nothing new of them.
LEMMA ReportAdded ==
  ASSUME told \in Seq(Report), NEW r \in Report, told' = Append(told, r)
  PROVE  LET n == Len(told)
         IN  /\ n \in Nat /\ told' \in Seq(Report) /\ Len(told') = n + 1 /\ told'[n + 1] = r
             /\ \A i \in 1 .. n : told'[i] = told[i] /\ told[i] \in Report
             /\ \A i \in 1 .. n : Streak(i)' = Streak(i)
             /\ \A i \in 1 .. n + 1 : SinceUp(i)' = SinceUp(i)
<1> DEFINE n == Len(told)
<1>1. /\ n \in Nat /\ told' \in Seq(Report) /\ Len(told') = n + 1 /\ told'[n + 1] = r
      /\ \A i \in 1 .. n : told'[i] = told[i] /\ told[i] \in Report
  OBVIOUS
<1> HIDE DEF n
<1>2. ASSUME NEW i \in 1 .. n PROVE Streak(i)' = Streak(i)
  <2>1. \A j \in 1 .. i : told'[j] = told[j]
    BY <1>1
  <2>2. \A j \in 1 .. i : \A k \in j .. i : k \in 1 .. i
    BY <1>1
  <2> QED
    BY <2>1, <2>2 DEF Streak
<1>3. ASSUME NEW i \in 1 .. n + 1 PROVE SinceUp(i)' = SinceUp(i)
  <2>1. \A j \in 1 .. i - 1 : told'[j] = told[j]
    BY <1>1
  <2>2. \A j \in 1 .. i - 1 : \A k \in j .. i - 1 : k \in 1 .. i - 1
    BY <1>1
  <2> QED
    BY <2>1, <2>2 DEF SinceUp
<1> QED
  BY <1>1, <1>2, <1>3 DEF n

\* Telling the supervisor an outcome keeps all of it, and the report is right.
LEMMA TellReports ==
  ASSUME ReportKnows, NEW outcome \in Outcomes, Tell(outcome), now' = now, Going
  PROVE  /\ told' \in Seq(Report) /\ sup' \in Sup
         /\ run' \in {"loop", "watch", "pause", "refused", "key"} /\ pauseUntil' \in Nat
         /\ LadderKnows' /\ ClockKnows' /\ PolicyKept'
<1> DEFINE d == After(sup, outcome, now)
           r == [outcome |-> outcome, at |-> now, action |-> d.action, wait |-> d.wait]
           long == outcome = "refused" /\ sup.refusing /\ now - sup.since >= Grace
<1>n. PICK n \in Nat : n = Len(told)
  BY DEF ReportKnows, TypeOK
<1>0. /\ sup \in Sup /\ now \in 0 .. MaxTime /\ told \in Seq(Report) /\ MaxTime \in Nat
      /\ pauseUntil \in Nat /\ Grace \in Nat \ {0} /\ sup.since \in Nat /\ now \in Nat
  BY BoundsAssumption, PolicyAssumption DEF ReportKnows, TypeOK, Sup, Report
<1>1. /\ d.sup \in Sup /\ d.action \in Actions /\ d.wait \in Nat
      /\ d.action = "giveUp" <=> outcome = "key" \/ long
      /\ d.action = "hold" <=> outcome = "up"
      /\ d.action = "retry" => d.wait = IF outcome = "dropped" THEN 0 ELSE sup.wait
      /\ outcome \in {"dropped", "key"} => d.sup = sup
      /\ outcome # "refused" => d.sup.since = sup.since
      /\ outcome = "up" => d.sup.wait = Retry /\ ~d.sup.refusing
      /\ outcome = "failed" => d.sup.wait = NextWait(sup.wait) /\ ~d.sup.refusing
      /\ outcome = "refused" =>
           /\ d.sup.refusing /\ d.sup.since = (IF sup.refusing THEN sup.since ELSE now)
           /\ ~long => d.sup.wait = NextWait(sup.wait)
  BY <1>0, AfterDecides
<1>2. /\ sup' = d.sup /\ told' = Append(told, r)
      /\ CASE d.action = "hold"   -> run' = "loop" /\ UNCHANGED pauseUntil
          [] d.action = "giveUp" -> run' = outcome /\ UNCHANGED pauseUntil
          [] d.action = "retry" /\ outcome = "dropped" -> run' = "loop" /\ UNCHANGED pauseUntil
          [] OTHER -> run' = "pause" /\ pauseUntil' = now + d.wait
  BY DEF Tell
<1> HIDE DEF d
<1>3. r \in Report /\ r.outcome = outcome /\ r.at = now /\ r.action = d.action /\ r.wait = d.wait
  BY <1>0, <1>1 DEF Report
<1> HIDE DEF r
<1>4. /\ n \in Nat /\ told' \in Seq(Report) /\ Len(told') = n + 1 /\ told'[n + 1] = r
      /\ \A i \in 1 .. n : told'[i] = told[i] /\ told[i] \in Report
      /\ \A i \in 1 .. n : Streak(i)' = Streak(i)
      /\ \A i \in 1 .. n + 1 : SinceUp(i)' = SinceUp(i)
  BY <1>n, <1>0, <1>2, <1>3, ReportAdded
<1>5. /\ pauseUntil' \in Nat /\ run' \in {"loop", "pause", "refused", "key"}
      /\ Going' <=> ~(outcome = "key" \/ long)
  <2>1. CASE outcome = "key" \/ long
    BY <1>0, <1>1, <1>2, <2>1 DEF Going
  <2>2. CASE ~(outcome = "key" \/ long)
    BY <1>0, <1>1, <1>2, <2>2 DEF Going, Actions
  <2> QED
    BY <2>1, <2>2
<1>6. /\ sup.wait = Ladder[Cardinality(SinceUp(n + 1))]
      /\ sup.refusing => \E j \in Streak(n) : told[j].at = sup.since
      /\ \A j \in Streak(n) : sup.refusing /\ sup.since <= told[j].at
  BY <1>n DEF ReportKnows, LadderKnows, ClockKnows
\* The streak goes on with a refusal or a drop, and ends with anything else.
<1>7. /\ outcome \in {"up", "failed", "key"} => Streak(n + 1)' = {}
      /\ outcome = "dropped" => Streak(n + 1)' = Streak(n)
      /\ outcome = "refused" => Streak(n + 1)' = Streak(n) \cup {n + 1}
  <2>1. /\ \A i \in 1 .. n : told'[i].outcome = told[i].outcome
        /\ told'[n + 1].outcome = outcome
    BY <1>3, <1>4
  <2>2. \A j \in 1 .. n : j .. n + 1 = (j .. n) \cup {n + 1}
    BY <1>4
  <2>3. 1 .. n + 1 = (1 .. n) \cup {n + 1} /\ n + 1 .. n + 1 = {n + 1}
    BY <1>4
  <2>4. Streak(n + 1)' = {j \in 1 .. n + 1 :
                            /\ told'[j].outcome = "refused"
                            /\ \A k \in j .. n + 1 : told'[k].outcome \in {"refused", "dropped"}}
    BY DEF Streak
  <2>5. CASE outcome \in {"up", "failed", "key"}
    <3>1. ASSUME NEW j \in Streak(n + 1)' PROVE FALSE
      <4>1. j \in 1 .. n + 1 /\ n + 1 \in j .. n + 1
        BY <1>4, <2>4
      <4> QED
        BY <2>1, <2>4, <2>5, <4>1
    <3> QED
      BY <2>5, <3>1
  <2>6. CASE outcome = "dropped"
    <3>1. \A j \in 1 .. n : (\A k \in j .. n + 1 : told'[k].outcome \in {"refused", "dropped"}) <=>
                            (\A k \in j .. n : told[k].outcome \in {"refused", "dropped"})
      BY <1>4, <2>1, <2>2, <2>6
    <3> QED
      BY <2>1, <2>3, <2>4, <2>6, <3>1 DEF Streak
  <2>7. CASE outcome = "refused"
    <3>1. \A j \in 1 .. n : (\A k \in j .. n + 1 : told'[k].outcome \in {"refused", "dropped"}) <=>
                            (\A k \in j .. n : told[k].outcome \in {"refused", "dropped"})
      BY <1>4, <2>1, <2>2, <2>7
    <3> QED
      BY <2>1, <2>3, <2>4, <2>7, <3>1 DEF Streak
  <2> QED
    BY <2>5, <2>6, <2>7
<1>8. ClockKnows'
  <2>0. sup.since <= now
    BY DEF ReportKnows, ClockKnows
  <2>1. Streak(n) \subseteq 1 .. n
    BY DEF Streak
  <2>a. Streak(Len(told))' = Streak(n + 1)'
    BY <1>4 DEF Streak
  <2>2. \A j \in Streak(n) : told'[j].at = told[j].at
    BY <1>4, <2>1
  <2>3. CASE outcome \in {"up", "failed"}
    BY <1>1, <1>2, <1>7, <2>0, <2>a, <2>3 DEF ClockKnows
  <2>4. CASE outcome = "key"
    BY <1>1, <1>2, <1>5, <1>7, <2>0, <2>a, <2>4 DEF ClockKnows
  <2>5. CASE outcome = "dropped"
    BY <1>1, <1>2, <1>5, <1>6, <1>7, <2>0, <2>a, <2>2, <2>5 DEF ClockKnows, Going
  <2>6. CASE outcome = "refused"
    <3>1. sup'.refusing /\ sup'.since = (IF sup.refusing THEN sup.since ELSE now)
      BY <1>1, <1>2, <2>6
    <3>2. Streak(Len(told))' = Streak(n) \cup {n + 1} /\ told'[n + 1].at = now
      BY <1>3, <1>4, <1>7, <2>a, <2>6
    <3> QED
      BY <1>0, <1>6, <2>2, <2>0, <3>1, <3>2 DEF ClockKnows
  <2> QED
    BY <2>3, <2>4, <2>5, <2>6 DEF Outcomes
\* A failure or a refusal is one more attempt since the link was up.
<1>9. SinceUp(n + 2)' = IF outcome = "up" THEN {}
                        ELSE IF outcome \in {"failed", "refused"} THEN SinceUp(n + 1) \cup {n + 1}
                        ELSE SinceUp(n + 1)
  <2>1. /\ \A i \in 1 .. n : told'[i].outcome = told[i].outcome
        /\ told'[n + 1].outcome = outcome
    BY <1>3, <1>4
  <2>2. \A j \in 1 .. n : j .. n + 1 = (j .. n) \cup {n + 1}
    BY <1>4
  <2>3. 1 .. n + 1 = (1 .. n) \cup {n + 1} /\ n + 1 .. n + 1 = {n + 1}
    BY <1>4
  <2>4. SinceUp(n + 2)' = {j \in 1 .. n + 1 :
                             /\ told'[j].outcome \in {"failed", "refused"}
                             /\ \A k \in j .. n + 1 : told'[k].outcome # "up"}
    BY DEF SinceUp
  <2>5. SinceUp(n + 1) = {j \in 1 .. n :
                             /\ told[j].outcome \in {"failed", "refused"}
                             /\ \A k \in j .. n : told[k].outcome # "up"}
    BY DEF SinceUp
  <2>6. CASE outcome = "up"
    <3>1. ASSUME NEW j \in SinceUp(n + 2)' PROVE FALSE
      <4>1. j \in 1 .. n + 1 /\ n + 1 \in j .. n + 1
        BY <1>4, <2>4
      <4> QED
        BY <2>1, <2>4, <2>6, <4>1
    <3> QED
      BY <2>6, <3>1
  <2>7. CASE outcome # "up"
    <3>1. \A j \in 1 .. n : (\A k \in j .. n + 1 : told'[k].outcome # "up") <=>
                            (\A k \in j .. n : told[k].outcome # "up")
      BY <1>4, <2>1, <2>2, <2>7
    <3>2. SinceUp(n + 2)' = SinceUp(n + 1) \cup {j \in {n + 1} : outcome \in {"failed", "refused"}}
      <4>1. \A j \in 1 .. n : j \in SinceUp(n + 2)' <=> j \in SinceUp(n + 1)
        BY <2>1, <2>3, <2>4, <2>5, <3>1
      <4>2. n + 1 \in SinceUp(n + 2)' <=> outcome \in {"failed", "refused"}
        BY <2>1, <2>3, <2>4, <2>7
      <4>3. SinceUp(n + 2)' \subseteq (1 .. n) \cup {n + 1} /\ SinceUp(n + 1) \subseteq 1 .. n
        BY <2>3, <2>4, <2>5
      <4>4. n + 1 \notin 1 .. n
        OBVIOUS
      <4> QED
        BY <4>1, <4>2, <4>3, <4>4
    <3> QED
      BY <2>7, <3>2
  <2> QED
    BY <2>6, <2>7
<1>10. IsFiniteSet(SinceUp(n + 1)) /\ n + 1 \notin SinceUp(n + 1)
  <2>1. SinceUp(n + 1) \subseteq 1 .. n
    BY DEF SinceUp
  <2>2. IsFiniteSet(1 .. n)
    BY FS_Interval
  <2> QED
    BY <2>1, <2>2, FS_Subset
<1>11. LadderKnows'
  <2>1. SinceUp(Len(told) + 1)' = SinceUp(n + 2)'
    BY <1>4 DEF SinceUp
  <2>2. Cardinality(SinceUp(n + 1)) \in Nat
    BY <1>10, FS_CardinalityType
  <2>3. CASE outcome = "up"
    <3>1. Cardinality({}) = 0
      BY FS_EmptySet
    <3> QED
      BY <1>1, <1>2, <1>9, <2>1, <2>3, <3>1, LadderClimbs DEF LadderKnows
  <2>4. CASE outcome \in {"dropped", "key"}
    BY <1>1, <1>2, <1>6, <1>9, <2>1, <2>4 DEF LadderKnows
  <2>5. CASE outcome \in {"failed", "refused"}
    <3>1. Cardinality(SinceUp(n + 1) \cup {n + 1}) = Cardinality(SinceUp(n + 1)) + 1
      BY <1>10, FS_AddElement
    <3>2. Going' => sup'.wait = NextWait(sup.wait)
      BY <1>1, <1>2, <1>5, <2>5
    <3> QED
      BY <1>6, <1>9, <2>1, <2>2, <2>5, <3>1, <3>2, LadderClimbs DEF LadderKnows
  <2> QED
    BY <2>3, <2>4, <2>5 DEF Outcomes
<1>12. WaitsFollowLadder'
  <2>1. ASSUME NEW i \in 1 .. n + 1, told'[i].action = "retry"
        PROVE  told'[i].wait = IF told'[i].outcome = "dropped" THEN 0
                               ELSE Ladder[Cardinality(SinceUp(i)')]
    <3>1. CASE i = n + 1
      BY <1>1, <1>3, <1>4, <1>6, <2>1, <3>1
    <3>2. CASE i \in 1 .. n
      BY <1>n, <1>4, <2>1, <3>2 DEF ReportKnows, PolicyKept, WaitsFollowLadder
    <3> QED
      BY <3>1, <3>2
  <2> QED
    BY <1>4, <2>1 DEF WaitsFollowLadder
<1>13. GivesUpExactly'
  <2>1. ASSUME NEW i \in 1 .. n + 1, told'[i].outcome = "refused"
        PROVE  told'[i].action = "giveUp" <=>
                 \E j \in Streak(i)' : told'[i].at - told'[j].at >= Grace
    <3>1. CASE i = n + 1
      <4>1. outcome = "refused" /\ (told'[i].action = "giveUp" <=> long) /\ told'[i].at = now
        BY <1>1, <1>3, <1>4, <2>1, <3>1
      <4>2. Streak(i)' = Streak(n) \cup {n + 1}
        BY <1>7, <3>1, <4>1
      <4>3. Streak(n) \subseteq 1 .. n
        BY DEF Streak
      <4>4. \A j \in Streak(n) : told'[j].at = told[j].at /\ told[j].at \in Nat
        <5>1. \A k \in Streak(n) : k \in 1 .. n /\ told[k] \in Report
          BY <1>4, <4>3
        <5>2. \A x \in Report : x.at \in Nat
          BY <1>0 DEF Report
        <5> QED
          BY <1>4, <5>1, <5>2
      <4>5. ~(now - now >= Grace)
        BY <1>0
      <4>6. long <=> \E j \in Streak(n) : now - told[j].at >= Grace
        BY <1>0, <1>6, <4>1, <4>4
      <4> QED
        BY <3>1, <4>1, <4>2, <4>4, <4>5, <4>6
    <3>2. CASE i \in 1 .. n
      <4>1. Streak(i) \subseteq 1 .. n
        BY <1>4, <3>2 DEF Streak
      <4>2. told[i].action = "giveUp" <=> \E j \in Streak(i) : told[i].at - told[j].at >= Grace
        BY <1>n, <1>4, <2>1, <3>2 DEF ReportKnows, PolicyKept, GivesUpExactly
      <4> QED
        BY <1>4, <3>2, <4>1, <4>2
    <3> QED
      BY <3>1, <3>2
  <2> QED
    BY <1>4, <2>1 DEF GivesUpExactly
<1> QED
  BY <1>1, <1>2, <1>4, <1>5, <1>8, <1>11, <1>12, <1>13 DEF PolicyKept

\* No step but telling the supervisor changes what was told.
LEMMA OthersReport ==
  ASSUME ReportKnows, UNCHANGED supervisor, now' \in Nat, now <= now',
         Going' => Going
  PROVE  LadderKnows' /\ ClockKnows' /\ PolicyKept'
<1>1. sup' = sup /\ told' = told
  BY DEF supervisor
<1>2. sup.since \in Nat /\ now \in Nat
  BY BoundsAssumption DEF ReportKnows, TypeOK
<1>3. \A i : Streak(i)' = Streak(i) /\ SinceUp(i)' = SinceUp(i)
  BY <1>1 DEF Streak, SinceUp
<1>4. Streak(Len(told))' = Streak(Len(told)) /\ SinceUp(Len(told) + 1)' = SinceUp(Len(told) + 1)
  BY <1>1 DEF Streak, SinceUp
<1>5. LadderKnows'
  BY <1>1, <1>4 DEF ReportKnows, LadderKnows
<1>6. ClockKnows'
  <2>1. sup'.since <= now'
    BY <1>1, <1>2 DEF ReportKnows, ClockKnows
  <2> QED
    BY <1>1, <1>4, <2>1 DEF ReportKnows, ClockKnows
<1>7. WaitsFollowLadder'
  BY <1>1, <1>3 DEF ReportKnows, PolicyKept, WaitsFollowLadder
<1>8. GivesUpExactly'
  BY <1>1, <1>3 DEF ReportKnows, PolicyKept, GivesUpExactly
<1> QED
  BY <1>5, <1>6, <1>7, <1>8 DEF PolicyKept

\* Every step of the program keeps the reports right.
LEMMA ReportNext ==
  ASSUME Bounded, ReportKnows, [Next]_vars
  PROVE  ReportKnows'
<1>0. /\ now \in 0 .. MaxTime /\ linkUp \in BOOLEAN /\ pauseUntil \in Nat /\ retryAt \in Nat
      /\ run \in {"loop", "watch", "pause", "refused", "key"} /\ sup \in Sup
      /\ retryWait \in Retry .. Ceiling /\ told \in Seq(Report) /\ admitted \in BOOLEAN
      /\ MaxTime \in Nat /\ now \in Nat
  BY BoundsAssumption DEF ReportKnows, TypeOK, Sup, Report
<1>1. LaddersHeld'
  BY BoundedNext DEF Bounded
<1>2. ASSUME NEW outcome \in Outcomes, Tell(outcome), now' = now, linkUp' \in BOOLEAN,
             admitted' \in BOOLEAN, Going
      PROVE  ReportKnows'
  BY <1>0, <1>1, <1>2, TellReports DEF ReportKnows, TypeOK, LaddersHeld, Report, Sup
<1>3. ASSUME UNCHANGED supervisor, now' \in 0 .. MaxTime, now <= now', linkUp' \in BOOLEAN,
             admitted' \in BOOLEAN, run' \in {"loop", "watch", "pause", "refused", "key"},
             Going' => Going
      PROVE  ReportKnows'
  <2>1. sup' = sup /\ told' = told /\ now' \in Nat
    BY <1>0, <1>3 DEF supervisor
  <2>2. LadderKnows' /\ ClockKnows' /\ PolicyKept'
    BY <1>3, <2>1, OthersReport
  <2>3. TypeOK'
    BY <1>0, <1>1, <1>3, <2>1 DEF TypeOK, LaddersHeld, Report, Sup
  <2> QED
    BY <2>2, <2>3 DEF ReportKnows
<1>4. CASE RunDials
  BY <1>0, <1>2, <1>4 DEF RunDials, Outcomes, Going
<1>5. CASE RunHolds
  BY <1>0, <1>2, <1>5 DEF RunHolds, Outcomes, Going
<1>6. CASE RunSeesDrop
  BY <1>0, <1>2, <1>6 DEF RunSeesDrop, Outcomes, Going
<1>7. CASE RunWatches
  BY <1>0, <1>3, <1>7 DEF RunWatches, Going
<1>8. CASE RunResumes
  BY <1>0, <1>3, <1>8 DEF RunResumes, Going
<1>9. CASE CallerDials
  BY <1>0, <1>3, <1>9 DEF CallerDials, Going
<1>10. CASE WarmDials
  BY <1>0, <1>3, <1>10 DEF WarmDials, Going
<1>11. CASE LinkDrops
  <2>1. linkUp' \in BOOLEAN /\ UNCHANGED <<now, run, supervisor, admitted>>
    BY <1>11 DEF LinkDrops
  <2> QED
    BY <1>0, <1>3, <2>1 DEF Going
<1>12. CASE Tick
  BY <1>0, <1>3, <1>12 DEF Tick, Going
<1>13. CASE UNCHANGED vars
  BY <1>0, <1>3, <1>13 DEF vars, supervisor, Going
<1> QED
  BY <1>4, <1>5, <1>6, <1>7, <1>8, <1>9, <1>10, <1>11, <1>12, <1>13 DEF Next

LEMMA ReportInit ==
  ASSUME Init PROVE ReportKnows
<1>1. TypeOK
  <2>1. sup = [wait |-> Retry, refusing |-> FALSE, since |-> 0] /\ Retry \in Retry .. Ceiling
        /\ 0 \in 0 .. MaxTime /\ MaxTime \in Nat
    BY PolicyAssumption, BoundsAssumption DEF Init, Fresh
  <2>2. sup \in [wait : Retry .. Ceiling, refusing : BOOLEAN, since : 0 .. MaxTime]
    BY <2>1
  <2>3. told = <<>> /\ << >> \in Seq([outcome : Outcomes, at : 0 .. MaxTime, action : Actions,
                                        wait : Nat])
    BY DEF Init
  <2>4. now = 0 /\ linkUp = FALSE /\ run = "loop" /\ pauseUntil = 0 /\ retryAt = 0
        /\ retryWait = Retry /\ admitted = FALSE
    BY DEF Init
  <2> HIDE DEF Init
  <2> QED
    BY <2>1, <2>2, <2>3, <2>4 DEF TypeOK
<1>2. told = <<>> /\ Len(told) = 0 /\ sup.wait = Retry /\ sup.since = 0 /\ now = 0
      /\ sup.refusing = FALSE
  BY DEF Init, Fresh
<1>3. SinceUp(Len(told) + 1) = {} /\ Streak(Len(told)) = {} /\ Cardinality({}) = 0
  BY <1>2, FS_EmptySet DEF SinceUp, Streak
<1>4. PolicyKept
  BY <1>2 DEF PolicyKept, WaitsFollowLadder, GivesUpExactly
<1>5. LadderKnows
  <2>1. Cardinality(SinceUp(Len(told) + 1)) = 0
    BY <1>3
  <2> QED
    BY <1>2, <2>1, LadderClimbs DEF LadderKnows
<1>6. ClockKnows
  BY <1>2, <1>3 DEF ClockKnows
<1> QED
  BY <1>1, <1>4, <1>5, <1>6 DEF ReportKnows

\* For every policy, what Run tells its supervisor, the clock and both ladders keep
\* their types, and every report is as the policy says (LinkSupervisor.After, Run).
THEOREM ReportInvariance == Spec => []ReportKnows
<1>1. Init => Bounded /\ ReportKnows
  BY BoundedInit, ReportInit
<1>2. Bounded /\ ReportKnows /\ [Next]_vars => (Bounded /\ ReportKnows)'
  BY BoundedNext, ReportNext
<1> QED
  BY <1>1, <1>2, PTL DEF Spec

\* The types of a session's ladders and of Run (LinkSupervisor, Run).
THEOREM LinkTyped == Spec => []TypeOK
<1>1. ReportKnows => TypeOK
  BY DEF ReportKnows
<1> QED
  BY <1>1, ReportInvariance, PTL

\* Whatever outcomes Run meets, and however often, it waits the ladder's step for
\* the failures since the link was up, and gives up on refusals exactly when they
\* alone have lasted the grace (LinkSupervisor.After, HubSessionPolicy.NextWait).
THEOREM PolicyAlwaysKept == Spec => []PolicyKept
<1>1. ReportKnows => PolicyKept
  BY DEF ReportKnows
<1> QED
  BY <1>1, ReportInvariance, PTL

================================================================================
