-------------------------------- MODULE OperationWaits --------------------------------
(***************************************************************************)
(* Waiting for what the API works on: WaitForAdmission (connections.go),   *)
(* WaitForHubSkillOperation (hub_skills.go) and the device sign-in's poll  *)
(* loop (control.go, device_login.go).  Each asks, is told, and sleeps;    *)
(* what ends it, and how long it sleeps, differs.                          *)
(***************************************************************************)
EXTENDS Integers

CONSTANTS
  Waits,      \* the calls
  Timeout,    \* their timeout, in ticks
  Interval,   \* their poll interval
  MaxAsked,   \* the longest the API asks a caller to wait (bounds the model)
  SlowDown    \* what slow_down adds to a device sign-in's interval

ASSUME WaitsAssumption ==
  /\ {Timeout, Interval, MaxAsked, SlowDown} \subseteq Nat \ {0}

VARIABLES
  work,  \* work[w]: the operation, or the approval, w waits for
  wait   \* wait[w]: one call, its clocks and its outcome

waitVars == <<work, wait>>

Kinds    == {"admission", "skill", "device"}
Pending  == {"requested", "committed", "applied"}
WaitOutcomes == {"ok", "failed", "refused", "auth", "error", "timeout", "canceled"}

WaitsTypeOK ==
  /\ work \in [Waits -> Pending \cup {"ready", "failed", "gone"}]
  /\ \A w \in Waits :
       wait[w] \in [kind : Kinds, at : {"idle", "asking", "sleeping", "done"}, left : 0..Timeout,
                    interval : Nat, nap : Nat, asked : Nat, slept : Nat, over : BOOLEAN,
                    told : WaitOutcomes \cup {"none"}]

WaitsInitOf(waitKinds) ==
  /\ work = [w \in Waits |-> "requested"]
  /\ \E kinds \in [Waits -> waitKinds] :
       wait = [w \in Waits |-> [kind |-> kinds[w], at |-> "idle", left |-> Timeout,
                 interval |-> Interval, nap |-> 0, asked |-> 0, slept |-> 0, over |-> FALSE,
                 told |-> "none"]]

WaitsInit == WaitsInitOf(Kinds)

--------------------------------------------------------------------------------
\* The hub works on, or the person approves; what is over may be forgotten.
WorkGoesOn(w) ==
  /\ work' = [work EXCEPT ![w] =
       CASE @ = "requested" -> "committed" [] @ = "committed" -> "applied"
         [] @ = "applied" -> "ready" [] OTHER -> "gone"]
  /\ work[w] # "gone" /\ UNCHANGED wait

WorkFails(w) ==
  /\ work[w] \in Pending /\ work' = [work EXCEPT ![w] = "failed"] /\ UNCHANGED wait

WaitIs(w, fields) == UNCHANGED work /\ wait' = [wait EXCEPT ![w] = fields]

Ends(w, told) == WaitIs(w, [wait[w] EXCEPT !.at = "done", !.told = told])

WaitBegins(w) == wait[w].at = "idle" /\ WaitIs(w, [wait[w] EXCEPT !.at = "asking"])

WaitContextEnds(w) ==
  /\ wait[w].at \in {"asking", "sleeping"} /\ ~wait[w].over
  /\ WaitIs(w, [wait[w] EXCEPT !.over = TRUE])

Less(n) == IF n = 0 THEN 0 ELSE n - 1

\* A request and a sleep both take time.
Tick(w) ==
  /\ \/ wait[w].at = "asking" /\ wait[w].left > 0
     \/ wait[w].at = "sleeping" /\ wait[w].nap > 0
  /\ WaitIs(w, [wait[w] EXCEPT !.left = Less(@), !.nap = Less(@),
                  !.slept = IF wait[w].at = "sleeping" THEN @ + 1 ELSE @])

\* Mutant: what the API asks for is not waited for.
Shortest(w, asked) == wait[w].interval

\* The wait before the next request: the interval, or what the API asks for.
NextWait(w, asked) == IF asked > wait[w].interval THEN asked ELSE wait[w].interval

AtMost(n, bound) == IF n < bound THEN n ELSE bound

\* The sleep is cut at the deadline, for one last request there.
Sleeps(w, asked) ==
  WaitIs(w, [wait[w] EXCEPT !.at = "sleeping", !.slept = 0,
    !.asked = IF asked > wait[w].interval THEN asked ELSE wait[w].interval,
    !.nap = AtMost(NextWait(w, asked), wait[w].left)])

AskAgain(w, asked) == IF wait[w].left = 0 THEN Ends(w, "timeout") ELSE Sleeps(w, asked)

Asks(w) == wait[w].at = "asking"

\* WaitForAdmission: the wait's own deadline bounds the request too; the API's
\* trouble is no verdict on the connection, and the token's trouble is not
\* the connection's.
AdmissionAnswered(w) ==
  /\ wait[w].kind = "admission" /\ Asks(w)
  /\ IF wait[w].over THEN Ends(w, "canceled")
     ELSE IF wait[w].left = 0 THEN Ends(w, "timeout")
     ELSE \/ work[w] \in {"ready", "gone"} /\ Ends(w, "ok")
          \/ work[w] = "failed" /\ Ends(w, "failed")
          \/ work[w] \in Pending /\ AskAgain(w, 0)
          \/ AskAgain(w, 0)  \* 5xx
          \/ \E asked \in 0..MaxAsked :  \* 429
               IF NextWait(w, asked) > wait[w].left THEN Ends(w, "timeout") ELSE AskAgain(w, asked)
          \/ \E told \in {"auth", "refused", "error"} : Ends(w, told)

\* WaitForHubSkillOperation: any refusal ends it; a request is not cut at the
\* deadline, and one answered as its context ends is heard.
SkillAnswered(w) ==
  /\ wait[w].kind = "skill" /\ Asks(w)
  /\ \/ work[w] = "ready" /\ Ends(w, "ok")
     \/ work[w] = "failed" /\ Ends(w, "failed")
     \/ work[w] \in Pending /\ AskAgain(w, 0)
     \/ Ends(w, IF wait[w].over THEN "canceled" ELSE "error")

\* pollDeviceToken over deviceTokenOnce: slow_down lengthens the interval for
\* good; a token that was issued is given once.
DeviceAnswered(w) ==
  /\ wait[w].kind = "device" /\ Asks(w)
  /\ \/ /\ work[w] = "ready" /\ ~wait[w].over
        /\ work' = [work EXCEPT ![w] = "gone"]
        /\ \E told \in {"ok", "error"} :
             wait' = [wait EXCEPT ![w].at = "done", ![w].told = told]
     \/ work[w] \in {"failed", "gone"} /\ Ends(w, "failed")
     \/ work[w] \in Pending /\ AskAgain(w, 0)
     \/ /\ work[w] \in Pending
        /\ wait[w].interval <= MaxAsked  \* bounds the model
        /\ wait[w].left > 0 /\ UNCHANGED work
        /\ LET longer == wait[w].interval + SlowDown
           IN  wait' = [wait EXCEPT ![w].at = "sleeping", ![w].slept = 0, ![w].interval = longer,
                 ![w].asked = longer, ![w].nap = AtMost(longer, wait[w].left)]
     \/ Ends(w, IF wait[w].over THEN "canceled" ELSE "error")

\* The sleep ends by itself or with the context; a skill's wait looks at its
\* context and its deadline before it asks again.
Wakes(w) ==
  /\ wait[w].at = "sleeping"
  /\ \/ wait[w].over /\ Ends(w, "canceled")
     \/ /\ wait[w].nap = 0 /\ (wait[w].kind = "skill" => ~wait[w].over)
        /\ IF wait[w].kind = "skill" /\ wait[w].left = 0 THEN Ends(w, "timeout")
           ELSE WaitIs(w, [wait[w] EXCEPT !.at = "asking"])

WaitStep(w) == AdmissionAnswered(w) \/ SkillAnswered(w) \/ DeviceAnswered(w) \/ Wakes(w)

WaitsNext ==
  \E w \in Waits :
    WorkGoesOn(w) \/ WorkFails(w) \/ WaitBegins(w) \/ WaitContextEnds(w) \/ Tick(w) \/ WaitStep(w)

\* Mutant: the wait's deadline does not bound its requests.
EndsWhenOver(w) == wait[w].at = "sleeping" \/ wait[w].over

\* What ends by itself: a sleep, and a request whose context ended; an admission
\* wait gives its requests its deadline.  Nothing else bounds a request: the
\* default HTTP client has no timeout.
EndsByItself(w) ==
  \/ wait[w].at = "sleeping" \/ wait[w].over
  \/ wait[w].kind = "admission" /\ wait[w].left = 0

\* Time passes, and what ends by itself ends; the hub may work for ever.
WaitsFairness ==
  \A w \in Waits : WF_waitVars(Tick(w)) /\ WF_waitVars(EndsByItself(w) /\ WaitStep(w))

--------------------------------------------------------------------------------
\* No request is sent before the interval, or what the API asked for, is over,
\* but the one at the deadline; and what a 429 asked for is never cut
\* (connections.go:279-284, device_login.go:289-292).
WaitsPaced ==
  \A w \in Waits :
    wait[w].at = "sleeping" /\ wait'[w].at = "asking" /\ wait[w].slept < wait[w].asked =>
      wait[w].left = 0 /\ wait[w].asked = wait[w].interval

\* A wait for an admission ends, whatever the API answers or does not, however
\* long the hub works; every other ends with its context, at the latest
\* (connections.go:246-251, 307-309).
WaitsEnd ==
  \A w \in Waits :
    wait[w].at = "asking" /\ (wait[w].kind = "admission" \/ wait[w].over) ~> wait[w].at = "done"

\* What the documentation says of a device sign-in: its timeout bounds the
\* whole wait (control.go:287).  It does not: a request that is not answered is
\* not cut at the deadline.
DeviceWaitBounded ==
  \A w \in Waits : wait[w].at = "asking" /\ wait[w].kind = "device" ~> wait[w].at = "done"
================================================================================
