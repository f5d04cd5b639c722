-------------------------------- MODULE HomeRequests --------------------------------
(***************************************************************************)
(* Answering what a hub asks a home (home.go).  Each request is answered   *)
(* by a goroutine that waits for the handler's goroutine, then for the     *)
(* reply's, never past the hub's bound: a handler or a link that ignores   *)
(* its context is left behind, and what it does late must not become a     *)
(* second or a belated answer.                                             *)
(***************************************************************************)
CONSTANT HomeRequestIds  \* the requests that arrive

VARIABLES
  stopped,  \* the function AnswerHomeRequests returned has been called
  home      \* home[r]: one request, its clock, its handler and its reply

homeVars == <<stopped, home>>

ResponseTypes == {"action_done", "query_answer", "error"}
ErrorCodes    == {"no_intent_match", "no_valid_targets", "failed_to_handle", "unknown",
                  "timeout", "agent_unavailable"}
NoCode == "no_code"

\* What a handler may say: what the contract allows, what it does not, and
\* what the SDK would say for it.
HandlerAnswer == [type : ResponseTypes \cup {"", "other"},
                  code : {NoCode, "no_intent_match", "timeout", "other"}, speech : BOOLEAN]
Response      == [type : ResponseTypes, code : ErrorCodes \cup {NoCode}, speech : BOOLEAN]

\* The SDK's own answers say nothing: the hub speaks its sentence for the code.
OwnAnswer(code) == [type |-> "error", code |-> code, speech |-> FALSE]
Nothing         == [type |-> "error", code |-> NoCode, speech |-> FALSE]

HomeTypeOK ==
  /\ stopped \in BOOLEAN
  /\ home \in [HomeRequestIds ->
       [at : {"awaited", "handling", "answering", "replying", "done"},
        clock : {"open", "handler_over", "bound_over"},
        handler : {"none", "running", "ok", "failed", "gave_up"},
        said : HandlerAnswer \cup Response,
        reply : {"none", "queued", "writing", "written", "failed"},
        told : {"none", "payload", "nothing", "error", "stopped"}]]

HomeInit ==
  /\ stopped = FALSE
  /\ home = [r \in HomeRequestIds |->
       [at |-> "awaited", clock |-> "open", handler |-> "none", said |-> Nothing,
        reply |-> "none", told |-> "none"]]

--------------------------------------------------------------------------------
\* Mutant: the handler's answer as it is.
ResponseAsSaid(answer) == answer

\* HomeResponse: an unknown type or code becomes the unknown error, the speech
\* is kept, and a code is only sent with an error.
HomeResponse(answer) ==
  LET type == IF answer.type = "" THEN "action_done" ELSE answer.type
      code == IF type = "error" THEN answer.code ELSE NoCode
  IN  IF type \notin ResponseTypes \/ (type = "error" /\ code \notin ErrorCodes)
      THEN [type |-> "error", code |-> "unknown", speech |-> answer.speech]
      ELSE [type |-> type, code |-> code, speech |-> answer.speech]

Goes(r, fields) == home' = [home EXCEPT ![r] = fields]

Told(r, what) == Goes(r, [home[r] EXCEPT !.at = "done", !.told = what])

\* On's handler starts a goroutine, unless answering was stopped.
RequestArrives(r) ==
  /\ home[r].at = "awaited" /\ ~stopped
  /\ Goes(r, [home[r] EXCEPT !.at = "handling", !.handler = "running"])
  /\ UNCHANGED stopped

StopAnswering == ~stopped /\ stopped' = TRUE /\ UNCHANGED home

\* The handler's deadline is no later than the hub's bound.
TimePasses(r) ==
  /\ home[r].at # "awaited"
  /\ \/ home[r].clock = "open" /\ Goes(r, [home[r] EXCEPT !.clock = "handler_over"])
     \/ home[r].clock # "bound_over" /\ Goes(r, [home[r] EXCEPT !.clock = "bound_over"])
  /\ UNCHANGED stopped

\* The handler's goroutine, which may return at any time or never; an answer
\* that comes when nobody waits any more goes nowhere.
HandlerReturns(r) ==
  /\ home[r].handler = "running"
  /\ \E outcome \in {"ok", "failed", "gave_up"}, answer \in HandlerAnswer :
       /\ outcome # "ok" => answer = Nothing
       /\ Goes(r, IF home[r].at = "handling"
                  THEN [home[r] EXCEPT !.handler = outcome, !.said = answer]
                  ELSE [home[r] EXCEPT !.handler = "none"])
  /\ UNCHANGED stopped

Answers(r, response) ==
  Goes(r, [home[r] EXCEPT !.at = "answering", !.said = response])

\* runHomeHandler, with a result in hand.
HandlerAnswered(r) ==
  /\ home[r].at = "handling" /\ home[r].handler \in {"ok", "failed", "gave_up"}
  /\ IF stopped THEN Told(r, "stopped")
     ELSE Answers(r, CASE home[r].handler = "ok" -> HomeResponse(home[r].said)
                       [] home[r].handler = "gave_up" /\ home[r].clock # "open" -> OwnAnswer("timeout")
                       [] OTHER -> OwnAnswer("failed_to_handle"))
  /\ UNCHANGED stopped

\* runHomeHandler, with the handler's context over: the handler runs on.
HandlerOverdue(r) ==
  /\ home[r].at = "handling" /\ (stopped \/ home[r].clock # "open")
  /\ IF stopped THEN Told(r, "stopped")
     ELSE Goes(r, [home[r] EXCEPT !.at = "answering", !.said = OwnAnswer("timeout"),
                     !.handler = IF @ = "running" THEN @ ELSE "none"])
  /\ UNCHANGED stopped

ReplyBegins(r) ==
  /\ home[r].at = "answering"
  /\ IF home[r].clock = "bound_over" THEN Told(r, "nothing")
     ELSE Goes(r, [home[r] EXCEPT !.at = "replying", !.reply = "queued"])
  /\ UNCHANGED stopped

\* Mutant: the reply's context has no deadline.
OnlyStopped(r) == stopped

ContextOver(r) == stopped \/ home[r].clock = "bound_over"

\* Replier.Reply waits for the link with its context, but finishes a frame it
\* has begun, however long that takes.
ReplyWrites(r) ==
  /\ \/ /\ home[r].reply = "queued" /\ ~ContextOver(r)
        /\ Goes(r, [home[r] EXCEPT !.reply = "writing"])
     \/ /\ home[r].reply = "queued"
        /\ Goes(r, [home[r] EXCEPT !.reply = "failed"])
     \/ /\ home[r].reply = "writing"
        /\ \E end \in {"written", "failed"} : Goes(r, [home[r] EXCEPT !.reply = end])
  /\ UNCHANGED stopped

ReplyReturned(r) ==
  /\ home[r].at = "replying" /\ home[r].reply \in {"written", "failed"}
  /\ Told(r, CASE home[r].reply = "written"     -> "payload"
               [] stopped                       -> "stopped"
               [] home[r].clock = "bound_over"  -> "nothing"
               [] OTHER                         -> "error")
  /\ UNCHANGED stopped

\* Mutant: the wait for the reply ends with the handler's time.
ReplyGivenUp(r) ==
  /\ home[r].at = "replying" /\ (stopped \/ home[r].clock # "open")
  /\ Told(r, IF stopped THEN "stopped" ELSE "nothing")
  /\ UNCHANGED stopped

ReplyOverdue(r) ==
  /\ home[r].at = "replying" /\ ContextOver(r)
  /\ Told(r, IF stopped THEN "stopped" ELSE "nothing")
  /\ UNCHANGED stopped

HomeStep(r) ==
  HandlerAnswered(r) \/ HandlerOverdue(r) \/ ReplyBegins(r) \/ ReplyReturned(r) \/ ReplyOverdue(r)

HomeNext ==
  \/ StopAnswering
  \/ \E r \in HomeRequestIds :
       RequestArrives(r) \/ TimePasses(r) \/ HandlerReturns(r) \/ HomeStep(r) \/ ReplyWrites(r)

\* Time passes and the answering goroutine is scheduled; neither the handler
\* nor the link has to return.
HomeFairness ==
  \A r \in HomeRequestIds : WF_homeVars(TimePasses(r)) /\ WF_homeVars(HomeStep(r))

HomeSpec == HomeInit /\ [][HomeNext]_homeVars /\ HomeFairness

--------------------------------------------------------------------------------
\* What the caller of AnswerHomeRequest is told is what the hub got, and the
\* hub gets nothing but the contract's types and codes; an answer of the
\* SDK's own is silent (home.go:13-20, 242-258).
HomeToldTruth ==
  \A r \in HomeRequestIds :
    LET q == home[r]
    IN  /\ q.told = "payload" => q.reply = "written"
        /\ q.told = "error" => q.reply = "failed"
        /\ q.reply # "none" =>
             /\ q.said \in Response
             /\ q.said.type = "error" <=> q.said.code # NoCode
             /\ q.handler # "ok" => q.said \in {OwnAnswer("timeout"), OwnAnswer("failed_to_handle")}

\* What AnswerHomeRequest told its caller stands: once it has returned, the
\* reply it left behind is not begun, however late the link lets it through;
\* only a frame already being written is finished (home.go:253-258).
AnswerStands ==
  \A r \in HomeRequestIds :
    home[r].told # "none" =>
      /\ home'[r].told = home[r].told
      /\ home'[r].reply \in {"writing", "written"} => home[r].reply \in {"writing", "written"}

\* Every request is over by the hub's bound, though its handler and its link
\* hang (home.go:242-247, 283-284).
HomeRequestsEnd ==
  \A r \in HomeRequestIds : home[r].at = "handling" ~> home[r].at = "done"
================================================================================
