---------------------------------- MODULE TokenLife ----------------------------------
(***************************************************************************)
(* The token of a ControlPlane (device_login.go, control.go,               *)
(* native_auth.go): sign-ins that finish, and revokes that read the token, *)
(* send, and forget it, on several goroutines.  The lock is held for each  *)
(* reading and writing of the fields, never across a request.              *)
(***************************************************************************)
CONSTANTS
  SignIns,  \* the sign-ins, each naming the token it is answered with
  Revokes,  \* the calls of RevokeAPIToken
  NoToken

ASSUME TokenAssumption == NoToken \notin SignIns

VARIABLES
  held,    \* AccessToken, TokenID and revokedOwn
  life,    \* life[t]: what token t is to the API
  signIn,  \* signIn[s]: one sign-in and what it is answered with
  revoke   \* revoke[r]: one call, its target, the token it sent

tokenVars == <<held, life, signIn, revoke>>

MaybeToken == SignIns \cup {NoToken}

TokenTypeOK ==
  /\ held \in [access : MaybeToken, id : MaybeToken, revokedOwn : BOOLEAN]
  /\ life \in [SignIns -> {"unissued", "alive", "dead"}]
  /\ signIn \in [SignIns -> [at : {"idle", "answered", "done"}, named : BOOLEAN]]
  /\ revoke \in [Revokes -> [at : {"idle", "sending", "sent", "forgetting", "done"},
                   target : MaybeToken, own : BOOLEAN, by : MaybeToken,
                   told : {"none", "ok", "error"}]]

TokenInit ==
  /\ held = [access |-> NoToken, id |-> NoToken, revokedOwn |-> FALSE]
  /\ life = [s \in SignIns |-> "unissued"]
  /\ signIn = [s \in SignIns |-> [at |-> "idle", named |-> FALSE]]
  /\ revoke = [r \in Revokes |-> [at |-> "idle", target |-> NoToken, own |-> FALSE,
                                  by |-> NoToken, told |-> "none"]]

--------------------------------------------------------------------------------
\* The API issues a token: a device or native sign-in's has an id, a password
\* sign-in's has none.
SignInAnswered(s) ==
  /\ signIn[s].at = "idle"
  /\ life' = [life EXCEPT ![s] = "alive"]
  /\ \E named \in BOOLEAN : signIn' = [signIn EXCEPT ![s] = [at |-> "answered", named |-> named]]
  /\ UNCHANGED <<held, revoke>>

\* Mutant: a token without an id leaves the id there was.
IdKept(s) == IF signIn[s].named THEN s ELSE held.id

IdOf(s) == IF signIn[s].named THEN s ELSE NoToken

\* acceptToken.
SignInKept(s) ==
  /\ signIn[s].at = "answered"
  /\ held' = [access |-> s, id |-> IdOf(s), revokedOwn |-> FALSE]
  /\ signIn' = [signIn EXCEPT ![s].at = "done"]
  /\ UNCHANGED <<life, revoke>>

RevokeIs(r, fields) == revoke' = [revoke EXCEPT ![r] = fields]

Told(r, what) == RevokeIs(r, [revoke[r] EXCEPT !.at = "done", !.told = what])

\* RevokeAPIToken, under the lock: which token it is about, and whether it is
\* the one held.
RevokeBegins(r) ==
  /\ revoke[r].at = "idle"
  /\ \E given \in MaybeToken :
       LET target == IF given # NoToken THEN given ELSE held.id
       IN  IF target = NoToken
           THEN Told(r, IF held.revokedOwn /\ held.access = NoToken THEN "ok" ELSE "error")
           ELSE RevokeIs(r, [revoke[r] EXCEPT !.at = "sending", !.target = target,
                                              !.own = target = held.id])
  /\ UNCHANGED <<held, life, signIn>>

\* The request carries the token held when it is sent.
RevokeSends(r) ==
  /\ revoke[r].at = "sending"
  /\ IF held.access = NoToken THEN Told(r, "error")
     ELSE RevokeIs(r, [revoke[r] EXCEPT !.at = "sent", !.by = held.access])
  /\ UNCHANGED <<held, life, signIn>>

\* The API: a dead token authenticates nothing (401), a token may revoke
\* itself, another one only with the scope; any answer may be lost.
RevokeAnswered(r) ==
  /\ revoke[r].at = "sent"
  /\ LET target == revoke[r].target
         forgets == [revoke[r] EXCEPT !.at = "forgetting"]
     IN  IF life[revoke[r].by] = "dead"
         THEN /\ (revoke[r].own /\ RevokeIs(r, forgets)) \/ Told(r, "error")
              /\ UNCHANGED life
         ELSE \/ /\ life[target] = "alive" /\ life' = [life EXCEPT ![target] = "dead"]
                 /\ RevokeIs(r, forgets) \/ Told(r, "error")
              \/ Told(r, "error") /\ UNCHANGED life
  /\ UNCHANGED <<held, signIn>>

\* Mutant: what is held now is taken for what was revoked.
WasOwn(r) == revoke[r].own

\* The token held is still the one revoked.
StillHeld(r) == revoke[r].own /\ held.id = revoke[r].target

RevokeForgets(r) ==
  /\ revoke[r].at = "forgetting"
  /\ held' = IF StillHeld(r) THEN [access |-> NoToken, id |-> NoToken, revokedOwn |-> TRUE] ELSE held
  /\ Told(r, "ok")
  /\ UNCHANGED <<life, signIn>>

TokenExpires(t) ==
  /\ life[t] = "alive" /\ life' = [life EXCEPT ![t] = "dead"]
  /\ UNCHANGED <<held, signIn, revoke>>

TokenNext ==
  \/ \E s \in SignIns : SignInAnswered(s) \/ SignInKept(s) \/ TokenExpires(s)
  \/ \E r \in Revokes : RevokeBegins(r) \/ RevokeSends(r) \/ RevokeAnswered(r) \/ RevokeForgets(r)

--------------------------------------------------------------------------------
\* The id held names the token held, or nothing; a revoke told as done left
\* its token dead, unless the sign-in that replaced it meanwhile sent a token
\* of its own that was dead (device_login.go:305-310, 341-347).
TokenTruth ==
  /\ held.id \in {held.access, NoToken}
  /\ \A r \in Revokes :
       revoke[r].told = "ok" /\ revoke[r].target # NoToken =>
         \/ life[revoke[r].target] = "dead"
         \/ revoke[r].by # revoke[r].target /\ life[revoke[r].by] = "dead"

\* A token is only forgotten when the API knows it no more: a sign-in that
\* finishes while a revoke is on its way keeps its token
\* (device_login.go:349-352).
LiveTokenKept ==
  held.access # NoToken /\ held'.access = NoToken => life[held.access] = "dead"
================================================================================
