---------------------------------- MODULE HubClients ----------------------------------
(***************************************************************************)
(* Connections of a hub (control.go, connections.go): one is created of    *)
(* the kind its caller wants, or not kept; a delete names the revision it  *)
(* is about, reads it again once when somebody changed it meanwhile, and   *)
(* takes a connection that is gone for deleted.  An answer may be lost     *)
(* after its request was done.                                             *)
(***************************************************************************)
EXTENDS Integers

CONSTANTS
  Calls,        \* calls of CreateClientIdentity or DeleteClient, on a connection each
  ConnectionKinds,  \* the kinds of connection a caller may want
  Ordinary,     \* what an API that does not know the kind makes
  MaxRevision   \* how often somebody else changes a connection (bounds the model)

ASSUME ClientsAssumption == Ordinary \notin ConnectionKinds /\ MaxRevision \in Nat

VARIABLES
  client,  \* client[c]: the connection call c is about, in the API
  call     \* call[c]: what c asks for, what it read, what it was told

clientVars == <<client, call>>

NoEtag == -1

ClientsTypeOK ==
  /\ client \in [Calls -> [is : {"unmade", "there", "gone"}, kind : ConnectionKinds \cup {Ordinary},
                           revision : 0..MaxRevision]]
  /\ \A c \in Calls :
       call[c] \in [op : {"create", "delete"}, kind : ConnectionKinds, etag : NoEtag..MaxRevision,
                    at : {"idle", "made", "reading", "deleting", "done"}, attempt : 0..1,
                    told : {"none", "ok", "refused", "failed", "deleted", "undeleted"}]

ClientsInitOf(wanted) ==
  \E kinds \in [Calls -> ConnectionKinds], ops \in [Calls -> wanted] :
    \E etags \in [Calls -> {NoEtag, 0}] :
      /\ client = [c \in Calls |-> [is |-> IF ops[c] = "create" THEN "unmade" ELSE "there",
                                    kind |-> kinds[c], revision |-> 0]]
      /\ call = [c \in Calls |-> [op |-> ops[c], kind |-> kinds[c], etag |-> etags[c],
                                  at |-> "idle", attempt |-> 0, told |-> "none"]]

ClientsInit == ClientsInitOf({"create", "delete"})

--------------------------------------------------------------------------------
Goes(c, at)   == call' = [call EXCEPT ![c].at = at]
Says(c, what) == call' = [call EXCEPT ![c].at = "done", ![c].told = what]

\* POST: refused for the kind (422), refused for something else, or made: of
\* the kind, or as an ordinary one; the answer may be lost.
ClientPosted(c) ==
  /\ call[c].op = "create" /\ call[c].at = "idle"
  /\ \/ UNCHANGED client /\ \E what \in {"refused", "failed"} : Says(c, what)
     \/ \E kind \in {call[c].kind, Ordinary} :
          /\ client' = [client EXCEPT ![c].is = "there", ![c].kind = kind]
          /\ Goes(c, "made") \/ Says(c, "failed")

\* Mutant: whatever kind the API answers with is taken.
AnyKind(c) == TRUE

KindHonoured(c) == client[c].kind = call[c].kind

\* requireConnectionType: a connection of another kind is deleted, with the
\* etag it was answered with, or without one.  An answer no identity can be
\* made of is an error, and its connection stays.
ClientChecked(c) ==
  /\ call[c].op = "create" /\ call[c].at = "made"
  /\ IF KindHonoured(c) THEN \E what \in {"ok", "failed"} : Says(c, what)
     ELSE \/ /\ call[c].etag = NoEtag /\ Goes(c, "reading")
          \/ /\ call[c].etag # NoEtag /\ Goes(c, "deleting")
          \/ Says(c, "undeleted")  \* an answer without an id
  /\ UNCHANGED client

DeleteBegins(c) ==
  /\ call[c].op = "delete" /\ call[c].at = "idle"
  /\ Goes(c, IF call[c].etag = NoEtag THEN "reading" ELSE "deleting")
  /\ UNCHANGED client

\* GET of the etag.
DeleteReads(c) ==
  /\ call[c].at = "reading"
  /\ \/ client[c].is = "gone" /\ Says(c, "deleted")
     \/ /\ client[c].is = "there"
        /\ call' = [call EXCEPT ![c].at = "deleting", ![c].etag = client[c].revision]
     \/ Says(c, "undeleted")
  /\ UNCHANGED client

\* Mutant: a delete whose answer is an error may have been done.
DoneAnyway == {"deleted"}

\* What an answer that is no 2xx, 404 or 412 makes of a delete.
Otherwise == {"undeleted"}

\* DELETE under If-Match: done, or done with its answer lost; gone already;
\* changed meanwhile, which is tried once more from a fresh read; refused.
DeleteSends(c) ==
  /\ call[c].at = "deleting"
  /\ \/ /\ client[c].is = "there" /\ client[c].revision = call[c].etag
        /\ client' = [client EXCEPT ![c].is = "gone"]
        /\ \E what \in {"deleted"} \cup Otherwise : Says(c, what)
     \/ /\ client[c].is = "gone" /\ UNCHANGED client /\ Says(c, "deleted")
     \/ /\ client[c].is = "there" /\ client[c].revision # call[c].etag /\ UNCHANGED client
        /\ IF call[c].attempt = 0
           THEN call' = [call EXCEPT ![c].at = "reading", ![c].etag = NoEtag, ![c].attempt = 1]
           ELSE Says(c, "undeleted")
     \/ UNCHANGED client /\ \E what \in Otherwise : Says(c, what)

\* Another writer changes the connection, or deletes it.
ElseChanges(c) ==
  /\ client[c].is = "there"
  /\ \/ /\ client[c].revision < MaxRevision
        /\ client' = [client EXCEPT ![c].revision = @ + 1]
     \/ client' = [client EXCEPT ![c].is = "gone"]
  /\ UNCHANGED call

ClientsNext ==
  \E c \in Calls : \/ ClientPosted(c) \/ ClientChecked(c) \/ DeleteBegins(c) \/ DeleteReads(c)
                   \/ DeleteSends(c) \/ ElseChanges(c)

--------------------------------------------------------------------------------
\* What a caller is told of its connection is so: one it was given is of the
\* kind it asked for, one it was told deleted is gone, however often others
\* changed it and whichever request it learned that from, and none was made
\* when the kind was refused (connections.go:113-130, 138-172).
ClientsTruth ==
  \A c \in Calls :
    /\ call[c].op = "create" /\ call[c].told = "ok" => client[c].kind = call[c].kind
    /\ call[c].told = "deleted" => client[c].is = "gone"
    /\ call[c].told = "refused" => client[c].is = "unmade"
================================================================================
