--------------------------------- MODULE ControlPlane ---------------------------------
(***************************************************************************)
(* The calls of a ControlPlane that share something: a configuration       *)
(* (ConfigMerge), the token (TokenLife), operations to wait for            *)
(* (OperationWaits), connections (HubClients).  They meet in nothing else, *)
(* so a behaviour is of one of them at a time.                             *)
(***************************************************************************)
EXTENDS ConfigMerge, TokenLife, OperationWaits, HubClients

CONSTANT ControlParts  \* the parts looked at

VARIABLE control

controlVars == <<control, mergeVars, tokenVars, waitVars, clientVars>>

Init ==
  /\ control \in ControlParts
  /\ IF control = "config" THEN MergeInitWith(Starts, Changes, Others)
     ELSE MergeInitWith({NoConfig}, {NoConfig}, {NoConfig})
  /\ TokenInit
  /\ IF control = "waits" THEN WaitsInit ELSE WaitsInitOf({"skill"})
  /\ IF control = "clients" THEN ClientsInit
     ELSE ClientsInitOf({"create"}) /\ \A c \in Calls : call[c].etag = NoEtag

Next ==
  /\ UNCHANGED control
  /\ \/ control = "config"  /\ MergeNext   /\ UNCHANGED <<tokenVars, waitVars, clientVars>>
     \/ control = "tokens"  /\ TokenNext   /\ UNCHANGED <<mergeVars, waitVars, clientVars>>
     \/ control = "waits"   /\ WaitsNext   /\ UNCHANGED <<mergeVars, tokenVars, clientVars>>
     \/ control = "clients" /\ ClientsNext /\ UNCHANGED <<mergeVars, tokenVars, waitVars>>

Spec == Init /\ [][Next]_controlVars /\ WaitsFairness

TypeOK ==
  /\ control \in ControlParts
  /\ MergeTypeOK /\ TokenTypeOK /\ WaitsTypeOK /\ ClientsTypeOK

\* What a call tells its caller is what the API did: a merge said to be stored
\* is, a token and its id are of one answer, and a connection said to be gone,
\* made or refused is (control.go:751-766, device_login.go:337-381,
\* connections.go:113-172).
ToldTruth == MergeToldTruth /\ TokenTruth /\ ClientsTruth

\* A token in use is only given up for its own revocation, and a wait asks no
\* more often than it was told (device_login.go:374-381, connections.go:277-312).
TokensAndPace == [][LiveTokenKept /\ WaitsPaced]_controlVars
================================================================================
