------------------------ MODULE GiteaClientLifecycle ------------------------
(***************************************************************************)
(* What NFReconfigController takes for granted of the process's Gitea       *)
(* client: it is made once, by a start that succeeds or fails for good; a   *)
(* client that works may stop working when the credentials are rotated;    *)
(* only a new process begins anew.                                         *)
(***************************************************************************)
VARIABLE client

Init == client = "nil"

(* The credentials may be rotated while the client is being made.           *)
Start ==
  /\ client = "nil"
  /\ client' \in {"uninitialized", "valid", "revoked"}

Revoke ==
  /\ client = "valid"
  /\ client' = "revoked"

Restart == client' = "nil"

Next == Start \/ Revoke \/ Restart

Spec == Init /\ [][Next]_client
=============================================================================
