---------------------------- MODULE TaskOutcome ----------------------------
(***************************************************************************)
(* What the two ends of one upload or download task may conclude: the      *)
(* client reports success only of a task that the server has completed;    *)
(* either may fail at any time, and the server may complete a task that    *)
(* the client will repeat.                                                 *)
(***************************************************************************)
VARIABLES client, server

vars == <<client, server>>

Init == client = "running" /\ server = "running"

ClientSucceeds ==
  /\ client = "running"
  /\ server = "ok"
  /\ client' = "ok"
  /\ UNCHANGED server

ClientFails ==
  /\ client = "running"
  /\ client' = "failed"
  /\ UNCHANGED server

\* A client that has succeeded has had the server's last byte.
ServerEnds ==
  /\ server = "running"
  /\ server' \in {"ok", "failed"}
  /\ UNCHANGED client

Next == ClientSucceeds \/ ClientFails \/ ServerEnds

\* Neither end waits for the other for ever.
Spec == Init /\ [][Next]_vars /\ WF_vars(ClientFails) /\ WF_vars(ServerEnds)

=============================================================================
