-------------------------- MODULE MCSessionDriver --------------------------
(***************************************************************************)
(* The sets of client commands the runs of SessionDriver choose from.  The *)
(* two credentials take the same path, so one of them is enough.           *)
(***************************************************************************)
EXTENDS SessionDriver

SessionOps == {"Connect", "Disconnect", "Send", "SetSecret", "Fs", "Exec"}

\* Reconnecting, and nothing else.
ReconnectOps == {"Connect"}
=============================================================================
