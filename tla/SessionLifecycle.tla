------------------------- MODULE SessionLifecycle -------------------------
(***************************************************************************)
(* What one session promises to the code that holds its handle: a stream   *)
(* of lifecycle states that only moves along legal edges, and one result   *)
(* per accepted request, in the order the requests were accepted.  Closing *)
(* the handle ends both streams.  SessionDriver is shown to implement it.  *)
(*                                                                         *)
(* The edges are those of the driver of rust-core/src/session.rs.  Two of  *)
(* them are easy to overlook: a session that already reported Disconnected *)
(* or Failed may report the other one without a connection in between,     *)
(* because the reader of a connection that is gone may still have an event *)
(* in the driver's queue.                                                  *)
(***************************************************************************)
EXTENDS Naturals

VARIABLES
  shown,      \* the lifecycle state the client was last told
  accepted,   \* the last request id handed out for a queued request
  answered,   \* the request id of the last result delivered
  open        \* the handle has not been destroyed yet

vars == <<shown, accepted, answered, open>>

States == {"Idle", "Connecting", "Connected", "Disconnecting",
           "Disconnected", "Failed"}

\* The states the client may be told after each state.
Follows ==
  [s \in States |->
     CASE s = "Idle"          -> {"Connecting", "Failed"}
       [] s = "Connecting"    -> {"Connected", "Failed", "Disconnected"}
       [] s = "Connected"     -> {"Disconnecting", "Disconnected", "Failed"}
       [] s = "Disconnecting" -> {"Disconnected"}
       [] s = "Disconnected"  -> {"Connecting", "Failed"}
       [] s = "Failed"        -> {"Connecting", "Disconnected"}]

Init ==
  /\ shown = "Idle"
  /\ accepted = 0
  /\ answered = 0
  /\ open = TRUE

Report ==
  /\ open
  /\ shown' \in Follows[shown]
  /\ UNCHANGED <<accepted, answered, open>>

Accept ==
  /\ open
  /\ accepted' = accepted + 1
  /\ UNCHANGED <<shown, answered, open>>

Deliver ==
  /\ open
  /\ answered < accepted
  /\ answered' = answered + 1
  /\ UNCHANGED <<shown, accepted, open>>

Close ==
  /\ open
  /\ open' = FALSE
  /\ UNCHANGED <<shown, accepted, answered>>

Next == Report \/ Accept \/ Deliver \/ Close

Spec == Init /\ [][Next]_vars
=============================================================================
