------------------------- MODULE MCTerminalStream --------------------------
(***************************************************************************)
(* The characters the run of TerminalStream chooses from: one of each kind *)
(* that is treated in a way of its own.                                    *)
(***************************************************************************)
EXTENDS TerminalStream

Characters == Controls \cup {Csi} \cup Intermediates \cup Parameters \cup Letters
=============================================================================
