---------------------------- MODULE MCUiSession ----------------------------
(***************************************************************************)
(* The runs of UiSession.  A key is only ever compared with other keys, so *)
(* they are symmetric.                                                     *)
(***************************************************************************)
EXTENDS UiSession

KeySymmetry == Permutations(Keys)
=============================================================================
