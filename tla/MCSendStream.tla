---------------------------- MODULE MCSendStream -----------------------------
(***************************************************************************)
(* An instance of SendStream for TLC.                                      *)
(***************************************************************************)
EXTENDS SendStream

=============================================================================
