--------------------------- MODULE MCReceiveStream ---------------------------
(***************************************************************************)
(* An instance of ReceiveStream for TLC.                                   *)
(***************************************************************************)
EXTENDS ReceiveStream

(* Three chunks, of two units, one and four.                               *)
ThreeChunks == <<2, 3, 7>>

=============================================================================
