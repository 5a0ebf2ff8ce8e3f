---------------------------- MODULE MCRestoreRun -----------------------------
(***************************************************************************)
(* Instances of RestoreRun for TLC.                                        *)
(***************************************************************************)
EXTENDS RestoreRun, TLC

Latest == [explicit |-> {}, min |-> None, max |-> None]
Only(S) == [explicit |-> S, min |-> None, max |-> None]

(* The default, one or two named snapshots, a range with and without ends, *)
(* and a named snapshot outside the range.                                 *)
SomeRequests ==
  {Latest, Only({2}), Only({1, 3}),
   [explicit |-> {}, min |-> 2, max |-> None],
   [explicit |-> {3}, min |-> 1, max |-> 2]}

FewRequests == {Latest, Only({2})}

Alike == Permutations(Restores)

=============================================================================
