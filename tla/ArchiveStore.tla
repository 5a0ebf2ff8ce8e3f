---------------------------- MODULE ArchiveStore -----------------------------
(***************************************************************************)
(* What the destination of one volume promises its users: a set of         *)
(* archives that only grows, one archive at a time, in which every archive *)
(* can be read back whole and every incremental one has its parent.        *)
(*                                                                         *)
(* doc/design-code.md:137 asks for this with the word "Transactions":      *)
(* chunk files, partial runs and the replacement of the metadata file are  *)
(* not visible at this level.                                              *)
(***************************************************************************)
EXTENDS Integers

CONSTANTS Timestamps, None

VARIABLE store      \* what a reader of the destination finds per snapshot

(* parent: the snapshot the stream applies to, None for a full send;       *)
(* stream: "whole" if the chunks yield the complete stream, else "damaged".*)
Record == [parent : Timestamps \cup {None}, stream : {"whole", "damaged"}]

Stored == {t \in Timestamps : store[t] # None}

StoreInit == store = [t \in Timestamps |-> None]

(* One `bbkar run` step adds one archive, all of it or nothing.            *)
AddFull(t) ==
  /\ t \notin Stored
  /\ store' = [store EXCEPT ![t] = [parent |-> None, stream |-> "whole"]]

AddIncremental(t, p) ==
  /\ t \notin Stored
  /\ p \in Stored
  /\ p < t
  /\ store' = [store EXCEPT ![t] = [parent |-> p, stream |-> "whole"]]

StoreNext ==
  \E t \in Timestamps :
    AddFull(t) \/ \E p \in Timestamps : AddIncremental(t, p)

StoreSpec == StoreInit /\ [][StoreNext]_store

=============================================================================
