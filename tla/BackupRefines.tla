---------------------------- MODULE BackupRefines ----------------------------
(***************************************************************************)
(* A single `bbkar run` at a time implements ArchiveStore.                 *)
(***************************************************************************)
EXTENDS BackupRun

(* A reader takes the chunk list from the metadata and the bytes from the  *)
(* chunk files, as ChunkStreamReader does; it does not look at digests.    *)
ReadBack(t) == [i \in DOMAIN meta[t].chunks |-> files[t][i]]

Readable(t) == Complete([parent |-> meta[t].parent, chunks |-> ReadBack(t)])

StoreView ==
  [t \in Timestamps |->
     IF meta[t] = None THEN None
     ELSE [parent |-> meta[t].parent,
           stream |-> IF Readable(t) THEN "whole" ELSE "damaged"]]

Store == INSTANCE ArchiveStore WITH store <- StoreView

ASSUME RecordAssumption == None \notin Store!Record

(* Every step of inspection, planning, sending, crashing and committing    *)
(* either leaves what a reader finds as it was or adds one whole archive   *)
(* whose parent is there (cli/run.rs:59-161).                              *)
StoreRefined == Store!StoreSpec

=============================================================================
