------------------------------ MODULE MCStores ------------------------------
(***************************************************************************)
(* The local stores, SqliteConnection and FileStore.  They share no        *)
(* variable and call one another nowhere, so that a property of one holds  *)
(* in every interleaving with the other if it holds alone: part says whose *)
(* steps a behaviour has.                                                  *)
(*                                                                         *)
(* SQLite: a delete of three statements, two executemany of two and three  *)
(* rows and an append, at once.  Files: one key, two putting and two       *)
(* reading it, as many inodes as the names and the open files can hold.    *)
(***************************************************************************)
EXTENDS SqliteConnection, FileStore, TLC

CONSTANTS delete, bulk1, bulk2, append

MCLength == delete :> 3 @@ bulk1 :> 2 @@ bulk2 :> 3 @@ append :> 1

VARIABLE part

MCInit == part \in {"sqlite", "files"} /\ Init /\ FileInit

MCNext ==
  /\ UNCHANGED part
  /\ \/ part = "sqlite" /\ Next /\ UNCHANGED fileVars
     \/ part = "files" /\ FileNext /\ UNCHANGED vars

MCSpec == MCInit /\ [][MCNext]_<<part, vars, fileVars>>

Alike == Permutations(Inodes) \cup Permutations(Payloads) \cup Permutations(Writers)
=============================================================================
