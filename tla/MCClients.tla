----------------------------- MODULE MCClients ------------------------------
(***************************************************************************)
(* Seed: two deploys at once copy two runs of three cuts, and two die.     *)
(* Replay: three cut files; two crashes let a script die, and the script   *)
(* that would repair what it left die as well.  Export: two runs, each     *)
(* labeled or not, ended or live, with features or not.  Load: a level of  *)
(* one run and one of two, two cuts for each.  Page: a labeled run of the  *)
(* demo and two of the user's.                                             *)
(***************************************************************************)
EXTENDS Clients, TLC

LevelsOneTwo == <<1, 2>>

Alike == Permutations(Seeders) \cup Permutations(Runs)
=============================================================================
