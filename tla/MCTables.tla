------------------------------ MODULE MCTables ------------------------------
(***************************************************************************)
(* What keeps the tables of accounts, machines and runs: the deployed      *)
(* store (PostgresConnection), the registry of machines and runs           *)
(* (Registry), and the auth endpoints, the limiter before them and the     *)
(* accounts and sessions behind it (RateLimiter, Accounts).  Registry and  *)
(* Accounts take a statement of the store as one step that may raise, and  *)
(* what the limiter decides reaches a request only as its answer 429,      *)
(* which Accounts takes as a free choice.  They share no variable, so that *)
(* a property of one holds in every interleaving with the others if it     *)
(* holds alone: part says whose steps a behaviour has.                     *)
(*                                                                         *)
(* Postgres: a delete of two statements, a batch of two inserts, a batch   *)
(* of two upserts and an insert, at once.  Registry: any three requests on *)
(* a machine with one run, whose id a client may use again.  Limiter:      *)
(* three threads serve requests from one address.  Accounts: three         *)
(* requests for two addresses.                                             *)
(***************************************************************************)
EXTENDS PostgresConnection, Registry, RateLimiter, Accounts, TLC

CONSTANTS delete, bulk, upserts, append

MCLength == delete :> 2 @@ bulk :> 2 @@ upserts :> 2 @@ append :> 1

CONSTANTS alice, m1, x1

OneOwner == m1 :> alice
OneTool  == x1 :> m1
AllKinds == {"create_machine", "rename_machine", "delete_machine",
             "create_run", "rename_run", "delete_run", "tool_change"}

VARIABLE part

MCInit ==
  /\ part \in {"postgres", "registry", "limiter", "accounts"}
  /\ Init /\ RegistryInit /\ LimiterInit /\ AccountsInit

MCNext ==
  /\ UNCHANGED part
  /\ \/ part = "postgres" /\ Next /\ UNCHANGED <<registryVars, limiterVars, accountVars>>
     \/ part = "registry" /\ RegistryNext /\ UNCHANGED <<vars, limiterVars, accountVars>>
     \/ part = "limiter" /\ LimiterNext /\ UNCHANGED <<vars, registryVars, accountVars>>
     \/ part = "accounts" /\ AccountsNext /\ UNCHANGED <<vars, registryVars, limiterVars>>

MCSpec == MCInit /\ [][MCNext]_<<part, vars, registryVars, limiterVars, accountVars>>

Alike == Permutations(Requests) \cup Permutations(Emails)

\* One set of model values names the requests of the registry, those of the auth
\* endpoints and the threads that serve them.
ASSUME MCTablesAssumption == Requests = Callers /\ Requests = Visits
=============================================================================
