------------------------------ MODULE Registry ------------------------------
(***************************************************************************)
(* Machines and runs: the endpoints that create, rename and delete them    *)
(* (api/app.py) and the tool change of twin/lifecycle.py.  Requests run in *)
(* worker threads and interleave between their statements; any statement   *)
(* may raise, and the process may die.                                     *)
(*                                                                         *)
(* RunService.tla splits delete_run into its seven statements and has the  *)
(* rows below a run; here deleting a run is one step.  The id the server   *)
(* draws for a machine or a run is the request that drew it.               *)
(***************************************************************************)
EXTENDS Naturals

CONSTANTS
  Requests, Users,
  System,    \* the owner of the shared reference machines: nobody
  Shared,    \* a shared reference machine
  Reference, \* its run
  OwnerOf,   \* the machines that exist already, and whose they are
  OnOf,      \* the runs on them, whose ids clients use again for new runs
  Kinds      \* the requests that are made

\* Nobody draws an id that is there already.
ASSUME RegistryAssumption ==
  /\ System \notin Users /\ Shared \notin Requests /\ Reference \notin Requests
  /\ OwnerOf \in [DOMAIN OwnerOf -> Users] /\ Shared \notin DOMAIN OwnerOf
  /\ OnOf \in [DOMAIN OnOf -> DOMAIN OwnerOf] /\ Reference \notin DOMAIN OnOf
  /\ Requests \cap (DOMAIN OwnerOf \cup DOMAIN OnOf) = {}
  /\ Kinds \subseteq {"create_machine", "rename_machine", "delete_machine",
                      "create_run", "rename_run", "delete_run", "tool_change"}

VARIABLES
  machines,  \* the machines table
  runs,      \* the runs table
  twins,     \* the ids that have a twin_state row
  req        \* the requests

registryVars == <<machines, runs, twins, req>>

MachineIds == Requests \cup {Shared} \cup DOMAIN OwnerOf
RunIds     == Requests \cup {Reference} \cup DOMAIN OnOf

\* by is not a column: it tells one run from the next under the same id.
Machine == [machine_id : MachineIds, owner_id : Users \cup {System}, name : BOOLEAN]
Run     == [run_id : RunIds, machine_id : MachineIds, started_at : Nat, ended : BOOLEAN,
            label : BOOLEAN, by : RunIds]

NewRun(id, m, at, by) ==
  [run_id |-> id, machine_id |-> m, started_at |-> at, ended |-> FALSE, label |-> FALSE, by |-> by]

Request ==
  [pc : {"new", "check", "check_run", "insert", "end", "deploy", "write", "runs", "machine", "done"},
   kind : Kinds \cup {"none"}, user : Users, machine : MachineIds, run : RunIds,
   todo : SUBSET Run, status : {0, 200, 400, 404, 409, 500}]

RegistryInit ==
  /\ machines = {[machine_id |-> Shared, owner_id |-> System, name |-> FALSE]} \cup
       {[machine_id |-> m, owner_id |-> OwnerOf[m], name |-> FALSE] : m \in DOMAIN OwnerOf}
  /\ runs = {NewRun(Reference, Shared, 0, Reference)} \cup {NewRun(x, OnOf[x], 0, x) : x \in DOMAIN OnOf}
  /\ twins = {Reference} \cup DOMAIN OnOf
  /\ \E u \in Users :
       req = [r \in Requests |->
               [pc |-> "new", kind |-> "none", user |-> u, machine |-> Shared, run |-> Reference,
                todo |-> {}, status |-> 0]]

At(r, pc) == req[r].pc = pc
Is(r, K) == req[r].kind \in K
Go(r, pc) == req' = [req EXCEPT ![r].pc = pc]
Answer(r, status) == req' = [req EXCEPT ![r] = [@ EXCEPT !.pc = "done", !.status = status]]

RunsOf(m) == {x \in runs : x.machine_id = m}
get_run(id) == {x \in runs : x.run_id = id}
Latest(S) == {x \in S : \A y \in S : y.started_at <= x.started_at}

\* _writable_machine
Writable(r) == \E m \in machines : m.machine_id = req[r].machine /\ m.owner_id = req[r].user

Arrive(r) ==
  /\ At(r, "new")
  /\ \E k \in Kinds, u \in Users, m \in {x.machine_id : x \in machines},
        id \in {r, Reference} \cup DOMAIN OnOf \cup {x.run_id : x \in runs} :
       /\ k \in {"create_run", "tool_change"} => id \in {r, Reference} \cup DOMAIN OnOf
       /\ k \in {"create_machine", "rename_machine", "delete_machine"} => id = Reference
       /\ k = "create_machine" => m = Shared   \* these name no run, and no machine
       /\ req' = [req EXCEPT ![r] = [pc |-> "check", kind |-> k, user |-> u, machine |-> m,
                                      run |-> id, todo |-> {}, status |-> 0]]
  /\ UNCHANGED <<machines, runs, twins>>

create_machine(r) ==
  /\ At(r, "check") /\ Is(r, {"create_machine"})
  /\ machines' = machines \cup {[machine_id |-> r, owner_id |-> req[r].user, name |-> FALSE]}
  /\ Answer(r, 200)
  /\ UNCHANGED <<runs, twins>>

\* start_new_run is called by scripts, which ask for no owner.
CheckMachine(r) ==
  /\ At(r, "check") /\ ~ Is(r, {"create_machine", "tool_change"})
  /\ IF Writable(r)
       THEN Go(r, IF Is(r, {"rename_machine"}) THEN "write"
                  ELSE IF Is(r, {"delete_machine"}) THEN "runs" ELSE "check_run")
       ELSE Answer(r, 404)
  /\ UNCHANGED <<machines, runs, twins>>

rename_machine(r) ==
  /\ At(r, "write") /\ Is(r, {"rename_machine"})
  /\ machines' = {IF m.machine_id = req[r].machine THEN [m EXCEPT !.name = TRUE] ELSE m : m \in machines}
  /\ Answer(r, 200)
  /\ UNCHANGED <<runs, twins>>

\* The reference, which the client names or is c1, must be there, the id must not.
StartRun(r) ==
  /\ At(r, "check_run") /\ Is(r, {"create_run"})
  /\ \E reference \in RunIds :
       IF get_run(reference) = {} THEN Answer(r, 400)
       ELSE IF get_run(req[r].run) # {} THEN Answer(r, 409)
       ELSE Go(r, "insert")
  /\ UNCHANGED <<machines, runs, twins>>

\* start_new_run reads get_active_run, the latest run of the machine not ended.
StartNewRun(r) ==
  /\ At(r, "check") /\ Is(r, {"tool_change"})
  /\ LET active == Latest({x \in RunsOf(req[r].machine) : ~ x.ended})
     IN  IF get_run(req[r].run) # {} THEN Answer(r, 409)
         ELSE req' = [req EXCEPT ![r] = [@ EXCEPT !.todo = active,
                                                  !.pc = IF active = {} THEN "insert" ELSE "end"]]
  /\ UNCHANGED <<machines, runs, twins>>

EndRun(x) == [x EXCEPT !.ended = TRUE]

end_run(r) ==
  /\ At(r, "end")
  /\ runs' = {IF \E a \in req[r].todo : a.run_id = x.run_id THEN EndRun(x) ELSE x : x \in runs}
  /\ Go(r, "insert")
  /\ UNCHANGED <<machines, twins>>

MachineExists(m) == \E x \in machines : x.machine_id = m     \* REFERENCES machines

create_run(r) ==
  /\ At(r, "insert")
  /\ IF get_run(req[r].run) = {} /\ MachineExists(req[r].machine)
       THEN /\ runs' = runs \cup
                 {NewRun(req[r].run, req[r].machine, 1 + (CHOOSE x \in Latest(runs) : TRUE).started_at, r)}
            /\ Go(r, "deploy")
       ELSE Answer(r, 500) /\ UNCHANGED runs
  /\ UNCHANGED <<machines, twins>>

\* deploy_from_reference reads the reference and may raise; twin_state references
\* the run, which may be gone.
Deploy(r) ==
  /\ At(r, "deploy")
  /\ IF get_run(req[r].run) # {}
       THEN twins' = twins \cup {req[r].run} /\ Answer(r, 200)
       ELSE Answer(r, 500) /\ UNCHANGED twins
  /\ UNCHANGED <<machines, runs>>

OnMachine(r) == {x \in get_run(req[r].run) : x.machine_id = req[r].machine}

CheckRun(r) ==
  /\ At(r, "check_run") /\ Is(r, {"rename_run", "delete_run"})
  /\ IF OnMachine(r) = {} THEN Answer(r, 404) ELSE Go(r, "write")
  /\ UNCHANGED <<machines, runs, twins>>

rename_run(r) ==
  /\ At(r, "write") /\ Is(r, {"rename_run"})
  /\ runs' = {IF x.run_id = req[r].run THEN [x EXCEPT !.label = TRUE] ELSE x : x \in runs}
  /\ Answer(r, 200)
  /\ UNCHANGED <<machines, twins>>

\* The effect of the store's delete_run(id).
DropRun(id) == runs' = runs \ get_run(id) /\ twins' = twins \ {id}

delete_run(r) ==
  /\ At(r, "write") /\ Is(r, {"delete_run"})
  /\ DropRun(req[r].run)
  /\ Answer(r, 200)
  /\ UNCHANGED machines

\* delete_machine: list the runs, delete each, most recent first, then the machine.
ListRuns(r) ==
  /\ At(r, "runs")
  /\ req' = [req EXCEPT ![r] = [@ EXCEPT !.todo = RunsOf(req[r].machine), !.pc = "machine"]]
  /\ UNCHANGED <<machines, runs, twins>>

DropNext(r) ==
  /\ At(r, "machine") /\ req[r].todo # {}
  /\ \E x \in Latest(req[r].todo) :
       DropRun(x.run_id) /\ req' = [req EXCEPT ![r].todo = @ \ {x}]
  /\ UNCHANGED machines

BugUnreferenced(m) == TRUE
Unreferenced(m) == RunsOf(m) = {}     \* no run REFERENCES the machine

delete_machine(r) ==
  /\ At(r, "machine") /\ req[r].todo = {}
  /\ IF Unreferenced(req[r].machine)
       THEN /\ machines' = {x \in machines : x.machine_id # req[r].machine}
            /\ Answer(r, 200)
       ELSE Answer(r, 500) /\ UNCHANGED machines
  /\ UNCHANGED <<runs, twins>>

Raise(r) ==
  /\ req[r].pc \notin {"new", "done"}
  /\ Answer(r, 500)
  /\ UNCHANGED <<machines, runs, twins>>

Restart ==
  /\ \E r \in Requests : req[r].pc \notin {"new", "done"}
  /\ req' = [r \in Requests |-> IF At(r, "new") THEN req[r] ELSE [req[r] EXCEPT !.pc = "done"]]
  /\ UNCHANGED <<machines, runs, twins>>

Serve(r) ==
  \/ Arrive(r) \/ create_machine(r) \/ CheckMachine(r) \/ rename_machine(r)
  \/ StartRun(r) \/ StartNewRun(r) \/ end_run(r) \/ create_run(r) \/ Deploy(r) \/ CheckRun(r)
  \/ rename_run(r) \/ delete_run(r) \/ ListRuns(r) \/ DropNext(r) \/ delete_machine(r) \/ Raise(r)

RegistryNext == Restart \/ \E r \in Requests : Serve(r)

RegistrySpec == RegistryInit /\ [][RegistryNext]_registryVars

-----------------------------------------------------------------------------
RegistryTypeOK ==
  /\ machines \subseteq Machine /\ runs \subseteq Run /\ twins \subseteq RunIds
  /\ req \in [Requests -> Request]

\* A machine whose DELETE was answered 200 is gone for good and no run is left on
\* it, whatever was being started on it meanwhile; and a DELETE that stopped
\* half-way leaves no run without its machine and no twin without its run.
DeletedForGood ==
  /\ \A r \in Requests : req[r].kind = "delete_machine" /\ req[r].status = 200 =>
       ~ MachineExists(req[r].machine) /\ RunsOf(req[r].machine) = {}
  /\ \A x \in runs : \E m \in machines : m.machine_id = x.machine_id
  /\ \A t \in twins : get_run(t) # {}

\* When a tool change is through, the run that was active when it began is ended
\* or gone.
ToolChangeArchives ==
  \A r \in Requests : req[r].kind = "tool_change" /\ req[r].status = 200 =>
    \A a \in req[r].todo : \A x \in runs : x.by = a.by => x.ended

\* Types, and both.
RegistrySafe == RegistryTypeOK /\ DeletedForGood /\ ToolChangeArchives
=============================================================================
