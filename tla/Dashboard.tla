------------------------------- MODULE Dashboard -------------------------------
(******************************************************************************)
(* The page (api/static/index.html) of a user who is signed in: the list of   *)
(* runs it shows, the run that is selected, the stream of predictions that is *)
(* drawn, and the requests under way.  A handler of the page runs to its next *)
(* await without interruption; between the two, answers of other requests,    *)
(* events of the stream and clicks come in any order.                         *)
(******************************************************************************)
EXTENDS Naturals, Sequences, FiniteSets

CONSTANTS
  Run,
  Demo,         \* the runs of the system machine: labeled, not the user's to change
  None,
  MaxCuts, MaxClicks, MaxOutside, MaxBreaks

PageAssumption ==
  /\ Demo \subseteq Run /\ None \notin Run
  /\ MaxCuts \in Nat \ {0} /\ {MaxClicks, MaxOutside, MaxBreaks} \subseteq Nat

VARIABLES
  stored,       \* the server: the number of cuts of every run there is
  net,          \* requests on their way to the server or back
  rail,         \* the page: its list of runs
  cur,          \*   the selected run
  shown,        \*   the monitor is shown, not the empty page
  options,      \*   the models to choose from; None is self-fit
  model,        \*   the one chosen
  streams,      \*   the event sources that are not closed
  es,           \*   the event source the page holds
  live,         \*   the badge
  series, total,\*   the points drawn, and how many were announced
  drift,        \* the runs that changed where the page was not told
  spent

page == <<rail, cur, shown, options, model, streams, es, live, series, total>>
vars == <<stored, net, page, drift, spent>>

Own == Run \ Demo
Listed == [kind : {"list"}, run : Run \cup {None}, id : Nat, phase : {"sent", "answered"},
           ok : BOOLEAN, runs : SUBSET Run]
Asked == [kind : {"delete", "new", "rename", "upload"}, run : Run \cup {None}, id : Nat,
          phase : {"sent", "answered"}, ok : BOOLEAN, runs : {{}}]
Source == [id : Nat, run : Run, model : Run \cup {None}, open : BOOLEAN, n : Nat, next : Nat]

Sent(kind, run, id) ==
  [kind |-> kind, run |-> run, id |-> id, phase |-> "sent", ok |-> FALSE, runs |-> {}]

Init ==
  /\ \E r \in Own : stored = [x \in Demo \cup {r} |-> 1]
  /\ net = {Sent("list", None, 0)}
  /\ rail = {} /\ cur = None /\ shown = FALSE /\ options = {} /\ model = None
  /\ streams = {} /\ es = 0 /\ live = FALSE /\ series = <<>> /\ total = 0
  /\ drift = {}
  /\ spent = [clicks |-> 0, outside |-> 0, breaks |-> 0]

Count(what) == spent' = [spent EXCEPT ![what] = @ + 1]

-------------------------------------------------------------------------------
(* What the handlers share. *)

Closed(id) == {s \in streams : s.id # id}

\* The old source is closed before a new one is opened.
BugStartStream(run, m) ==
  /\ es' = es + 1
  /\ streams' = streams \cup
       {[id |-> es + 1, run |-> run, model |-> m, open |-> FALSE, n |-> 0, next |-> 0]}
  /\ series' = <<>> /\ total' = 0 /\ live' = TRUE
StartStream(run, m) ==
  /\ es' = es + 1
  /\ streams' = Closed(es) \cup
       {[id |-> es + 1, run |-> run, model |-> m, open |-> FALSE, n |-> 0, next |-> 0]}
  /\ series' = <<>> /\ total' = 0 /\ live' = TRUE

\* A labeled run may be its own reference; that is then the first option.
modelOptions(run, runs) ==
  (IF run \in Demo THEN {None} ELSE {}) \cup ((runs \cap Demo) \ {run})

Select(run, runs) ==
  /\ cur' = run /\ shown' = TRUE
  /\ options' = modelOptions(run, runs)
  /\ \E m \in (IF run \in Demo \/ options' = {} THEN {None} ELSE options') :
       model' = m /\ StartStream(run, m)

\* The stream of a run that was selected goes on behind the empty page.
RenderEmpty ==
  /\ shown' = FALSE
  /\ UNCHANGED <<options, model, streams, es, live, series, total>>

\* selectRun, or else what was selected, or else the first: any, as the order is left out.
RenderRail(runs, selected, selectRun) ==
  LET picks == IF selectRun # None THEN runs \cap {selectRun}
               ELSE IF selected # None THEN {selected} ELSE runs
  IN  /\ rail' = runs
      /\ \/ picks = {} /\ RenderEmpty /\ cur' = selected
         \/ \E r \in picks : Select(r, runs)

-------------------------------------------------------------------------------
(* The user. *)

Click(r) ==
  /\ r \in rail /\ spent.clicks < MaxClicks /\ Count("clicks")
  /\ Select(r, rail)
  /\ UNCHANGED <<stored, net, rail, drift>>

Choose(m) ==
  /\ shown /\ m \in options /\ spent.clicks < MaxClicks /\ Count("clicks")
  /\ model' = m /\ StartStream(cur, m)
  /\ UNCHANGED <<stored, net, rail, cur, shown, options, drift>>

Ask(kind, r) ==
  /\ IF kind = "new" THEN r = None ELSE r \in rail \cap Own
  /\ spent.clicks < MaxClicks /\ Count("clicks")
  /\ net' = net \cup {Sent(kind, r, spent.clicks + 1)}
  /\ UNCHANGED <<stored, page, drift>>

-------------------------------------------------------------------------------
(* The server. *)

Exists(r) == r \in DOMAIN stored
Remove(r) == stored' = [x \in DOMAIN stored \ {r} |-> stored[x]]

\* A run changes while a list, or the answer that it is new, is still on its way.
Behind(r) ==
  IF \E q \in net : q.phase = "answered" /\ (q.kind = "list" \/ (q.kind = "new" /\ q.run = r))
  THEN {r} ELSE {}

Reply(q, run, ok, runs) ==
  net' = (net \ {q}) \cup
    {[q EXCEPT !.phase = "answered", !.run = run, !.ok = ok, !.runs = runs]}

HandleList(q) ==
  /\ q.kind = "list"
  /\ Reply(q, q.run, TRUE, DOMAIN stored)
  /\ UNCHANGED <<stored, drift>>

HandleDelete(q) ==
  /\ q.kind = "delete"
  /\ Remove(q.run)
  /\ Reply(q, q.run, Exists(q.run), {})
  /\ drift' = drift \cup IF Exists(q.run) THEN Behind(q.run) ELSE {}

\* The id of a new run is the server's choice.
fresh == Own \ (DOMAIN stored \cup rail \cup {q.run : q \in net} \cup drift)

Create(r) == stored' = [x \in DOMAIN stored \cup {r} |-> IF x = r THEN 0 ELSE stored[x]]

HandleNew(q) ==
  /\ q.kind = "new"
  /\ \E r \in fresh : Create(r) /\ Reply(q, r, TRUE, {}) /\ drift' = drift \cup Behind(r)

\* rename: a label.  upload: /analyze with one file.
HandleChange(q) ==
  /\ q.kind \in {"rename", "upload"}
  /\ stored' = [r \in DOMAIN stored |->
       IF q.kind = "upload" /\ r = q.run /\ stored[r] < MaxCuts THEN stored[r] + 1 ELSE stored[r]]
  /\ Reply(q, q.run, Exists(q.run), {})
  /\ UNCHANGED drift

\* A request is refused, or one of its statements raises, before anything was done or after:
\* a new run whose twin cannot be deployed is stored all the same, a delete has removed the
\* cuts, or the run too and is committed by another request, and an upload has stored its
\* cut.  (A list that raises is a lost answer.)
HandleError(q) ==
  /\ q.kind # "list"
  /\ Reply(q, q.run, FALSE, {})
  /\ \/ UNCHANGED <<stored, drift>>
     \/ q.kind = "new" /\ \E r \in fresh : Create(r) /\ drift' = drift \cup {r}
     \/ q.kind = "delete" /\ Exists(q.run) /\ Remove(q.run) /\ drift' = drift \cup {q.run}
     \/ /\ q.kind \in {"delete", "upload"} /\ Exists(q.run)
        /\ \E n \in (IF q.kind = "delete" THEN {0} ELSE {stored[q.run] + 1}) \cap 0..MaxCuts :
             stored' = [stored EXCEPT ![q.run] = n]
        /\ UNCHANGED drift

Handle(q) ==
  /\ q.phase = "sent"
  /\ HandleList(q) \/ HandleDelete(q) \/ HandleNew(q) \/ HandleChange(q) \/ HandleError(q)
  /\ UNCHANGED <<page, spent>>

\* Another page of the user deletes a run; a machine uploads a cut.
Elsewhere(r) ==
  /\ spent.outside < MaxOutside /\ Count("outside") /\ Exists(r) /\ r \in Own
  /\ \/ /\ Remove(r)
        /\ drift' = drift \cup {r}
     \/ /\ stored[r] < MaxCuts
        /\ stored' = [stored EXCEPT ![r] = @ + 1]
        /\ UNCHANGED drift
  /\ UNCHANGED <<net, page>>

-------------------------------------------------------------------------------
(* Answers, in any order. *)

Arrives(q) == q \in net /\ q.phase = "answered" /\ net' = net \ {q}

LoadRail(q) ==
  /\ q.kind = "list" /\ Arrives(q)
  /\ RenderRail(q.runs, cur, q.run)

deleteRun(q) ==
  /\ q.kind = "delete" /\ q.ok /\ Arrives(q)
  /\ RenderRail(rail \ {q.run}, IF cur = q.run THEN None ELSE cur, None)

BugNewTool(q) ==
  /\ q.kind = "new" /\ q.ok /\ Arrives(q)
  /\ RenderRail(rail, cur, None)
newTool(q) ==
  /\ q.kind = "new" /\ q.ok /\ Arrives(q)
  /\ RenderRail(rail \cup {q.run}, cur, q.run)

renameRun(q) ==
  /\ q.kind = "rename" /\ q.ok /\ Arrives(q)
  /\ RenderRail(rail, cur, cur)

\* The list is asked for again, and the run will be selected.
uploaded(q) ==
  /\ q.kind = "upload" /\ q.ok
  /\ q \in net /\ q.phase = "answered"
  /\ net' = (net \ {q}) \cup {Sent("list", q.run, q.id)}
  /\ UNCHANGED page

\* An error leaves the page as it is.
Failed(q) ==
  /\ Arrives(q) /\ ~q.ok
  /\ UNCHANGED page

Deliver(q) ==
  /\ LoadRail(q) \/ deleteRun(q) \/ newTool(q) \/ renameRun(q) \/ uploaded(q) \/ Failed(q)
  /\ UNCHANGED <<stored, drift, spent>>

\* A request or its answer is lost: the handler ends with an exception.
Lose(q) ==
  /\ spent.breaks < MaxBreaks /\ Count("breaks")
  /\ net' = net \ {q}
  /\ drift' = drift \cup (IF q.kind = "list" THEN Run
                          ELSE IF q.phase = "answered" THEN {q.run} \cap Run ELSE {})
  /\ UNCHANGED <<stored, page>>

-------------------------------------------------------------------------------
(* Events of a stream.  The handlers close the source that the page holds.  A *)
(* browser connects an event source that broke, and was not closed, again.    *)

Fits(s) == Exists(s.run) /\ (IF s.model = None THEN s.run \in Demo ELSE Exists(s.model))

\* The first message has the number of cuts.
Meta(s) ==
  /\ ~s.open /\ Fits(s)
  /\ streams' = (streams \ {s}) \cup {[s EXCEPT !.open = TRUE, !.n = stored[s.run]]}
  /\ total' = stored[s.run]
  /\ UNCHANGED <<es, live, series, spent>>

PushCut(s) ==
  /\ s.open /\ s.next < s.n
  /\ streams' = (streams \ {s}) \cup {[s EXCEPT !.next = @ + 1]}
  /\ series' = Append(series, [run |-> s.run, model |-> s.model, cut |-> s.next + 1])
  /\ UNCHANGED <<es, live, total, spent>>

Done(s) ==
  /\ s.open /\ s.next = s.n
  /\ streams' = Closed(es)
  /\ live' = FALSE
  /\ UNCHANGED <<es, series, total, spent>>

\* The server refuses, stops because the run is gone, or the connection breaks.
OnError(s) ==
  /\ \/ ~s.open /\ ~Fits(s) /\ UNCHANGED spent
     \/ s.open /\ ~Exists(s.run) /\ UNCHANGED spent
     \/ spent.breaks < MaxBreaks /\ Count("breaks")
  /\ streams' = {IF t = s THEN [s EXCEPT !.open = FALSE, !.next = 0, !.n = 0] ELSE t : t \in Closed(es)}
  /\ live' = FALSE
  /\ UNCHANGED <<es, series, total>>

Event(s) ==
  /\ s \in streams
  /\ Meta(s) \/ PushCut(s) \/ Done(s) \/ OnError(s)
  /\ UNCHANGED <<stored, net, rail, cur, shown, options, model, drift>>

-------------------------------------------------------------------------------
Next ==
  \/ \E r \in Run : Click(r) \/ Elsewhere(r)
  \/ \E m \in Run \cup {None} : Choose(m)
  \/ \E kind \in {"delete", "new", "rename", "upload"}, r \in Run \cup {None} : Ask(kind, r)
  \/ \E q \in net : Handle(q) \/ Deliver(q) \/ Lose(q)
  \/ \E s \in streams : Event(s)

Spec == Init /\ [][Next]_vars

-------------------------------------------------------------------------------
DashboardTypeOK ==
  /\ DOMAIN stored \subseteq Run /\ \A r \in DOMAIN stored : stored[r] \in 0..MaxCuts
  /\ net \subseteq Listed \cup Asked
  /\ rail \subseteq Run /\ cur \in Run \cup {None} /\ drift \subseteq Run
  /\ options \subseteq Demo \cup {None} /\ model \in Demo \cup {None}
  /\ streams \subseteq Source /\ es \in Nat
  /\ {shown, live} \subseteq BOOLEAN
  /\ total \in 0..MaxCuts

\* What is drawn belongs to the selected run under the chosen model, each cut once and
\* in order, whatever was selected before, whichever streams broke and however late an
\* answer moved the selection (select, startStream, onmessage, onerror).
SeriesOfSelection ==
  shown =>
    /\ Len(series) <= total
    /\ \A i \in DOMAIN series : series[i] = [run |-> cur, model |-> model, cut |-> i]

Under(r) == \E q \in net : q.kind = "list" \/ q.run = r

\* When nothing is under way that concerns a run, the page lists it if and only if it
\* is stored: the page keeps its list by hand (deleteRun, newTool) and reads it again
\* only after an upload.  Excepted are runs that changed elsewhere; whose answer was lost,
\* or was an error though what was asked for had been done (app.py:295-296 and
\* index.html:372: a run that is stored, and not listed before the page reads its list
\* again); or that changed while an older list, or the answer that created them, was on
\* its way to the page: that answer then puts back what is gone.
ListAgrees == \A r \in Run \ drift : ~Under(r) => (r \in rail <=> Exists(r))

\* The run whose monitor is shown can be found in the list, when nothing that concerns it
\* is under way: a delete takes the selection along, and an answer that comes later does
\* not bring it back (deleteRun, renderRail).  Excepted as above.
ShownIsListed == shown /\ cur \notin drift /\ ~Under(cur) => cur \in rail

\* Types, and both.
RailAgrees == DashboardTypeOK /\ ListAgrees /\ ShownIsListed
=============================================================================
