---------------------------- MODULE FleetWorkload ----------------------------
(***************************************************************************)
(* The fleet workload inventory (management/src/http/fleet.rs over the     *)
(* fleet_workloads table of store/task_store.rs).                          *)
(*                                                                         *)
(* A workload is admitted once per idempotency key.  Its row changes by    *)
(* compare-and-swap on its revision: an operator posts an observation, and *)
(* every read of the inventory projects the state of the bound task onto   *)
(* the row.  A reconciliation is refused unless the inventory still has    *)
(* the revision the operator reviewed.  Every statement of the store is a  *)
(* step; handlers interleave between their statements.                     *)
(*                                                                         *)
(* A status is its observed state and its other fields (health,            *)
(* backpressure, artifacts, exit classification, error code), which a      *)
(* projection derives from the task row it read and a client sets as it    *)
(* likes.  Of the runtime identities only task_id is kept, as the one that *)
(* is read; an observation assigns session_id and command_id by the same   *)
(* rule, and a projection fills in a missing command_id from an artifact.  *)
(* The task table belongs to the executor, and any of its rows may change  *)
(* between two statements.  Statements do not fail.                        *)
(***************************************************************************)
EXTENDS Naturals, FiniteSets

CONSTANTS
  Child,     \* workload ids, in their order
  Key,       \* idempotency keys
  Kind,      \* the kind of each workload
  Task,      \* task ids
  Reported,  \* the task ids operators report for each workload
  Stored,    \* those of them that are in the task table
  Worker,    \* handlers of one request after another, each with its client
  Reviewer,  \* those whose client reviews and reconciles the inventory
  Posted,    \* the statuses operators report
  Given,     \* the other fields of a status at admission
  Moves,     \* the rows the bound tasks go through
  None,      \* absent value
  MaxRev     \* bound on revisions

ASSUME FleetAssumption ==
  /\ MaxRev \in Nat \ {0}
  /\ Stored \subseteq Task /\ Reviewer \subseteq Worker
  /\ Child \subseteq Nat /\ IsFiniteSet(Child) /\ None \notin Child
  /\ Reported \in [Child -> SUBSET Task]
  /\ Kind \in [Child -> {"one-shot-command", "daemon", "persistent-agent", "scheduled-collector"}]

VARIABLES
  fleet,     \* the fleet_workloads table
  tasks,     \* the task table as the projection reads it
  worker,    \* the statement each handler has come to
  reviewed,  \* the inventory each client was last given
  report     \* the reconciliation each client was last given

fleetVars == <<fleet, tasks, worker, reviewed, report>>

Final == {"succeeded", "failed", "cancelled", "timed-out"}
ObservedState == Final \cup
  {"pending", "admitted", "starting", "running", "blocked", "detached", "retained", "healthy",
   "degraded", "restarting", "scheduled", "missed", "catching-up", "stopping", "unknown",
   "operator-review-required"}
TaskState == {"submitted", "working", "completed", "failed", "rejected", "canceled",
              "input-required", "auth-required"}

\* A task as a projection reads it: its state and whether it has artifacts.
TaskRow == [state : TaskState, art : BOOLEAN]

\* The other fields of a status: those derived from a task row, or None for any
\* that no projection writes.
Status == [state : ObservedState, rest : TaskRow \cup {None}]
FleetRow == [key : Key, status : Status, rev : 1..MaxRev, task : Task \cup {None}]
Table == [Child -> FleetRow \cup {None}]

\* What an operator may report and what a task row may show; None is neither
\* a task, its state, a row nor a table.
ASSUME FleetDataAssumption ==
  /\ Posted \subseteq Status /\ Given \subseteq TaskRow \cup {None}
  /\ Moves \subseteq TaskRow
  /\ None \notin Task /\ None \notin TaskState /\ None \notin FleetRow /\ None \notin Table /\ None \notin Moves

Handler == [pc : {"rest", "project", "artifacts", "swap", "reread"}, posted : BOOLEAN,
            child : Child \cup {None}, expect : 0..MaxRev, seen : FleetRow \cup {None},
            saw : TaskState \cup {None}, next : FleetRow \cup {None},
            rows : Table \cup {None}, todo : SUBSET Child]

Rest == [pc |-> "rest", posted |-> FALSE, child |-> None, expect |-> 0, seen |-> None,
         saw |-> None, next |-> None, rows |-> None, todo |-> {}]

FleetTypeOK ==
  /\ fleet \in Table
  /\ tasks \in [Stored -> Moves \cup {None}]
  /\ reviewed \in [Reviewer -> Table \cup {None}]
  /\ worker \in [Worker -> Handler]
  /\ DOMAIN report = Reviewer
  /\ \A c, d \in Child :
       fleet[c] # None /\ fleet[d] # None /\ fleet[c].key = fleet[d].key => c = d

FleetInit ==
  /\ fleet = [c \in Child |-> None]
  /\ tasks = [t \in Stored |-> None]
  /\ worker = [w \in Worker |-> Rest]
  /\ reviewed = [w \in Reviewer |-> None]
  /\ report = [w \in Reviewer |-> None]

-----------------------------------------------------------------------------
(* The store.                                                              *)

\* A prior row with the key or the child id: the request is a replay or a
\* collision, and neither changes the table.
Prior(c, k) ==
  fleet[c] # None \/ \E d \in Child : fleet[d] # None /\ fleet[d].key = k

\* dispatch and fleet_dispatch: the record may name a task and artifacts already.
Admit(c, k, t, given) ==
  /\ ~Prior(c, k)
  /\ fleet' = [fleet EXCEPT ![c] =
       [key |-> k, status |-> [state |-> "admitted", rest |-> given], rev |-> 1, task |-> t]]
  /\ UNCHANGED <<tasks, worker, reviewed, report>>

\* Mutant: a newer row is enough.
SwapsNewer(c, expect, next) == fleet[c] # None /\ next.rev >= fleet[c].rev

\* observe_fleet_workload: the stored revision is the expected one.
Swaps(c, expect, next) ==
  fleet[c] # None /\ fleet[c].rev = expect /\ next.rev > expect

-----------------------------------------------------------------------------
(* The projection of a task onto a workload.                               *)

\* The state a task's state shows as.
Shown(kind, s) ==
  CASE s = "submitted" -> "starting"
    [] s = "working" -> (CASE kind = "daemon" -> "healthy"
                           [] kind = "scheduled-collector" -> "catching-up"
                           [] OTHER -> "running")
    [] s = "completed" -> (CASE kind = "persistent-agent" -> "retained"
                             [] kind = "daemon" -> "operator-review-required"
                             [] kind = "scheduled-collector" -> "scheduled"
                             [] OTHER -> "succeeded")
    [] s \in {"failed", "rejected"} -> "failed"
    [] s = "canceled" -> "cancelled"
    [] s \in {"input-required", "auth-required"} -> "blocked"

\* project_task_observation: a final row is left alone, and so is one whose
\* status is the projection of the task already; otherwise the row to store.
Projected(c, r, t) ==
  LET status == [state |-> Shown(Kind[c], t.state), rest |-> t]
  IN IF r.status.state \in Final \/ r.status = status THEN None
     ELSE [r EXCEPT !.status = status, !.rev = @ + 1]

-----------------------------------------------------------------------------
(* Handlers.                                                               *)

\* get_workload reads the row.
Get(w, c) ==
  /\ worker[w].pc = "rest" /\ fleet[c] # None
  /\ worker' = [worker EXCEPT ![w] =
       [@ EXCEPT !.pc = "project", !.child = c, !.seen = fleet[c]]]
  /\ UNCHANGED <<fleet, tasks, reviewed, report>>

\* inventory lists the rows, and refreshes them one after the other.
List(w) ==
  /\ worker[w].pc = "rest"
  /\ worker' = [worker EXCEPT ![w] =
       [@ EXCEPT !.pc = "project", !.rows = fleet,
                 !.todo = {c \in Child : fleet[c] # None}]]
  /\ UNCHANGED <<fleet, tasks, reviewed, report>>

\* The next row of an inventory to refresh; the rows are ordered by child id.
Pick(w) ==
  /\ worker[w].pc = "project" /\ worker[w].child = None /\ worker[w].todo # {}
  /\ \E c \in worker[w].todo :
       /\ \A d \in worker[w].todo : c <= d
       /\ worker' = [worker EXCEPT ![w] =
            [worker[w] EXCEPT !.child = c, !.seen = worker[w].rows[c],
                              !.todo = worker[w].todo \ {c}]]
  /\ UNCHANGED <<fleet, tasks, reviewed, report>>

\* What the handler does with the refreshed row r: it is the answer, or goes
\* into the inventory.
Answered(w, r) ==
  IF worker[w].rows = None THEN Rest
  ELSE [worker[w] EXCEPT !.pc = "project", !.child = None, !.seen = None, !.saw = None,
                         !.next = None, !.rows[worker[w].child] = r]

\* refresh_from_task_store: a row that names no stored task is shown as it is.
Bound(r) == r.task \in Stored /\ tasks[r.task] # None

\* The task of the row is read.
LoadTask(w) ==
  /\ worker[w].pc = "project" /\ worker[w].child # None
  /\ worker' = [worker EXCEPT ![w] =
       IF ~Bound(worker[w].seen) THEN Answered(w, worker[w].seen)
       ELSE [@ EXCEPT !.pc = "artifacts", !.saw = tasks[worker[w].seen.task].state]]
  /\ UNCHANGED <<fleet, tasks, reviewed, report>>

\* list_artifacts
HasArtifacts(t) == tasks[t] # None /\ tasks[t].art

\* Its artifacts are read, and the row to store computed.  At the bound on
\* revisions the row is shown as it is.
Project(w) ==
  LET seen == worker[w].seen
      next == Projected(worker[w].child, seen,
                        [state |-> worker[w].saw, art |-> HasArtifacts(seen.task)])
  IN /\ worker[w].pc = "artifacts"
     /\ worker' = [worker EXCEPT ![w] =
          IF next = None \/ seen.rev = MaxRev THEN Answered(w, seen)
          ELSE [@ EXCEPT !.pc = "swap", !.next = next, !.expect = seen.rev]]
     /\ UNCHANGED <<fleet, tasks, reviewed, report>>

\* apply_runtime_identity: an assigned identity cannot be changed.
Bindable(r, t) == t = None \/ r.task \in {None, t}

\* observe reads the row the observation is applied to; the revision it
\* expects is what the client wrote in the request.
Post(w, c, expect, status, t) ==
  /\ worker[w].pc = "rest" /\ fleet[c] # None
  /\ expect < MaxRev
  /\ Bindable(fleet[c], t)
  /\ worker' = [worker EXCEPT ![w] =
       [@ EXCEPT !.pc = "swap", !.posted = TRUE, !.child = c, !.expect = expect, !.seen = fleet[c],
                 !.next = [fleet[c] EXCEPT !.status = status, !.rev = expect + 1,
                                           !.task = IF t = None THEN fleet[c].task ELSE t]]]
  /\ UNCHANGED <<fleet, tasks, reviewed, report>>

\* The compare-and-swap; refused, an observation is answered with a conflict,
\* and a projection reads the row anew.
Swap(w) ==
  LET c == worker[w].child
      swaps == Swaps(c, worker[w].expect, worker[w].next)
  IN /\ worker[w].pc = "swap"
     /\ fleet' = IF swaps THEN [fleet EXCEPT ![c] = worker[w].next] ELSE fleet
     /\ worker' = [worker EXCEPT ![w] =
          IF swaps \/ worker[w].posted THEN Answered(w, worker[w].next)
          ELSE [@ EXCEPT !.pc = "reread"]]
     /\ UNCHANGED <<tasks, reviewed, report>>

\* The row that was stored meanwhile is the answer.
Reread(w) ==
  /\ worker[w].pc = "reread"
  /\ worker' = [worker EXCEPT ![w] = Answered(w, fleet[worker[w].child])]
  /\ UNCHANGED <<fleet, tasks, reviewed, report>>

\* The inventory is complete and goes to the client.
Answer(w) ==
  /\ worker[w].pc = "project" /\ worker[w].rows # None
  /\ worker[w].child = None /\ worker[w].todo = {}
  /\ reviewed' = [reviewed EXCEPT ![w] = worker[w].rows]
  /\ worker' = [worker EXCEPT ![w] = Rest]
  /\ report' = [report EXCEPT ![w] = None]
  /\ UNCHANGED <<fleet, tasks>>

-----------------------------------------------------------------------------
(* Reconciliation.                                                         *)

Rows(table) == {c \in Child : table[c] # None}

\* The revisions the rows of a table have gone through, from 0 on.
Gone(table) == UNION {{c} \X (0..table[c].rev) : c \in Rows(table)}

\* inventory_revision: the number of rows plus the sum of their revisions, as
\* a count, one more than its revision for each row.
InventoryRevision(table) == Cardinality(Gone(table))

Classification(table) ==
  [c \in Child |->
     IF table[c] = None THEN "unknown"
     ELSE CASE table[c].status.state = "succeeded" -> "terminal"
            [] table[c].status.state \in Final \ {"succeeded"} -> "failed-or-aborted"
            [] table[c].status.state \in {"unknown", "operator-review-required"} ->
                 "operator-review-required"
            [] OTHER -> "re-adopted"]

\* Mutant: the reviewed revision is not compared.
ReconcileUnchecked(w) ==
  /\ worker[w].pc = "rest" /\ reviewed[w] # None
  /\ report' = [report EXCEPT ![w] = Classification(fleet)]
  /\ UNCHANGED <<fleet, tasks, worker, reviewed>>

\* reconcile: refused if the inventory has moved on since the review.
Reconcile(w) ==
  /\ worker[w].pc = "rest" /\ reviewed[w] # None
  /\ InventoryRevision(fleet) = InventoryRevision(reviewed[w])
  /\ report' = [report EXCEPT ![w] = Classification(fleet)]
  /\ UNCHANGED <<fleet, tasks, worker, reviewed>>

-----------------------------------------------------------------------------

\* The executor writes a task row or an artifact.
TaskMoves(t) ==
  /\ \E m \in Moves : tasks' = [tasks EXCEPT ![t] = m]
  /\ UNCHANGED <<fleet, worker, reviewed, report>>

FleetNext ==
  \/ \E c \in Child, k \in Key :
       \E t \in Reported[c] \cup {None}, given \in Given : Admit(c, k, t, given)
  \/ \E w \in Worker :
       \/ Pick(w) \/ LoadTask(w) \/ Project(w) \/ Swap(w) \/ Reread(w) \/ Answer(w)
       \/ w \in Reviewer /\ (List(w) \/ Reconcile(w))
       \/ \E c \in Child : \/ Get(w, c)
                           \/ \E e \in 1..MaxRev, s \in Posted, t \in Reported[c] \cup {None} :
                                Post(w, c, e, s, t)
  \/ \E t \in Stored : TaskMoves(t)

FleetSpec == FleetInit /\ [][FleetNext]_fleetVars

-----------------------------------------------------------------------------
(* Properties.                                                             *)

\* A reconciliation classifies exactly the inventory its client has reviewed,
\* although that inventory was put together row by row while others changed.
ReportIsReviewed ==
  \A w \in Reviewer : report[w] # None => report[w] = Classification(reviewed[w])

\* Row r is the stored row s or one that it has replaced: a revision is stored
\* only once.
Behind(r, s) ==
  /\ s # None /\ r.key = s.key /\ r.rev <= s.rev
  /\ r.rev = s.rev => r = s

TableBehind(a, b) == \A c \in Child : a[c] # None => Behind(a[c], b[c])

\* What handler w in state h holds on to between its statements: rows the table
\* has or had, and a row to store that follows from the row it has seen.  Only
\* a posted one may expect another revision than that of the row it was made
\* from, or be made from a row in a final state.
HandlerSound(w, h, table) ==
  /\ h.pc = "rest" => h = Rest
  /\ h.pc \in {"artifacts", "swap", "reread"} \/ (h.pc = "project" /\ h.rows = None) => h.child # None
  /\ h.child # None => h.seen # None /\ Behind(h.seen, table[h.child])
  /\ h.rows # None => /\ w \in Reviewer /\ ~h.posted /\ TableBehind(h.rows, table)
                      /\ \A c \in h.todo : h.rows[c] # None
  /\ h.pc # "swap" => ~h.posted
  /\ h.pc = "artifacts" => h.seen.task \in Stored /\ h.saw # None
  /\ h.pc = "swap" =>
       /\ h.next # None /\ h.next.key = h.seen.key
       /\ ~h.posted => h.expect = h.seen.rev /\ h.seen.status.state \notin Final

\* A report is about the inventory that was reviewed, with the types of the
\* fleet's state and what clients and handlers hold on to.
FleetInv ==
  /\ FleetTypeOK
  /\ ReportIsReviewed
  /\ \A w \in Worker : HandlerSound(w, worker[w], fleet)
  /\ \A w \in Reviewer : reviewed[w] # None => TableBehind(reviewed[w], fleet)

\* Handler w stores its row of child c in this step.
Stores(w, c) ==
  worker[w].pc = "swap" /\ worker[w].child = c /\ worker'[w] # worker[w]

\* A row in a final state is changed by an operator's observation only, never
\* by the projection of a task onto a row that was read before it ended.
FinalUnlessPosted ==
  [][\A c \in Child :
       fleet[c] # None /\ fleet[c].status.state \in Final /\ fleet'[c] # fleet[c]
         => \E w \in Worker : Stores(w, c) /\ worker[w].posted]_fleetVars

=============================================================================
