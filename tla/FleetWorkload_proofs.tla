------------------------ MODULE FleetWorkload_proofs ------------------------
(***************************************************************************)
(* Proofs about the fleet workload inventory, for any workloads, handlers, *)
(* observations and task rows, and any bound on the revisions.             *)
(*                                                                         *)
(* A stored row is only ever replaced by one with a higher revision, so    *)
(* whatever a handler or a client holds on to lies behind the table        *)
(* (Behind, TableBehind): with the revision that is stored it is the row   *)
(* that is stored.                                                         *)
(***************************************************************************)
EXTENDS FleetWorkload, FiniteSetTheorems, TLAPS

\* The fields of a row and of a handler.
LEMMA RowFields ==
  ASSUME NEW r \in FleetRow
  PROVE  /\ r.key \in Key /\ r.status \in Status /\ r.rev \in 1..MaxRev /\ r.rev \in Nat
         /\ r.task \in Task \cup {None} /\ r # None
         /\ r.status.state \in ObservedState
BY FleetAssumption, FleetDataAssumption DEF FleetRow, Status

\* The state of a handler at rest.
LEMMA RestIsHandler == Rest \in Handler
BY FleetAssumption DEF Rest, Handler

\* The fields of a handler.
LEMMA HandlerFields ==
  ASSUME NEW h \in Handler
  PROVE  /\ h.pc \in {"rest", "project", "artifacts", "swap", "reread"} /\ h.posted \in BOOLEAN
         /\ h.child \in Child \cup {None} /\ h.expect \in 0..MaxRev
         /\ h.seen \in FleetRow \cup {None} /\ h.next \in FleetRow \cup {None}
         /\ h.rows \in Table \cup {None} /\ h.todo \in SUBSET Child
         /\ h.saw \in TaskState \cup {None}
BY DEF Handler

\* What lies behind a row lies behind its successors.
LEMMA BehindTransitive ==
  ASSUME NEW r \in FleetRow, NEW s \in FleetRow, NEW u \in FleetRow \cup {None},
         Behind(r, s), Behind(s, u)
  PROVE  Behind(r, u)
BY RowFields DEF Behind

\* Every row lies behind itself.
LEMMA BehindItself ==
  ASSUME NEW r \in FleetRow
  PROVE  Behind(r, r)
BY RowFields DEF Behind

\* The same of whole tables.
LEMMA TableBehindTransitive ==
  ASSUME NEW a \in Table, NEW b \in Table, NEW d \in Table, TableBehind(a, b), TableBehind(b, d)
  PROVE  TableBehind(a, d)
<1> SUFFICES ASSUME NEW c \in Child, a[c] # None
             PROVE  Behind(a[c], d[c])
  BY DEF TableBehind
<1>1. a[c] \in FleetRow /\ Behind(a[c], b[c])
  BY DEF Table, TableBehind
<1>2. b[c] # None
  BY <1>1 DEF Behind
<1>3. b[c] \in FleetRow /\ Behind(b[c], d[c]) /\ d[c] \in FleetRow \cup {None}
  BY <1>2 DEF Table, TableBehind
<1> QED BY <1>1, <1>3, BehindTransitive

\* Every table lies behind itself.
LEMMA TableBehindItself ==
  ASSUME NEW a \in Table
  PROVE  TableBehind(a, a)
BY BehindItself DEF TableBehind, Table

\* What inventory_revision counts: a row that is missing or has fallen behind
\* is counted less, so of two tables one of which lies behind the other equal
\* revisions mean equal tables.
LEMMA RevisionTells ==
  ASSUME NEW a \in Table, NEW b \in Table, TableBehind(a, b),
         InventoryRevision(a) = InventoryRevision(b)
  PROVE  a = b
<1>1. ASSUME NEW x \in Table
      PROVE  /\ Gone(x) \subseteq Child \X (0..MaxRev)
             /\ \A c \in Child, n \in Nat : <<c, n>> \in Gone(x) <=> x[c] # None /\ n <= x[c].rev
  <2>1. \A c \in Rows(x) : c \in Child /\ x[c] \in FleetRow /\ x[c].rev \in 1..MaxRev
    BY RowFields DEF Rows, Table
  <2>2. \A c \in Rows(x) : 0..x[c].rev \subseteq 0..MaxRev
    BY <2>1, FleetAssumption
  <2>3. Gone(x) \subseteq Child \X (0..MaxRev)
    BY <2>1, <2>2 DEF Gone
  <2>4. ASSUME NEW c \in Child, NEW n \in Nat
        PROVE  <<c, n>> \in Gone(x) <=> x[c] # None /\ n <= x[c].rev
    <3>1. <<c, n>> \in Gone(x) <=> c \in Rows(x) /\ n \in 0..x[c].rev
      BY DEF Gone
    <3> QED BY <2>1, <3>1 DEF Rows
  <2> QED BY <2>3, <2>4
<1>2. IsFiniteSet(Child \X (0..MaxRev))
  <2>1. 0 \in Int /\ MaxRev \in Int
    BY FleetAssumption
  <2>2. IsFiniteSet(0..MaxRev)
    BY <2>1, FS_Interval
  <2>3. IsFiniteSet(Child)
    BY FleetAssumption
  <2> QED BY <2>2, <2>3, FS_Product
<1>3. IsFiniteSet(Gone(b))
  BY <1>1, <1>2, FS_Subset
<1>4. Gone(a) \subseteq Gone(b)
  <2> SUFFICES ASSUME NEW c \in Child, NEW n \in 0..MaxRev, <<c, n>> \in Gone(a)
               PROVE  <<c, n>> \in Gone(b)
    BY <1>1
  <2>1. a[c] # None /\ n <= a[c].rev
    BY <1>1
  <2>2. b[c] # None /\ a[c].rev <= b[c].rev
    BY <2>1 DEF TableBehind, Behind
  <2>3. a[c].rev \in Nat /\ b[c].rev \in Nat
    BY <2>1, <2>2, RowFields DEF Table
  <2> QED BY <1>1, <2>1, <2>2, <2>3
<1>5. Gone(a) = Gone(b)
  BY <1>3, <1>4, FS_Subset DEF InventoryRevision
<1>6. ASSUME NEW c \in Child
      PROVE  a[c] = b[c]
  <2>1. CASE a[c] = None
    <3>1. <<c, 0>> \notin Gone(b)
      BY <1>1, <1>5, <2>1
    <3>2. b[c] # None => b[c].rev \in Nat
      BY RowFields DEF Table
    <3> QED BY <1>1, <2>1, <3>1, <3>2
  <2>2. CASE a[c] # None
    <3>1. Behind(a[c], b[c]) /\ b[c] # None
      BY <2>2 DEF TableBehind, Behind
    <3>2. a[c].rev \in Nat /\ b[c].rev \in Nat
      BY <2>2, <3>1, RowFields DEF Table
    <3>3. <<c, b[c].rev>> \in Gone(a)
      BY <1>1, <1>5, <3>1, <3>2
    <3>4. b[c].rev <= a[c].rev
      BY <1>1, <3>2, <3>3
    <3> QED BY <3>1, <3>2, <3>4 DEF Behind
  <2> QED BY <2>1, <2>2
<1> QED BY <1>6 DEF Table

\* What a handler holds on to stays sound while the table moves on.
LEMMA HandlerOutlives ==
  ASSUME NEW w \in Worker, NEW h \in Handler, NEW a \in Table, NEW b \in Table,
         HandlerSound(w, h, a), TableBehind(a, b)
  PROVE  HandlerSound(w, h, b)
<1>1. h.child \in Child \cup {None} /\ h.seen \in FleetRow \cup {None} /\ h.rows \in Table \cup {None}
  BY DEF Handler
<1>2. h.child # None => Behind(h.seen, b[h.child])
  <2> SUFFICES ASSUME h.child # None
               PROVE  Behind(h.seen, b[h.child])
    OBVIOUS
  <2>1. h.child \in Child /\ h.seen \in FleetRow /\ Behind(h.seen, a[h.child])
    BY <1>1 DEF HandlerSound
  <2>2. a[h.child] \in FleetRow /\ Behind(a[h.child], b[h.child]) /\ b[h.child] \in FleetRow \cup {None}
    BY <2>1 DEF Behind, TableBehind, Table
  <2> QED BY <2>1, <2>2, BehindTransitive
<1>3. h.rows # None => TableBehind(h.rows, b)
  BY <1>1, TableBehindTransitive DEF HandlerSound
<1> QED BY <1>2, <1>3 DEF HandlerSound

\* The types of the fleet, without the reports.
TypeParts ==
  /\ fleet \in Table /\ tasks \in [Stored -> Moves \cup {None}]
  /\ reviewed \in [Reviewer -> Table \cup {None}]
  /\ worker \in [Worker -> Handler]
  /\ DOMAIN report = Reviewer

\* No two children share a key.
KeysUnique ==
  \A c, d \in Child : fleet[c] # None /\ fleet[d] # None /\ fleet[c].key = fleet[d].key => c = d

\* A step of one handler, which leaves it with new: enough to show of new alone.
LEMMA HandlerStep ==
  ASSUME FleetInv, NEW w \in Worker, NEW new \in Handler, worker' = [worker EXCEPT ![w] = new],
         fleet' \in Table, TableBehind(fleet, fleet'), KeysUnique', UNCHANGED <<tasks, reviewed, report>>,
         HandlerSound(w, new, fleet')
  PROVE  FleetInv'
<1>1. TypeParts
  BY DEF FleetInv, FleetTypeOK, TypeParts
<1>2. FleetTypeOK'
  BY <1>1 DEF TypeParts, FleetTypeOK, KeysUnique
<1>3. ASSUME NEW v \in Worker
      PROVE  HandlerSound(v, worker'[v], fleet')
  <2>1. worker[v] \in Handler /\ HandlerSound(v, worker[v], fleet) /\ fleet \in Table
    BY <1>1 DEF FleetInv, TypeParts
  <2>2. v # w => HandlerSound(v, worker[v], fleet')
    BY <2>1, HandlerOutlives
  <2>3. worker'[v] = IF v = w THEN new ELSE worker[v]
    BY <1>1 DEF TypeParts
  <2> QED BY <2>2, <2>3
<1>4. ASSUME NEW v \in Reviewer, reviewed'[v] # None
      PROVE  TableBehind(reviewed'[v], fleet')
  <2>1. reviewed[v] \in Table /\ TableBehind(reviewed[v], fleet) /\ fleet \in Table
    BY <1>1, <1>4 DEF FleetInv, TypeParts
  <2> QED BY <2>1, TableBehindTransitive
<1>5. ReportIsReviewed'
  <2>1. ASSUME NEW v \in Reviewer
        PROVE  report'[v] = report[v] /\ Classification(reviewed'[v]) = Classification(reviewed[v])
    OBVIOUS
  <2> QED BY <2>1 DEF FleetInv, ReportIsReviewed
<1> QED BY <1>2, <1>3, <1>4, <1>5 DEF FleetInv

\* get_workload and inventory read rows of the table.
LEMMA ReadStep ==
  ASSUME FleetInv, NEW w \in Worker,
         \/ \E c \in Child : Get(w, c)
         \/ w \in Reviewer /\ List(w)
  PROVE  FleetInv'
<1>1. TypeParts /\ KeysUnique
  BY DEF FleetInv, FleetTypeOK, TypeParts, KeysUnique
<1>2. /\ UNCHANGED <<fleet, tasks, reviewed, report>> /\ worker[w].pc = "rest" /\ worker[w] \in Handler
      /\ worker[w] = Rest /\ fleet' \in Table /\ TableBehind(fleet, fleet') /\ KeysUnique'
  <2>1. UNCHANGED <<fleet, tasks, reviewed, report>> /\ worker[w].pc = "rest"
    BY DEF Get, List
  <2>2. worker[w] \in Handler /\ fleet' \in Table
    BY <1>1, <2>1 DEF TypeParts
  <2>3. worker[w] = Rest
    BY <2>1 DEF FleetInv, HandlerSound
  <2>4. KeysUnique' /\ TableBehind(fleet, fleet')
    BY <1>1, <2>1, TableBehindItself DEF KeysUnique, TypeParts
  <2> QED BY <2>1, <2>2, <2>3, <2>4
<1>3. ASSUME NEW c \in Child, Get(w, c)
      PROVE  FleetInv'
  <2> DEFINE new == [Rest EXCEPT !.pc = "project", !.child = c, !.seen = fleet[c]]
  <2>1. fleet[c] # None /\ fleet[c] \in FleetRow /\ c # None
    BY <1>1, <1>3, FleetAssumption DEF Get, TypeParts, Table
  <2>2. worker' = [worker EXCEPT ![w] = new]
    BY <1>1, <1>2, <1>3 DEF Get, TypeParts
  <2>3. /\ new.pc = "project" /\ new.child = c /\ new.seen = fleet[c] /\ new.rows = None
        /\ new.posted = FALSE
    BY DEF Rest
  <2>4. new \in Handler
    BY <2>1, RestIsHandler DEF Handler
  <2>5. Behind(fleet[c], fleet[c])
    BY <2>1, BehindItself
  <2> HIDE DEF new
  <2>6. HandlerSound(w, new, fleet')
    BY <1>2, <2>1, <2>3, <2>5 DEF HandlerSound
  <2> QED BY <1>2, <2>2, <2>4, <2>6, HandlerStep
<1>4. CASE w \in Reviewer /\ List(w)
  <2> DEFINE todo == {c \in Child : fleet[c] # None}
             new == [Rest EXCEPT !.pc = "project", !.rows = fleet, !.todo = todo]
  <2>1. worker' = [worker EXCEPT ![w] = new]
    BY <1>1, <1>2, <1>4 DEF List, TypeParts
  <2>2. /\ new.pc = "project" /\ new.child = None /\ new.rows = fleet /\ new.todo = todo
        /\ new.posted = FALSE
    BY DEF Rest
  <2>3. todo \in SUBSET Child /\ \A c \in todo : fleet[c] # None
    OBVIOUS
  <2> HIDE DEF todo
  <2>4. new \in Handler
    BY <1>1, <2>3, RestIsHandler DEF Handler, TypeParts
  <2>5. fleet # None
    BY <1>1, FleetDataAssumption DEF TypeParts
  <2> HIDE DEF new
  <2>6. HandlerSound(w, new, fleet')
    BY <1>2, <1>4, <2>2, <2>3, <2>5 DEF HandlerSound
  <2> QED BY <1>2, <2>1, <2>4, <2>6, HandlerStep
<1> QED BY <1>3, <1>4

\* A handler at rest holds on to nothing.
LEMMA RestIsSound ==
  ASSUME NEW w, NEW table
  PROVE  HandlerSound(w, Rest, table)
BY DEF Rest, HandlerSound

\* What the handler makes of a refreshed row: its answer, or a row of its
\* inventory.
LEMMA AnsweredIsSound ==
  ASSUME NEW w \in Worker, NEW table \in Table, worker[w] \in Handler,
         HandlerSound(w, worker[w], table), worker[w].child # None,
         NEW r \in FleetRow, Behind(r, table[worker[w].child])
  PROVE  Answered(w, r) \in Handler /\ HandlerSound(w, Answered(w, r), table)
<1> DEFINE h == worker[w]
           new == [h EXCEPT !.pc = "project", !.child = None, !.seen = None, !.saw = None,
                            !.next = None, !.rows[h.child] = r]
           rows == [h.rows EXCEPT ![h.child] = r]
<1>1. CASE h.rows = None
  BY <1>1, RestIsHandler, RestIsSound DEF Answered
<1>2. CASE h.rows # None
  <2>1. Answered(w, r) = new
    BY <1>2 DEF Answered
  <2>2. /\ h \in Handler /\ h.child \in Child /\ h.rows \in Table /\ r # None
        /\ TableBehind(h.rows, table) /\ ~h.posted /\ w \in Reviewer
        /\ h.todo \in SUBSET Child /\ \A c \in h.todo : h.rows[c] # None
    BY <1>2, HandlerFields, RowFields DEF HandlerSound
  <2>3. rows \in Table /\ rows # None
    BY <2>2, FleetDataAssumption DEF Table
  <2>4. \A c \in Child : rows[c] = IF c = h.child THEN r ELSE h.rows[c]
    BY <2>2 DEF Table
  <2>5. TableBehind(rows, table) /\ \A c \in h.todo : rows[c] # None
    BY <2>2, <2>4 DEF TableBehind
  <2>6. new = [h EXCEPT !.pc = "project", !.child = None, !.seen = None, !.saw = None,
                        !.next = None, !.rows = rows]
    BY <2>2 DEF Handler
  <2> HIDE DEF rows
  <2>7. /\ new \in Handler /\ new.pc = "project" /\ new.child = None /\ new.rows = rows
        /\ new.posted = h.posted /\ new.todo = h.todo
    <3> HIDE DEF new
    <3>1. h \in Handler
      BY <2>2
    <3> HIDE DEF h
    <3> QED BY <2>3, <2>6, <3>1 DEF Handler
  <2> HIDE DEF new
  <2>8. HandlerSound(w, new, table)
    BY <2>2, <2>3, <2>5, <2>7 DEF HandlerSound
  <2> QED BY <2>1, <2>7, <2>8
<1> QED BY <1>1, <1>2

\* The next row of an inventory to refresh is one that was listed.
LEMMA PickStep ==
  ASSUME FleetInv, NEW w \in Worker, Pick(w)
  PROVE  FleetInv'
<1> DEFINE h == worker[w]
<1>1. TypeParts /\ KeysUnique
  BY DEF FleetInv, FleetTypeOK, TypeParts, KeysUnique
<1>2. /\ UNCHANGED <<fleet, tasks, reviewed, report>> /\ fleet \in Table
      /\ h \in Handler /\ HandlerSound(w, h, fleet) /\ h.pc = "project" /\ h.child = None
  BY <1>1 DEF Pick, TypeParts, FleetInv
<1>3. KeysUnique' /\ TableBehind(fleet, fleet') /\ fleet' \in Table
  BY <1>1, <1>2, TableBehindItself DEF KeysUnique
<1>4. PICK c \in h.todo : worker' = [worker EXCEPT ![w] =
               [h EXCEPT !.child = c, !.seen = h.rows[c], !.todo = h.todo \ {c}]]
  BY DEF Pick
<1> DEFINE new == [h EXCEPT !.child = c, !.seen = h.rows[c], !.todo = h.todo \ {c}]
<1>5. /\ h.rows # None /\ h.rows \in Table /\ c \in Child /\ h.todo \in SUBSET Child
      /\ w \in Reviewer /\ ~h.posted /\ TableBehind(h.rows, fleet)
      /\ \A d \in h.todo : h.rows[d] # None
  BY <1>2, HandlerFields DEF HandlerSound
<1>6. h.rows[c] \in FleetRow /\ h.rows[c] # None /\ Behind(h.rows[c], fleet[c]) /\ c # None
  BY <1>5, FleetAssumption DEF Table, TableBehind
<1>7. /\ new \in Handler /\ new.pc = "project" /\ new.child = c /\ new.rows = h.rows
      /\ new.seen = h.rows[c] /\ new.posted = h.posted /\ new.todo = h.todo \ {c}
  <2> DEFINE row == h.rows[c]
             left == h.todo \ {c}
  <2>1. row \in FleetRow /\ left \in SUBSET Child /\ h \in Handler /\ h.pc = "project" /\ c \in Child
    BY <1>2, <1>5, <1>6
  <2>2. new = [h EXCEPT !.child = c, !.seen = row, !.todo = left]
    OBVIOUS
  <2> HIDE DEF new, h, row, left
  <2>3. /\ new \in Handler /\ new.pc = "project" /\ new.child = c /\ new.rows = h.rows
        /\ new.seen = row /\ new.posted = h.posted /\ new.todo = left
    BY <2>1, <2>2 DEF Handler
  <2> QED BY <2>3 DEF row, left
<1> HIDE DEF new
<1>8. HandlerSound(w, new, fleet')
  BY <1>2, <1>5, <1>6, <1>7 DEF HandlerSound
<1> QED BY <1>2, <1>3, <1>4, <1>7, <1>8, HandlerStep DEF new

\* project_task_observation: the row to store is the row that was read with
\* another status and the next revision, and a final row is left alone.
LEMMA ProjectedRow ==
  ASSUME NEW c \in Child, NEW r \in FleetRow, NEW t \in TaskRow,
         Projected(c, r, t) # None, r.rev # MaxRev
  PROVE  /\ Projected(c, r, t) \in FleetRow
         /\ Projected(c, r, t).key = r.key /\ r.status.state \notin Final
<1> DEFINE status == [state |-> Shown(Kind[c], t.state), rest |-> t]
           next == [r EXCEPT !.status = status, !.rev = r.rev + 1]
<1>1. t.state \in TaskState
  BY DEF TaskRow
<1>2. Kind[c] \in {"one-shot-command", "daemon", "persistent-agent", "scheduled-collector"}
  BY FleetAssumption
<1>3. Shown(Kind[c], t.state) \in ObservedState
  BY <1>1, <1>2 DEF Shown, ObservedState, Final, TaskState
<1>4. status \in Status
  BY <1>3 DEF Status
<1>5. r.status.state \notin Final /\ Projected(c, r, t) = next
  BY DEF Projected
<1>6. r.rev \in 1..MaxRev /\ r.rev + 1 \in 1..MaxRev
  BY RowFields, FleetAssumption
<1> HIDE DEF status
<1>7. next \in FleetRow /\ next.key = r.key
  BY <1>4, <1>6 DEF FleetRow
<1> QED BY <1>5, <1>7

\* refresh_from_task_store reads the task.
LEMMA LoadTaskStep ==
  ASSUME FleetInv, NEW w \in Worker, LoadTask(w)
  PROVE  FleetInv'
<1> DEFINE h == worker[w]
<1>1. TypeParts /\ KeysUnique
  BY DEF FleetInv, FleetTypeOK, TypeParts, KeysUnique
<1>2. /\ UNCHANGED <<fleet, tasks, reviewed, report>> /\ fleet \in Table
      /\ h \in Handler /\ HandlerSound(w, h, fleet) /\ h.pc = "project" /\ h.child # None
  BY <1>1 DEF LoadTask, TypeParts, FleetInv
<1>3. KeysUnique' /\ TableBehind(fleet, fleet') /\ fleet' \in Table
  BY <1>1, <1>2, TableBehindItself DEF KeysUnique
<1>4. h.child \in Child /\ h.seen \in FleetRow /\ Behind(h.seen, fleet[h.child]) /\ ~h.posted
  BY <1>2, HandlerFields DEF HandlerSound
<1>5. CASE ~Bound(h.seen)
  <2>1. worker' = [worker EXCEPT ![w] = Answered(w, h.seen)]
    BY <1>5 DEF LoadTask
  <2>2. Answered(w, h.seen) \in Handler /\ HandlerSound(w, Answered(w, h.seen), fleet)
    BY <1>2, <1>4, AnsweredIsSound
  <2> QED BY <1>2, <1>3, <2>1, <2>2, HandlerStep
<1>6. CASE Bound(h.seen)
  <2> DEFINE s == tasks[h.seen.task].state
             new == [h EXCEPT !.pc = "artifacts", !.saw = s]
  <2>1. worker' = [worker EXCEPT ![w] = new]
    BY <1>6 DEF LoadTask
  <2>2. h.seen.task \in Stored /\ tasks[h.seen.task] \in Moves
    BY <1>1, <1>6 DEF Bound, TypeParts
  <2>3. s \in TaskState /\ s # None
    <3>1. \A m \in Moves : m.state \in TaskState
      BY FleetDataAssumption DEF TaskRow
    <3>2. None \notin TaskState
      BY FleetDataAssumption
    <3> QED BY <2>2, <3>1, <3>2
  <2>4. h \in Handler
    BY <1>2
  <2> HIDE DEF s, h
  <2>5. /\ new \in Handler /\ new.pc = "artifacts" /\ new.child = h.child /\ new.seen = h.seen
        /\ new.saw = s /\ new.posted = h.posted /\ new.rows = h.rows /\ new.todo = h.todo
    BY <2>3, <2>4 DEF Handler
  <2> HIDE DEF new
  <2>6. HandlerSound(w, new, fleet')
    BY <1>2, <1>4, <2>2, <2>3, <2>5 DEF HandlerSound
  <2> QED BY <1>2, <1>3, <2>1, <2>5, <2>6, HandlerStep
<1> QED BY <1>5, <1>6

\* It reads the artifacts and computes the row to store.
LEMMA ProjectStep ==
  ASSUME FleetInv, NEW w \in Worker, Project(w)
  PROVE  FleetInv'
<1> DEFINE h == worker[w]
           t == [state |-> h.saw, art |-> HasArtifacts(h.seen.task)]
           next == Projected(h.child, h.seen, t)
<1>1. TypeParts /\ KeysUnique
  BY DEF FleetInv, FleetTypeOK, TypeParts, KeysUnique
<1>2. /\ UNCHANGED <<fleet, tasks, reviewed, report>> /\ fleet \in Table
      /\ h \in Handler /\ HandlerSound(w, h, fleet) /\ h.pc = "artifacts"
  BY <1>1 DEF Project, TypeParts, FleetInv
<1>3. KeysUnique' /\ TableBehind(fleet, fleet') /\ fleet' \in Table
  BY <1>1, <1>2, TableBehindItself DEF KeysUnique
<1>4. /\ h.child # None /\ h.child \in Child /\ h.seen \in FleetRow
      /\ Behind(h.seen, fleet[h.child]) /\ ~h.posted
      /\ h.seen.task \in Stored /\ h.saw \in TaskState
  BY <1>2, HandlerFields DEF HandlerSound
<1>5. t \in TaskRow
  <2>1. HasArtifacts(h.seen.task) \in BOOLEAN
    <3>1. tasks[h.seen.task] # None => tasks[h.seen.task] \in TaskRow
      BY <1>1, <1>4, FleetDataAssumption DEF TypeParts
    <3>2. \A m \in TaskRow : m.art \in BOOLEAN
      BY DEF TaskRow
    <3> QED BY <3>1, <3>2 DEF HasArtifacts
  <2> HIDE DEF h
  <2> QED BY <1>4, <2>1 DEF TaskRow
<1>6. CASE next = None \/ h.seen.rev = MaxRev
  <2>1. worker' = [worker EXCEPT ![w] = Answered(w, h.seen)]
    BY <1>6 DEF Project
  <2>2. Answered(w, h.seen) \in Handler /\ HandlerSound(w, Answered(w, h.seen), fleet)
    BY <1>2, <1>4, AnsweredIsSound
  <2> QED BY <1>2, <1>3, <2>1, <2>2, HandlerStep
<1>7. CASE next # None /\ h.seen.rev # MaxRev
  <2> DEFINE new == [h EXCEPT !.pc = "swap", !.next = next, !.expect = h.seen.rev]
  <2>1. worker' = [worker EXCEPT ![w] = new]
    BY <1>7 DEF Project
  <2>2. next \in FleetRow /\ next.key = h.seen.key /\ h.seen.status.state \notin Final
    <3> HIDE DEF t, h
    <3> QED BY <1>4, <1>5, <1>7, ProjectedRow
  <2>3. h.seen.rev \in 0..MaxRev /\ h \in Handler
    BY <1>2, <1>4, RowFields, FleetAssumption
  <2> HIDE DEF next, h
  <2>4. /\ new \in Handler /\ new.pc = "swap" /\ new.child = h.child /\ new.seen = h.seen
        /\ new.next = next /\ new.expect = h.seen.rev /\ new.posted = h.posted
        /\ new.rows = h.rows /\ new.todo = h.todo
    BY <2>2, <2>3 DEF Handler
  <2> HIDE DEF new
  <2>5. HandlerSound(w, new, fleet')
    BY <1>2, <1>4, <1>7, <2>2, <2>4 DEF HandlerSound
  <2> QED BY <1>2, <1>3, <2>1, <2>4, <2>5, HandlerStep
<1> QED BY <1>6, <1>7

\* observe reads the row and makes the one to store.
LEMMA PostStep ==
  ASSUME FleetInv, NEW w \in Worker, NEW c \in Child, NEW e \in 1..MaxRev, NEW s \in Posted,
         NEW t \in Reported[c] \cup {None}, Post(w, c, e, s, t)
  PROVE  FleetInv'
<1> DEFINE r == fleet[c]
           bound == IF t = None THEN r.task ELSE t
           next == [r EXCEPT !.status = s, !.rev = e + 1, !.task = bound]
           new == [Rest EXCEPT !.pc = "swap", !.posted = TRUE, !.child = c, !.expect = e,
                               !.seen = r, !.next = next]
<1>1. TypeParts /\ KeysUnique
  BY DEF FleetInv, FleetTypeOK, TypeParts, KeysUnique
<1>2. /\ UNCHANGED <<fleet, tasks, reviewed, report>> /\ fleet \in Table
      /\ worker[w] = Rest /\ r # None /\ e < MaxRev /\ Bindable(r, t)
  BY <1>1 DEF Post, TypeParts, FleetInv, HandlerSound
<1>3. KeysUnique' /\ TableBehind(fleet, fleet') /\ fleet' \in Table
  BY <1>1, <1>2, TableBehindItself DEF KeysUnique
<1>4. r \in FleetRow /\ Behind(r, r) /\ c # None
  BY <1>2, BehindItself, FleetAssumption DEF Table
<1>5. worker' = [worker EXCEPT ![w] = new]
  BY <1>1, <1>2 DEF Post, TypeParts
<1>6. /\ s \in Status /\ e + 1 \in 1..MaxRev /\ e \in 0..MaxRev /\ bound \in Task \cup {None}
      /\ bound # r.task => r.task = None
  <2>1. s \in Status
    BY FleetDataAssumption
  <2>2. e + 1 \in 1..MaxRev /\ e \in 0..MaxRev
    BY <1>2, FleetAssumption
  <2>3. bound \in Task \cup {None}
    BY <1>4, FleetAssumption, RowFields
  <2>4. bound # r.task => r.task = None
    BY <1>2 DEF Bindable
  <2> QED BY <2>1, <2>2, <2>3, <2>4
<1> HIDE DEF bound
<1>7. next \in FleetRow /\ next.key = r.key /\ next.task = bound /\ next # None
  <2>1. next \in FleetRow /\ next.key = r.key /\ next.task = bound
    <3> HIDE DEF r
    <3> QED BY <1>4, <1>6 DEF FleetRow
  <2> QED BY <2>1, RowFields
<1> HIDE DEF next
<1>8. new \in Handler
  <2> HIDE DEF r
  <2> QED BY <1>4, <1>6, <1>7, RestIsHandler DEF Handler
<1>9. /\ new.pc = "swap" /\ new.child = c /\ new.seen = r /\ new.next = next /\ new.posted = TRUE
      /\ new.rows = None
  BY DEF Rest
<1> HIDE DEF new
<1>10. HandlerSound(w, new, fleet')
  BY <1>2, <1>4, <1>6, <1>7, <1>9 DEF HandlerSound
<1> QED BY <1>2, <1>3, <1>5, <1>8, <1>10, HandlerStep

\* observe_fleet_workload: what the compare-and-swap does to the table.
LEMMA SwapTable ==
  ASSUME FleetInv, NEW w \in Worker, Swap(w)
  PROVE  /\ worker[w].child \in Child /\ worker[w].seen \in FleetRow
         /\ fleet[worker[w].child] \in FleetRow /\ Behind(worker[w].seen, fleet[worker[w].child])
         /\ worker[w].pc = "swap" /\ HandlerSound(w, worker[w], fleet) /\ worker[w] \in Handler
         /\ fleet' \in Table /\ TableBehind(fleet, fleet') /\ KeysUnique'
         /\ \A c \in Child : fleet'[c] # fleet[c] =>
              /\ c = worker[w].child /\ fleet[c].rev = worker[w].expect
              /\ fleet'[c] = worker[w].next
<1> DEFINE h == worker[w]
           c == h.child
<1>1. TypeParts /\ KeysUnique
  BY DEF FleetInv, FleetTypeOK, TypeParts, KeysUnique
<1>2. h \in Handler /\ HandlerSound(w, h, fleet) /\ h.pc = "swap" /\ fleet \in Table
  BY <1>1 DEF Swap, TypeParts, FleetInv
<1>3. /\ c \in Child /\ h.seen \in FleetRow /\ h.next \in FleetRow /\ Behind(h.seen, fleet[c])
      /\ h.next.key = h.seen.key
  BY <1>2, HandlerFields DEF HandlerSound
<1>4. fleet[c] \in FleetRow /\ h.next.key = fleet[c].key
  BY <1>2, <1>3 DEF Behind, Table
<1>5. CASE Swaps(c, h.expect, h.next)
  <2>1. fleet' = [fleet EXCEPT ![c] = h.next]
    BY <1>5 DEF Swap
  <2>2. fleet[c].rev = h.expect /\ h.next.rev > h.expect
    BY <1>5 DEF Swaps
  <2>3. Behind(fleet[c], h.next)
    BY <1>3, <1>4, <2>2, RowFields DEF Behind
  <2> HIDE DEF h
  <2>4. fleet' \in Table /\ \A d \in Child : fleet'[d] = IF d = c THEN h.next ELSE fleet[d]
    BY <1>2, <1>3, <2>1 DEF Table
  <2>5. TableBehind(fleet, fleet')
    BY <1>2, <2>3, <2>4, BehindItself DEF TableBehind, Table
  <2>6. h.next # None
    BY <1>3, RowFields
  <2>7. KeysUnique'
    <3> SUFFICES ASSUME NEW d \in Child, NEW e \in Child, fleet'[d] # None, fleet'[e] # None,
                        fleet'[d].key = fleet'[e].key
                 PROVE  d = e
      BY DEF KeysUnique
    <3>1. \A x \in Child : fleet'[x] # None => fleet[x] # None /\ fleet[x].key = fleet'[x].key
      BY <1>3, <1>4, <2>4, <2>6, RowFields
    <3> QED BY <1>1, <3>1 DEF KeysUnique
  <2> QED BY <1>2, <1>3, <1>4, <2>2, <2>4, <2>5, <2>7 DEF h
<1>6. CASE ~Swaps(c, h.expect, h.next)
  <2>1. fleet' = fleet
    BY <1>6 DEF Swap
  <2>2. KeysUnique' /\ TableBehind(fleet, fleet')
    BY <1>1, <1>2, <2>1, TableBehindItself DEF KeysUnique
  <2> QED BY <1>2, <1>3, <1>4, <2>1, <2>2
<1> QED BY <1>5, <1>6

\* The handler of the compare-and-swap goes on with the row it has stored, or
\* to read the row anew; a refused observation is over.
LEMMA SwapStep ==
  ASSUME FleetInv, NEW w \in Worker, Swap(w)
  PROVE  FleetInv'
<1> DEFINE h == worker[w]
           swaps == Swaps(h.child, h.expect, h.next)
<1>1. /\ h.child \in Child /\ fleet[h.child] \in FleetRow /\ h.pc = "swap" /\ HandlerSound(w, h, fleet)
      /\ h \in Handler /\ fleet' \in Table /\ TableBehind(fleet, fleet') /\ KeysUnique'
  BY SwapTable
<1>2. fleet \in Table /\ UNCHANGED <<tasks, reviewed, report>>
  BY DEF FleetInv, FleetTypeOK, Swap
<1>3. h.child # None /\ h.next \in FleetRow /\ HandlerSound(w, h, fleet')
  <2>1. HandlerSound(w, h, fleet')
    BY <1>1, <1>2, HandlerOutlives
  <2> QED BY <1>1, <2>1, HandlerFields, FleetAssumption DEF HandlerSound
<1>4. CASE swaps
  <2>1. worker' = [worker EXCEPT ![w] = Answered(w, h.next)] /\ fleet' = [fleet EXCEPT ![h.child] = h.next]
    BY <1>4 DEF Swap
  <2>2. Behind(h.next, fleet'[h.child])
    BY <1>1, <1>2, <1>3, <2>1, BehindItself DEF Table
  <2>3. Answered(w, h.next) \in Handler /\ HandlerSound(w, Answered(w, h.next), fleet')
    BY <1>1, <1>3, <2>2, AnsweredIsSound
  <2> QED BY <1>1, <1>2, <2>1, <2>3, HandlerStep
<1>5. CASE h.posted
  <2>1. Answered(w, h.next) = Rest
    BY <1>1, <1>5 DEF Answered, HandlerSound
  <2>2. worker' = [worker EXCEPT ![w] = Rest]
    BY <1>5, <2>1 DEF Swap
  <2>3. Rest \in Handler /\ HandlerSound(w, Rest, fleet')
    BY RestIsHandler, RestIsSound
  <2> QED BY <1>1, <1>2, <2>2, <2>3, HandlerStep
<1>6. CASE ~swaps /\ ~h.posted
  <2> DEFINE new == [h EXCEPT !.pc = "reread"]
  <2>1. worker' = [worker EXCEPT ![w] = new]
    BY <1>6 DEF Swap
  <2>2. h \in Handler
    BY <1>1
  <2> HIDE DEF h
  <2>3. /\ new \in Handler /\ new.pc = "reread" /\ new.child = h.child /\ new.seen = h.seen
        /\ new.posted = h.posted /\ new.rows = h.rows /\ new.todo = h.todo
    BY <2>2 DEF Handler
  <2> HIDE DEF new
  <2>4. HandlerSound(w, new, fleet')
    BY <1>3, <1>6, <2>3 DEF HandlerSound
  <2> QED BY <1>1, <1>2, <2>1, <2>3, <2>4, HandlerStep
<1> QED BY <1>4, <1>5, <1>6

\* A refused projection is answered with the row that is stored by then.
LEMMA RereadStep ==
  ASSUME FleetInv, NEW w \in Worker, Reread(w)
  PROVE  FleetInv'
<1> DEFINE h == worker[w]
           r == fleet[h.child]
<1>1. TypeParts /\ KeysUnique
  BY DEF FleetInv, FleetTypeOK, TypeParts, KeysUnique
<1>2. /\ UNCHANGED <<fleet, tasks, reviewed, report>> /\ fleet \in Table
      /\ h \in Handler /\ HandlerSound(w, h, fleet) /\ h.pc = "reread"
      /\ worker' = [worker EXCEPT ![w] = Answered(w, r)]
  BY <1>1 DEF Reread, TypeParts, FleetInv
<1>3. KeysUnique' /\ TableBehind(fleet, fleet') /\ fleet' \in Table
  BY <1>1, <1>2, TableBehindItself DEF KeysUnique
<1>4. h.child # None /\ h.child \in Child /\ r \in FleetRow /\ Behind(r, r)
  <2>1. h.child # None /\ h.child \in Child /\ Behind(h.seen, r)
    BY <1>2, HandlerFields DEF HandlerSound
  <2>2. r \in FleetRow
    BY <1>2, <2>1 DEF Behind, Table
  <2> QED BY <2>1, <2>2, BehindItself
<1>5. Answered(w, r) \in Handler /\ HandlerSound(w, Answered(w, r), fleet)
  BY <1>2, <1>4, AnsweredIsSound
<1> QED BY <1>2, <1>3, <1>5, HandlerStep

\* The complete inventory goes to the client, who has no report on it yet.
LEMMA AnswerStep ==
  ASSUME FleetInv, NEW w \in Worker, Answer(w)
  PROVE  FleetInv'
<1> DEFINE h == worker[w]
<1>1. TypeParts /\ KeysUnique
  BY DEF FleetInv, FleetTypeOK, TypeParts, KeysUnique
<1>2. /\ UNCHANGED <<fleet, tasks>> /\ worker' = [worker EXCEPT ![w] = Rest]
      /\ reviewed' = [reviewed EXCEPT ![w] = h.rows] /\ report' = [report EXCEPT ![w] = None]
      /\ h.rows # None
  BY DEF Answer
<1>3. w \in Reviewer /\ h.rows \in Table /\ TableBehind(h.rows, fleet)
  <2>1. h \in Handler /\ HandlerSound(w, h, fleet)
    BY <1>1 DEF TypeParts, FleetInv
  <2> QED BY <1>2, <2>1, HandlerFields DEF HandlerSound
<1>4. FleetTypeOK'
  <2>1. worker' \in [Worker -> Handler] /\ reviewed' \in [Reviewer -> Table \cup {None}]
    BY <1>1, <1>2, <1>3, RestIsHandler DEF TypeParts
  <2>2. DOMAIN report' = Reviewer
    BY <1>1, <1>2 DEF TypeParts
  <2> QED BY <1>1, <1>2, <2>1, <2>2 DEF TypeParts, FleetTypeOK, KeysUnique
<1>5. \A v \in Worker : HandlerSound(v, worker'[v], fleet')
  <2> SUFFICES ASSUME NEW v \in Worker
               PROVE  HandlerSound(v, worker'[v], fleet)
    BY <1>2
  <2>1. worker'[v] = IF v = w THEN Rest ELSE worker[v]
    BY <1>1, <1>2 DEF TypeParts
  <2> QED BY <2>1, RestIsSound DEF FleetInv
<1>6. ASSUME NEW v \in Reviewer
      PROVE  /\ reviewed'[v] # None => TableBehind(reviewed'[v], fleet')
             /\ report'[v] # None => report'[v] = Classification(reviewed'[v])
  <2>1. /\ reviewed'[v] = IF v = w THEN h.rows ELSE reviewed[v]
        /\ report'[v] = IF v = w THEN None ELSE report[v]
    <3>1. v \in DOMAIN report
      BY <1>1 DEF TypeParts
    <3> QED BY <1>1, <1>2, <1>3, <3>1 DEF TypeParts
  <2>2. CASE v = w
    BY <1>2, <1>3, <2>1, <2>2
  <2>3. CASE v # w
    <3>1. reviewed'[v] = reviewed[v] /\ report'[v] = report[v] /\ fleet' = fleet
      BY <1>2, <2>1, <2>3
    <3>2. Classification(reviewed'[v]) = Classification(reviewed[v])
      BY <3>1
    <3> QED BY <3>1, <3>2 DEF FleetInv, ReportIsReviewed
  <2> QED BY <2>2, <2>3
<1>7. ReportIsReviewed'
  BY <1>6 DEF ReportIsReviewed
<1> QED BY <1>4, <1>5, <1>6, <1>7 DEF FleetInv

\* reconcile: an inventory of the reviewed revision is the reviewed inventory.
LEMMA ReconcileStep ==
  ASSUME FleetInv, NEW w \in Reviewer, Reconcile(w)
  PROVE  FleetInv'
<1>1. TypeParts /\ KeysUnique
  BY DEF FleetInv, FleetTypeOK, TypeParts, KeysUnique
<1>2. /\ UNCHANGED <<fleet, tasks, worker, reviewed>> /\ reviewed[w] # None
      /\ InventoryRevision(reviewed[w]) = InventoryRevision(fleet)
      /\ report' = [report EXCEPT ![w] = Classification(fleet)]
  BY DEF Reconcile
<1>3. reviewed[w] = fleet
  <2>1. reviewed[w] \in Table /\ fleet \in Table /\ TableBehind(reviewed[w], fleet)
    BY <1>1, <1>2 DEF TypeParts, FleetInv
  <2> QED BY <1>2, <2>1, RevisionTells
<1>4. FleetTypeOK'
  <2>1. DOMAIN report' = Reviewer
    BY <1>1, <1>2 DEF TypeParts
  <2> QED BY <1>1, <1>2, <2>1 DEF TypeParts, FleetTypeOK, KeysUnique
<1>5. ASSUME NEW v \in Reviewer, report'[v] # None
      PROVE  report'[v] = Classification(reviewed'[v])
  <2>1. report'[v] = IF v = w THEN Classification(fleet) ELSE report[v]
    <3>1. v \in DOMAIN report
      BY <1>1 DEF TypeParts
    <3> QED BY <1>2, <3>1
  <2>2. reviewed'[v] = reviewed[v]
    BY <1>2
  <2>3. Classification(reviewed'[v]) = Classification(reviewed[v])
    BY <2>2
  <2>4. CASE v = w
    <3>1. Classification(reviewed[w]) = Classification(fleet)
      BY <1>3
    <3> QED BY <2>1, <2>3, <2>4, <3>1
  <2>5. CASE v # w
    BY <1>5, <2>1, <2>3, <2>5 DEF FleetInv, ReportIsReviewed
  <2> QED BY <2>4, <2>5
<1>6. ReportIsReviewed'
  BY <1>5 DEF ReportIsReviewed
<1> QED BY <1>2, <1>4, <1>6 DEF FleetInv

\* fleet_dispatch admits a child and a key that the table does not have.
LEMMA AdmitStep ==
  ASSUME FleetInv, NEW c \in Child, NEW k \in Key, NEW t \in Task \cup {None}, NEW given \in Given,
         Admit(c, k, t, given)
  PROVE  FleetInv' /\ fleet[c] = None /\ \A d \in Child \ {c} : fleet'[d] = fleet[d]
<1> DEFINE row == [key |-> k, status |-> [state |-> "admitted", rest |-> given],
                   rev |-> 1, task |-> t]
<1>1. TypeParts /\ KeysUnique
  BY DEF FleetInv, FleetTypeOK, TypeParts, KeysUnique
<1>2. /\ fleet[c] = None /\ \A d \in Child : fleet[d] # None => fleet[d].key # k
      /\ fleet' = [fleet EXCEPT ![c] = row] /\ UNCHANGED <<tasks, worker, reviewed, report>>
  BY DEF Admit, Prior
<1>3. row \in FleetRow /\ row.key = k
  <2>1. [state |-> "admitted", rest |-> given] \in Status
    BY FleetDataAssumption DEF Status, ObservedState
  <2>2. 1 \in 1..MaxRev
    BY FleetAssumption
  <2> QED BY <2>1, <2>2 DEF FleetRow
<1> HIDE DEF row
<1>4. fleet' \in Table /\ \A d \in Child : fleet'[d] = IF d = c THEN row ELSE fleet[d]
  BY <1>1, <1>2, <1>3 DEF TypeParts, Table
<1>5. TableBehind(fleet, fleet')
  BY <1>1, <1>2, <1>4, BehindItself DEF TableBehind, TypeParts, Table
<1>6. KeysUnique'
  BY <1>1, <1>2, <1>3, <1>4 DEF KeysUnique
<1>7. FleetTypeOK'
  BY <1>1, <1>2, <1>4, <1>6 DEF TypeParts, FleetTypeOK, KeysUnique
<1>8. \A v \in Worker : HandlerSound(v, worker'[v], fleet')
  <2> SUFFICES ASSUME NEW v \in Worker
               PROVE  HandlerSound(v, worker[v], fleet')
    BY <1>2
  <2>1. worker[v] \in Handler /\ HandlerSound(v, worker[v], fleet) /\ fleet \in Table
    BY <1>1 DEF FleetInv, TypeParts
  <2> QED BY <1>4, <1>5, <2>1, HandlerOutlives
<1>9. ASSUME NEW v \in Reviewer, reviewed'[v] # None
      PROVE  TableBehind(reviewed'[v], fleet')
  <2>1. reviewed[v] \in Table /\ TableBehind(reviewed[v], fleet) /\ fleet \in Table
    BY <1>1, <1>2, <1>9 DEF FleetInv, TypeParts
  <2> QED BY <1>2, <1>4, <1>5, <2>1, TableBehindTransitive
<1>10. ReportIsReviewed'
  <2>1. ASSUME NEW v \in Reviewer
        PROVE  report'[v] = report[v] /\ Classification(reviewed'[v]) = Classification(reviewed[v])
    BY <1>2
  <2> QED BY <2>1 DEF FleetInv, ReportIsReviewed
<1> QED BY <1>2, <1>4, <1>7, <1>8, <1>9, <1>10 DEF FleetInv

\* The executor's writes, and steps in which nothing changes.
LEMMA TaskMovesStep ==
  ASSUME FleetInv, (\E t \in Stored : TaskMoves(t)) \/ UNCHANGED fleetVars
  PROVE  FleetInv' /\ fleet' = fleet
<1>1. UNCHANGED <<fleet, worker, reviewed, report>>
  BY DEF TaskMoves, fleetVars
<1>2. tasks' \in [Stored -> Moves \cup {None}]
  BY DEF TaskMoves, fleetVars, FleetInv, FleetTypeOK
<1>3. FleetTypeOK'
  BY <1>1, <1>2 DEF FleetInv, FleetTypeOK
<1>4. ReportIsReviewed'
  <2>1. ASSUME NEW v \in Reviewer
        PROVE  report'[v] = report[v] /\ Classification(reviewed'[v]) = Classification(reviewed[v])
    BY <1>1
  <2> QED BY <2>1 DEF FleetInv, ReportIsReviewed
<1> QED BY <1>1, <1>3, <1>4 DEF FleetInv

\* Every step keeps the invariant.
LEMMA FleetStep == FleetInv /\ [FleetNext]_fleetVars => FleetInv'
<1> SUFFICES ASSUME FleetInv, [FleetNext]_fleetVars
             PROVE  FleetInv'
  OBVIOUS
<1>1. ASSUME NEW w \in Worker,
             \/ Pick(w) \/ LoadTask(w) \/ Project(w) \/ Swap(w) \/ Reread(w) \/ Answer(w)
             \/ w \in Reviewer /\ (List(w) \/ Reconcile(w))
             \/ \E c \in Child : \/ Get(w, c)
                                 \/ \E e \in 1..MaxRev, s \in Posted, t \in Reported[c] \cup {None} :
                                      Post(w, c, e, s, t)
      PROVE  FleetInv'
  BY <1>1, PickStep, LoadTaskStep, ProjectStep, SwapStep, RereadStep, AnswerStep, ReadStep,
     ReconcileStep, PostStep
<1>2. ASSUME NEW c \in Child, NEW k \in Key, NEW t \in Reported[c] \cup {None}, NEW given \in Given,
             Admit(c, k, t, given)
      PROVE  FleetInv'
  <2>1. t \in Task \cup {None}
    BY FleetAssumption
  <2> QED BY <1>2, <2>1, AdmitStep
<1> QED BY <1>1, <1>2, TaskMovesStep DEF FleetNext

\* The invariant of the inventory: a reconciliation that is not refused is
\* about the very inventory its client has reviewed, although revisions are
\* only summed up and inventories are put together row by row, and all that
\* handlers hold on to between two statements is what the table has or had.
THEOREM ReportsAreReviewed == FleetSpec => []FleetInv
<1>1. FleetInit => FleetInv
  <2> SUFFICES ASSUME FleetInit
               PROVE  FleetInv
    OBVIOUS
  <2>1. FleetTypeOK
    BY RestIsHandler DEF FleetInit, FleetTypeOK, Table
  <2>2. ReportIsReviewed /\ \A w \in Reviewer : reviewed[w] = None
    BY DEF FleetInit, ReportIsReviewed
  <2>3. \A w \in Worker : HandlerSound(w, worker[w], fleet)
    BY RestIsSound DEF FleetInit
  <2> QED BY <2>1, <2>2, <2>3 DEF FleetInv
<1> QED BY <1>1, FleetStep, PTL DEF FleetSpec

\* Which step changes a row that is there, and how: a compare-and-swap of the
\* revision that is stored, whose handler then goes on.
LEMMA RowChangedBySwap ==
  ASSUME FleetInv, FleetNext, NEW c \in Child, fleet[c] # None, fleet'[c] # fleet[c]
  PROVE  \E w \in Worker :
           /\ Stores(w, c) /\ fleet'[c] = worker[w].next /\ HandlerSound(w, worker[w], fleet)
           /\ worker[w].pc = "swap" /\ worker[w].child = c
           /\ fleet[c].rev = worker[w].expect
           /\ worker[w].seen.rev = worker[w].expect => worker[w].seen = fleet[c]
<1>1. PICK w \in Worker : Swap(w)
  <2>1. ASSUME NEW d \in Child, NEW k \in Key, NEW t \in Reported[d] \cup {None}, NEW given \in Given,
               Admit(d, k, t, given)
        PROVE  FALSE
    <3>1. t \in Task \cup {None}
      BY FleetAssumption
    <3> QED BY <2>1, <3>1, AdmitStep
  <2>2. ASSUME NEW t \in Stored, TaskMoves(t)
        PROVE  FALSE
    BY <2>2 DEF TaskMoves
  <2> QED BY <2>1, <2>2 DEF FleetNext, Pick, LoadTask, Project, Reread, Answer, List, Reconcile, Get, Post
<1> DEFINE h == worker[w]
<1>2. /\ h.child \in Child /\ h.pc = "swap" /\ HandlerSound(w, h, fleet) /\ h \in Handler
      /\ Behind(h.seen, fleet[h.child]) /\ fleet' \in Table
      /\ fleet[h.child] \in FleetRow /\ TableBehind(fleet, fleet')
      /\ c = h.child /\ fleet[c].rev = h.expect /\ fleet'[c] = h.next
  BY <1>1, SwapTable
<1>3. h.seen.rev = h.expect => h.seen = fleet[c]
  BY <1>2 DEF Behind
<1>4. worker'[w] # worker[w]
  <2>1. worker'[w] \in {Answered(w, h.next), [h EXCEPT !.pc = "reread"]}
    BY <1>1 DEF Swap, FleetInv, FleetTypeOK
  <2>2. Answered(w, h.next).pc # "swap" /\ [h EXCEPT !.pc = "reread"].pc # "swap"
    <3>1. Rest.pc # "swap"
      BY DEF Rest
    <3>2. /\ [h EXCEPT !.pc = "reread"].pc = "reread"
          /\ [h EXCEPT !.pc = "project", !.child = None, !.seen = None, !.saw = None,
                       !.next = None, !.rows[h.child] = h.next].pc = "project"
      <4>1. h \in Handler
        BY <1>2
      <4> HIDE DEF h
      <4> QED BY <4>1 DEF Handler
    <3> QED BY <3>1, <3>2 DEF Answered
  <2> QED BY <1>2, <2>1, <2>2
<1> QED BY <1>2, <1>3, <1>4 DEF Stores

\* A row in a final state is changed by an operator's observation only: a
\* projection computed from an earlier read finds another revision.
THEOREM FinalRowsKept == FleetSpec => FinalUnlessPosted
<1> DEFINE Kept == \A c \in Child :
              fleet[c] # None /\ fleet[c].status.state \in Final /\ fleet'[c] # fleet[c]
                => \E w \in Worker : Stores(w, c) /\ worker[w].posted
<1>1. FleetInv /\ [FleetNext]_fleetVars => [Kept]_fleetVars
  <2> SUFFICES ASSUME FleetInv, FleetNext, NEW c \in Child, fleet[c] # None,
                      fleet[c].status.state \in Final, fleet'[c] # fleet[c]
               PROVE  \E w \in Worker : Stores(w, c) /\ worker[w].posted
    OBVIOUS
  <2>1. PICK w \in Worker :
           /\ Stores(w, c) /\ HandlerSound(w, worker[w], fleet) /\ worker[w].pc = "swap"
           /\ worker[w].seen.rev = worker[w].expect => worker[w].seen = fleet[c]
    BY RowChangedBySwap
  <2>2. worker[w].posted
    BY <2>1 DEF HandlerSound
  <2> QED BY <2>1, <2>2
<1> QED BY <1>1, ReportsAreReviewed, PTL DEF FleetSpec, FinalUnlessPosted

=============================================================================
