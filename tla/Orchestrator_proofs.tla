------------------------- MODULE Orchestrator_proofs -------------------------
(***************************************************************************)
(* Proofs about the task orchestrator, for any tasks, any ids (submitted   *)
(* again or not), any naming of VMs (names that clash included) and any    *)
(* number of faults: the lifecycle by itself (TaskLifecycle), then next to *)
(* the reconciler and the cleanup service (TaskReconcile).                 *)
(***************************************************************************)
EXTENDS TaskReconcile, TLAPS

\* The checkpoint of one task follows it (CheckpointFollows, for one task).
Follows(t) ==
  task[t] # None /\ Own(t) /\ ckpt[id[t]].state # task[t].state
    => /\ CanTransition(ckpt[id[t]].state, task[t].state)
       /\ lock[t] # "free" \/ faults > 0

\* The part of TaskInv that speaks of one task.
Local(t) ==
  Presence(t) /\ LifecycleKnows(t) /\ CancelKnows(t) /\ VmKnown(t) /\ Follows(t)

\* TaskInv in the form the proofs use: types, one task at a time, claims.
TaskIInv ==
  /\ TaskTypeOK
  /\ CheckpointsNamed
  /\ \A t \in Task : Local(t)
  /\ ClaimsExclusive
  /\ \A t \in Task : CleanedUp(t)

\* The conjuncts about the VMs of active and of preserved tasks follow from
\* the claims: a checkpoint that needs its VM is a claim on it.
LEMMA TaskInvForm == TaskInv <=> TaskIInv
<1>1. TaskInv => TaskIInv
  BY DEF TaskInv, TaskIInv, Local, Follows, CheckpointFollows
<1>2. ASSUME TaskIInv
      PROVE  TaskInv
  <2>1. CheckpointFollows /\ TaskTypeOK /\ CheckpointsNamed /\ ClaimsExclusive
    BY <1>2 DEF TaskIInv, Local, Follows, CheckpointFollows
  <2>2. ASSUME NEW i \in Id, ckpt[i] # None, ckpt[i].state \in Holding
        PROVE  VmOf[i] \in vms
    <3>1. ckpt[i].of \in Task /\ id[ckpt[i].of] = i
      BY <2>1, <2>2 DEF TaskTypeOK, Checkpoint, CheckpointsNamed
    <3>2. i # None
      BY NoneAssumption
    <3>3. Claims(ckpt[i].of) /\ VmName(ckpt[i].of) = VmOf[i]
      BY <2>2, <3>1, <3>2 DEF Claims, Own, VmName
    <3> QED BY <2>1, <3>1, <3>3 DEF ClaimsExclusive
  <2> QED BY <1>2, <2>1, <2>2 DEF TaskInv, TaskIInv, Local, ActiveHasVm, PreservedVmKept, Holding
<1> QED BY <1>1, <1>2

\* Another task's step: the checkpoint of u's id stays, or becomes the other
\* task's, and u's record and actors are as before.  Nothing that is said of
\* u can fail by it, and u makes no claim.
LEMMA OtherTaskUntouched ==
  ASSUME TaskTypeOK, NEW u \in Task, Local(u),
         faults' \in Nat, faults <= faults', up' = up, id'[u] = id[u],
         Own(u)' => Own(u) /\ ckpt'[id[u]] = ckpt[id[u]],
         task'[u] = task[u], life'[u] = life[u],
         cancel'[u] = cancel[u], lock'[u] = lock[u]
  PROVE  Local(u)' /\ (Claims(u)' => Claims(u)) /\ VmName(u)' = VmName(u)
<1>1. Snapshot(u)' = Snapshot(u) /\ VmName(u)' = VmName(u)
  BY DEF Snapshot, VmName
<1>2. Presence(u)'
  BY TaskAssumption DEF TaskTypeOK, Local, Presence
<1>3. LifecycleKnows(u)'
  BY <1>1 DEF Local, LifecycleKnows
<1>4. CancelKnows(u)' /\ VmKnown(u)'
  BY DEF Local, CancelKnows, VmKnown
<1>5. Follows(u)'
  BY TaskAssumption DEF TaskTypeOK, Local, Follows
<1>6. Claims(u)' => Claims(u)
  BY DEF Claims
<1> QED BY <1>1, <1>2, <1>3, <1>4, <1>5, <1>6 DEF Local

\* The initial state: nothing submitted, nothing saved, no VM.
LEMMA TaskInitInv == TaskInit => TaskIInv
BY TaskAssumption
   DEF TaskInit, TaskIInv, TaskTypeOK, CheckpointsNamed, Local, Presence, LifecycleKnows, CancelKnows,
       VmKnown, Follows, ClaimsExclusive, Claims, CleanedUp, LifePc, Own

\* A record of the fields of a task is a task, not the absent value; and so
\* for a checkpoint.
LEMMA RecordIsTask ==
  ASSUME NEW s \in Active \cup Terminal, NEW v \in BOOLEAN
  PROVE  /\ [state |-> s, vm |-> v] \in TaskRecord
         /\ [state |-> s, vm |-> v] # None
BY NoneAssumption DEF TaskRecord

LEMMA RecordIsCheckpoint ==
  ASSUME NEW t \in Task, NEW s \in Active \cup Terminal, NEW v \in BOOLEAN
  PROVE  /\ [of |-> t, state |-> s, vm |-> v] \in Checkpoint
         /\ [of |-> t, state |-> s, vm |-> v] # None
BY NoneAssumption DEF Checkpoint

\* What is saved of a task in memory is a checkpoint of that task.
LEMMA SnapshotIsCheckpoint ==
  ASSUME NEW t \in Task, task[t] \in TaskRecord
  PROVE  /\ Snapshot(t) \in Checkpoint /\ Snapshot(t) # None /\ Snapshot(t).of = t
         /\ Snapshot(t).state = task[t].state /\ Snapshot(t).vm = task[t].vm
BY RecordIsCheckpoint DEF Snapshot, TaskRecord

\* A task whose lifecycle has begun has an id.
LEMMA HasId ==
  ASSUME TaskTypeOK, NEW t \in Task, Local(t), life[t] # "none"
  PROVE  id[t] \in Id /\ id[t] # None
BY DEF TaskTypeOK, Local, Presence

\* submit_task: the checkpoint is written before the task exists.
LEMMA SubmitSaveLocal ==
  ASSUME TaskIInv, NEW t \in Task, SubmitSave(t)
  PROVE  TaskTypeOK' /\ Local(t)' /\ (Claims(t)' => Claims(t))
<1> DEFINE new == [of |-> t, state |-> "pending", vm |-> FALSE]
<1>1. /\ new \in Checkpoint /\ new # None
      /\ new.of = t /\ new.state = "pending" /\ new.vm = FALSE
  BY RecordIsCheckpoint DEF Active
<1>2. PICK i \in Id : id' = [id EXCEPT ![t] = i] /\ ckpt' = [ckpt EXCEPT ![i] = new]
  BY DEF SubmitSave
<1>3. /\ life'[t] = "submitted" /\ task'[t] = task[t] /\ task[t] = None
      /\ cancel'[t] = cancel[t] /\ lock'[t] = lock[t] /\ faults' = faults /\ up' = up /\ up
      /\ id'[t] = i /\ i # None /\ ckpt'[id'[t]] = new
  BY <1>2, NoneAssumption DEF SubmitSave, TaskIInv, TaskTypeOK, Local, Presence
<1>4. TaskTypeOK'
  BY <1>1, <1>2 DEF SubmitSave, TaskIInv, TaskTypeOK, LifePc
<1>5. Local(t) /\ life[t] = "none" /\ ~Own(t)
  BY DEF TaskIInv, SubmitSave, Local, Presence, Own
<1>6. cancel[t] = "none" \/ cancel[t] = "dead"
  BY <1>3, <1>5 DEF Local, Presence
<1>7. new = [of |-> t, state |-> "pending", vm |-> FALSE]
  OBVIOUS
<1> HIDE DEF new
<1>8. Local(t)'
  BY <1>1, <1>3, <1>5, <1>6, <1>7
  DEF Local, Presence, LifecycleKnows, CancelKnows, VmKnown, Follows, Holding, Early, Own
<1>9. ~Claims(t)'
  BY <1>1, <1>3 DEF Claims, Holding, Own
<1> QED BY <1>4, <1>8, <1>9

\* The lifecycle is spawned for a task whose checkpoint is its own.
LEMMA SubmitInsertLocal ==
  ASSUME TaskIInv, NEW t \in Task, SubmitInsert(t)
  PROVE  TaskTypeOK' /\ Local(t)' /\ (Claims(t)' => Claims(t))
<1> DEFINE new == [state |-> "pending", vm |-> FALSE]
<1>1. new \in TaskRecord /\ new # None /\ new.state = "pending" /\ new.vm = FALSE
  BY RecordIsTask DEF Active
<1>2. /\ task' = [task EXCEPT ![t] = new] /\ task'[t] = new
      /\ life' = [life EXCEPT ![t] = "to_staging"] /\ life'[t] = "to_staging"
      /\ life[t] = "submitted" /\ up
      /\ UNCHANGED <<up, id, ckpt, cancel, lock, vms, faults>>
      /\ (Own(t)' <=> Own(t))
  BY DEF SubmitInsert, TaskIInv, TaskTypeOK, Own
<1>3. Local(t) /\ task[t] = None
  BY <1>2 DEF TaskIInv, Local, Presence
<1>4. /\ lock[t] = "free" /\ cancel[t] \in {"none", "dead"}
      /\ (Own(t) => ckpt[id[t]] = [of |-> t, state |-> "pending", vm |-> FALSE])
      /\ Snapshot(t)' = [of |-> t, state |-> "pending", vm |-> FALSE]
  BY <1>1, <1>2, <1>3 DEF Local, Presence, Snapshot
<1> HIDE DEF new
<1>5. TaskTypeOK'
  BY <1>1, <1>2 DEF TaskIInv, TaskTypeOK, LifePc
<1>6. Local(t)'
  BY <1>1, <1>2, <1>3, <1>4
  DEF Local, Presence, LifecycleKnows, CancelKnows, VmKnown, Follows, Holding, Early, Before
<1>7. ~Claims(t)'
  BY <1>1, <1>2, <1>4 DEF Claims, Holding
<1> QED BY <1>5, <1>6, <1>7

\* A transition of the lifecycle, granted or refused.
LEMMA LifeTransitionLocal ==
  ASSUME TaskIInv, NEW t \in Task, LifeTransition(t)
  PROVE  TaskTypeOK' /\ Local(t)' /\ (Claims(t)' => Claims(t))
<1>1. /\ Local(t) /\ life[t] \in Transitions /\ lock[t] = "free" /\ task[t] # None
     
  BY DEF TaskIInv, LifeTransition, Local, Presence, Transitions
<1>2. /\ task[t] \in TaskRecord
      /\ task[t].state \in Active \cup Terminal /\ task[t].vm \in BOOLEAN
  BY <1>1 DEF TaskIInv, TaskTypeOK, TaskRecord
<1>3. /\ id'[t] = id[t] /\ ckpt' = ckpt /\ cancel'[t] = cancel[t] /\ faults' = faults /\ up' = up
      /\ vms' = vms
      /\ (Own(t)' <=> Own(t)) /\ VmName(t)' = VmName(t)
  BY DEF LifeTransition, Own, VmName
<1> DEFINE known == task[t].vm \/ life[t] = "to_ready"
           goal == Goal(life[t])
<1>4. goal \in Active \cup Terminal /\ known \in BOOLEAN
  BY <1>1, <1>2 DEF Transitions, Goal, Active, Terminal
<1>5. CASE CanTransition(task[t].state, goal)
  <2>1. /\ task' = [task EXCEPT ![t] = [state |-> goal, vm |-> known]]
        /\ lock' = [lock EXCEPT ![t] = "life"] /\ life' = life
    BY <1>5 DEF LifeTransition
  <2>2. /\ task'[t].state = goal /\ task'[t].vm = known /\ task'[t] \in TaskRecord
        /\ task'[t] # None /\ lock'[t] = "life" /\ life'[t] = life[t]
    BY <1>4, <2>1, RecordIsTask DEF TaskIInv, TaskTypeOK
  <2>3. TaskTypeOK'
    BY <1>4, <2>1, RecordIsTask DEF TaskIInv, TaskTypeOK, LifeTransition
  <2>4. /\ task[t].state \in Before(life[t])
        /\ Own(t) => ckpt[id[t]].state = task[t].state /\ ckpt[id[t]].vm = task[t].vm
    BY <1>1, <1>5 DEF Local, LifecycleKnows, CanTransition, Transitions, Goal, Active, Snapshot
  <2>5. Local(t)'
    BY <1>1, <1>2, <1>3, <2>2, <2>4, <1>5
    DEF Local, Presence, LifecycleKnows, CancelKnows, VmKnown, Follows, Holding, Early,
        Transitions, Goal, Before
  <2>6. Claims(t)' => Claims(t)
    BY <1>1, <1>2, <1>3, <2>2, <2>4
    DEF Local, VmKnown, Claims, Holding, Transitions, Goal, Before
  <2> QED BY <2>3, <2>5, <2>6
<1>6. CASE ~CanTransition(task[t].state, goal)
  <2>1. /\ task' = [task EXCEPT ![t].vm = known]
        /\ life' = [life EXCEPT ![t] = "done"] /\ lock' = lock
    BY <1>6 DEF LifeTransition
  <2>2. /\ task'[t] = [state |-> task[t].state, vm |-> known]
        /\ task'[t].state = task[t].state /\ task'[t].vm = known /\ task'[t] \in TaskRecord
        /\ task'[t] # None /\ lock'[t] = "free" /\ life'[t] = "done"
    BY <1>1, <1>2, <1>4, <2>1, RecordIsTask DEF TaskIInv, TaskTypeOK, TaskRecord
  <2>3. TaskTypeOK'
    <3>1. task' \in [Task -> TaskRecord \cup {None}]
      BY <2>1, <2>2 DEF TaskIInv, TaskTypeOK
    <3> QED BY <2>1, <3>1 DEF TaskIInv, TaskTypeOK, LifeTransition, LifePc
  <2>4. task[t].state = "cancelled"
    BY <1>1, <1>6 DEF Local, LifecycleKnows, CanTransition, Transitions, Goal, Before, Active
  <2>5. Local(t)'
    BY <1>1, <1>2, <1>3, <2>2, <2>4
    DEF Local, Presence, LifecycleKnows, CancelKnows, VmKnown, Follows, Holding, Early
  <2>6. Claims(t)' => Claims(t)
    BY <1>1, <1>2, <1>3, <2>2, <2>4
    DEF Local, VmKnown, Claims, Holding, Transitions
  <2> QED BY <2>3, <2>5, <2>6
<1> QED BY <1>5, <1>6

\* The save under the lock, whether or not the file could be written.
LEMMA LifeSaveLocal ==
  ASSUME TaskIInv, NEW t \in Task, LifeSave(t)
  PROVE  TaskTypeOK' /\ Local(t)' /\ (Claims(t)' => Claims(t))
<1>1. /\ Local(t) /\ lock[t] = "life" /\ life[t] \in Transitions /\ task[t] # None
      /\ task[t] \in TaskRecord
  BY DEF TaskIInv, TaskTypeOK, LifeSave, Local, Presence, LifecycleKnows, Transitions
<1>2. /\ task'[t] = task[t] /\ cancel'[t] = cancel[t] /\ up' = up /\ lock'[t] = "free"
      /\ id'[t] = id[t] /\ VmName(t)' = VmName(t) /\ Snapshot(t)' = Snapshot(t)
      /\ id[t] \in Id /\ id[t] # None
  BY <1>1, HasId DEF LifeSave, TaskIInv, TaskTypeOK, VmName, Snapshot, Transitions
<1>3. AfterSave(life[t]) \in LifePc
  BY <1>1 DEF AfterSave, Transitions, LifePc
<1>4. CASE /\ ckpt' = [ckpt EXCEPT ![id[t]] = Snapshot(t)]
           /\ life' = [life EXCEPT ![t] = AfterSave(@)]
           /\ UNCHANGED faults
  <2>1. /\ ckpt'[id[t]] = Snapshot(t) /\ life'[t] = AfterSave(life[t]) /\ faults' = faults
        /\ Snapshot(t).state = task[t].state /\ Snapshot(t).vm = task[t].vm /\ Own(t)'
    BY <1>1, <1>2, <1>4, SnapshotIsCheckpoint DEF TaskIInv, TaskTypeOK, Own
  <2>2. TaskTypeOK'
    BY <1>1, <1>2, <1>3, <1>4, SnapshotIsCheckpoint DEF TaskIInv, TaskTypeOK, LifeSave
  <2>3. Local(t)'
    BY <1>1, <1>2, <2>1
    DEF Local, Presence, LifecycleKnows, CancelKnows, VmKnown, Follows, Holding, Early,
        Transitions, Goal, Before, AfterSave
  <2>4. Claims(t)' => Claims(t)
    BY <1>1, <1>2, <2>1 DEF Local, LifecycleKnows, VmKnown, Claims, Holding, Transitions, Goal, Before, AfterSave
  <2> QED BY <2>2, <2>3, <2>4
<1>5. CASE /\ Fault
           /\ life' = [life EXCEPT ![t] = "done"]
           /\ UNCHANGED ckpt
  <2>1. /\ ckpt' = ckpt /\ (Own(t)' <=> Own(t)) /\ life'[t] = "done" /\ faults' > 0 /\ faults' \in 0..MaxFaults
    BY <1>2, <1>5, TaskAssumption DEF TaskIInv, TaskTypeOK, Fault, Own
  <2>2. TaskTypeOK'
    BY <2>1, <1>5 DEF TaskIInv, TaskTypeOK, LifeSave, LifePc
  <2>3. Local(t)'
    BY <1>1, <1>2, <2>1
    DEF Local, Presence, LifecycleKnows, CancelKnows, VmKnown, Follows, Holding, Early
  <2>4. Claims(t)' => Claims(t)
    BY <1>1, <1>2, <2>1 DEF Claims
  <2> QED BY <2>2, <2>3, <2>4
<1> QED BY <1>4, <1>5 DEF LifeSave

\* Staging and collecting move the lifecycle on and touch nothing else.
LEMMA StageOrCollectLocal ==
  ASSUME TaskIInv, NEW t \in Task, StageOrCollect(t)
  PROVE  TaskTypeOK' /\ Local(t)' /\ (Claims(t)' => Claims(t))
<1>1. /\ Local(t) /\ life[t] \in {"stage", "collect"} /\ task[t] # None
      /\ lock[t] # "life"
  BY DEF TaskIInv, StageOrCollect, Local, Presence, LifecycleKnows, Transitions
<1>2. /\ task'[t] = task[t] /\ id'[t] = id[t] /\ ckpt' = ckpt /\ cancel'[t] = cancel[t] /\ up' = up
      /\ lock'[t] = lock[t]
      /\ (Own(t)' <=> Own(t)) /\ VmName(t)' = VmName(t) /\ Snapshot(t)' = Snapshot(t)
  BY DEF StageOrCollect, Own, VmName, Snapshot
<1>3. /\ faults' \in 0..MaxFaults /\ faults <= faults'
      /\ life'[t] \in {"to_provisioning", "to_completed", "done"}
      /\ life'[t] = "to_provisioning" => life[t] = "stage"
      /\ life'[t] = "to_completed" => life[t] = "collect"
      /\ life' \in [Task -> LifePc]
  BY <1>1, TaskAssumption DEF TaskIInv, TaskTypeOK, StageOrCollect, Fault, LifePc
<1>4. TaskTypeOK'
  BY <1>3 DEF TaskIInv, TaskTypeOK, StageOrCollect
<1>5. faults \in Nat /\ faults' \in Nat
  BY <1>3, TaskAssumption DEF TaskIInv, TaskTypeOK
<1>6. Local(t)'
  BY <1>1, <1>2, <1>3, <1>5
  DEF Local, Presence, LifecycleKnows, CancelKnows, VmKnown, Follows, Holding, Early, Before
<1>7. Claims(t)' => Claims(t)
  BY <1>1, <1>2, <1>3 DEF Claims
<1> QED BY <1>4, <1>6, <1>7

\* ExecuteProvider: the same, for the three ways a provider ends.
LEMMA ExecuteProviderLocal ==
  ASSUME TaskIInv, NEW t \in Task, ExecuteProvider(t)
  PROVE  TaskTypeOK' /\ Local(t)' /\ (Claims(t)' => Claims(t))
<1>1. /\ Local(t) /\ life[t] = "execute" /\ task[t] # None
      /\ lock[t] # "life"
  BY DEF TaskIInv, ExecuteProvider, Local, Presence, LifecycleKnows, Transitions
<1>2. /\ task'[t] = task[t] /\ id'[t] = id[t] /\ ckpt' = ckpt /\ cancel'[t] = cancel[t] /\ up' = up
      /\ lock'[t] = lock[t] /\ faults' = faults
      /\ (Own(t)' <=> Own(t)) /\ VmName(t)' = VmName(t) /\ Snapshot(t)' = Snapshot(t)
  BY DEF ExecuteProvider, Own, VmName, Snapshot
<1>3. /\ life'[t] \in {"to_completing", "to_failed", "to_failed_preserved"}
      /\ life' \in [Task -> LifePc]
  BY <1>1 DEF TaskIInv, TaskTypeOK, ExecuteProvider, LifePc
<1>4. TaskTypeOK'
  BY <1>3 DEF TaskIInv, TaskTypeOK, ExecuteProvider
<1>5. Local(t)'
  BY <1>1, <1>2, <1>3
  DEF Local, Presence, LifecycleKnows, CancelKnows, VmKnown, Follows, Holding, Early, Before
<1>6. Claims(t)' => Claims(t)
  BY <1>1, <1>2, <1>3 DEF Claims
<1> QED BY <1>4, <1>5, <1>6

\* provision_vm: the only step that makes a claim, on a name that was free.
LEMMA ProvisionVmLocal ==
  ASSUME TaskIInv, NEW t \in Task, ProvisionVm(t)
  PROVE  /\ TaskTypeOK' /\ Local(t)' /\ vms \subseteq vms'
         /\ Claims(t)' => Claims(t) \/ (VmName(t) \notin vms /\ VmName(t) \in vms')
<1>1. /\ Local(t) /\ life[t] = "provision" /\ task[t] # None
      /\ lock[t] # "life"
  BY DEF TaskIInv, ProvisionVm, Local, Presence, LifecycleKnows, Transitions
<1>2. /\ task'[t] = task[t] /\ id'[t] = id[t] /\ ckpt' = ckpt /\ cancel'[t] = cancel[t] /\ up' = up
      /\ lock'[t] = lock[t]
      /\ (Own(t)' <=> Own(t)) /\ VmName(t)' = VmName(t) /\ Snapshot(t)' = Snapshot(t)
  BY DEF ProvisionVm, Own, VmName, Snapshot
<1>3. /\ faults' \in 0..MaxFaults /\ faults <= faults'
      /\ life'[t] \in {"to_ready", "done"}
      /\ life'[t] = "to_ready" => VmName(t) \notin vms /\ VmName(t) \in vms'
      /\ life' \in [Task -> LifePc]
      /\ vms' \in SUBSET Vm /\ vms \subseteq vms'
  <2>1. VmName(t) \in Vm
    BY <1>1, HasId, TaskAssumption DEF TaskIInv, VmName
  <2> QED BY <1>1, <2>1, TaskAssumption DEF TaskIInv, TaskTypeOK, ProvisionVm, Fault, LifePc
<1>4. TaskTypeOK'
  BY <1>3 DEF TaskIInv, TaskTypeOK, ProvisionVm
<1>5. faults \in Nat /\ faults' \in Nat
  BY <1>3, TaskAssumption DEF TaskIInv, TaskTypeOK
<1>6. Local(t)'
  BY <1>1, <1>2, <1>3, <1>5
  DEF Local, Presence, LifecycleKnows, CancelKnows, VmKnown, Follows, Holding, Early, Before
<1>7. Claims(t)' => Claims(t) \/ life'[t] = "to_ready"
  BY <1>1, <1>2, <1>3 DEF Claims
<1> QED BY <1>3, <1>4, <1>6, <1>7

\* cleanup_vm of the lifecycle: the task gives its claim up, and whatever is
\* destroyed is what it had a claim on.
LEMMA LifeCleanupLocal ==
  ASSUME TaskIInv, NEW t \in Task, LifeCleanup(t)
  PROVE  /\ TaskTypeOK' /\ Local(t)'
         /\ Claims(t)' => Claims(t)
         /\ vms' = vms \/ (vms' = vms \ {VmName(t)} /\ Claims(t) /\ ~Claims(t)')
<1>1. /\ Local(t) /\ life[t] = "cleanup" /\ task[t] # None
      /\ lock[t] = "free"
  BY DEF TaskIInv, LifeCleanup, Local, Presence
<1>2. /\ task'[t] = task[t] /\ id'[t] = id[t] /\ ckpt' = ckpt /\ cancel'[t] = cancel[t] /\ up' = up
      /\ lock'[t] = lock[t] /\ life'[t] = "done"
      /\ (Own(t)' <=> Own(t)) /\ VmName(t)' = VmName(t) /\ Snapshot(t)' = Snapshot(t)
  BY DEF LifeCleanup, TaskIInv, TaskTypeOK, Own, VmName, Snapshot
<1>3. /\ faults' \in 0..MaxFaults /\ faults <= faults'
      /\ vms' = vms \/ (task[t].vm /\ vms' = vms \ {VmName(t)})
  BY TaskAssumption DEF TaskIInv, TaskTypeOK, LifeCleanup, Destroy, Fault
<1>4. TaskTypeOK'
  BY <1>3 DEF TaskIInv, TaskTypeOK, LifeCleanup, LifePc
<1>5. faults \in Nat /\ faults' \in Nat
  BY <1>3, TaskAssumption DEF TaskIInv, TaskTypeOK
<1>6. Local(t)'
  BY <1>1, <1>2, <1>3, <1>5
  DEF Local, Presence, LifecycleKnows, CancelKnows, VmKnown, Follows, Holding, Early, Before
<1>7. ~Claims(t)'
  BY <1>1, <1>2 DEF Claims, Local, LifecycleKnows, CancelKnows, Before, Holding, Snapshot
<1>8. task[t].vm => Claims(t)
  BY <1>1 DEF Claims
<1> QED BY <1>3, <1>4, <1>6, <1>7, <1>8

\* cancel_task takes the lock and changes the state; a task that had its VM
\* keeps its claim until the cancellation has cleaned up.
LEMMA CancelTransitionLocal ==
  ASSUME TaskIInv, NEW t \in Task, CancelTransition(t)
  PROVE  TaskTypeOK' /\ Local(t)' /\ (Claims(t)' => Claims(t))
<1>1. /\ Local(t) /\ lock[t] = "free" /\ task[t] # None /\ up
      /\ task[t] \in TaskRecord /\ task[t].state \in Active
      /\ life[t] \notin {"none", "submitted"}
  BY DEF TaskIInv, TaskTypeOK, CancelTransition, Local, Presence, CanTransition
<1>2. /\ task' = [task EXCEPT ![t].state = "cancelled"]
      /\ task'[t] = [state |-> "cancelled", vm |-> task[t].vm]
      /\ task'[t].state = "cancelled" /\ task'[t].vm = task[t].vm
      /\ task'[t] \in TaskRecord /\ task'[t] # None
  BY <1>1, RecordIsTask DEF CancelTransition, TaskIInv, TaskTypeOK, TaskRecord, Active, Terminal
<1>3. /\ id'[t] = id[t] /\ ckpt' = ckpt /\ cancel'[t] = "locked" /\ lock'[t] = "cancel"
      /\ life'[t] = life[t] /\ faults' = faults /\ up' = up
      /\ (Own(t)' <=> Own(t)) /\ VmName(t)' = VmName(t)
  BY DEF CancelTransition, TaskIInv, TaskTypeOK, Own, VmName
<1>4. TaskTypeOK'
  <2>1. task' \in [Task -> TaskRecord \cup {None}]
    BY <1>2 DEF TaskIInv, TaskTypeOK
  <2> QED BY <2>1 DEF TaskIInv, TaskTypeOK, CancelTransition
<1>5. Own(t) => ckpt[id[t]].state \in Active
  <2>1. Own(t) => ckpt[id[t]] \in Checkpoint
    BY DEF Own, TaskIInv, TaskTypeOK
  <2>2. Own(t) /\ ckpt[id[t]].state # task[t].state => CanTransition(ckpt[id[t]].state, task[t].state)
    BY <1>1 DEF Local, Follows
  <2> QED BY <1>1, <2>1, <2>2 DEF CanTransition, Active, Checkpoint
<1>6. life[t] # "cleanup"
  BY <1>1 DEF Local, LifecycleKnows, Before, Active
<1>7. Local(t)'
  BY <1>1, <1>2, <1>3, <1>5, <1>6
  DEF Local, Presence, LifecycleKnows, CancelKnows, VmKnown, Follows, Holding, Early,
      CanTransition
<1>8. Claims(t)' => Claims(t)
  BY <1>1, <1>2, <1>3 DEF Claims, Local, VmKnown, Holding, Active
<1> QED BY <1>4, <1>7, <1>8

\* The save of the cancelled state, whether or not the file was written.
LEMMA CancelSaveLocal ==
  ASSUME TaskIInv, NEW t \in Task, CancelSave(t)
  PROVE  TaskTypeOK' /\ Local(t)' /\ (Claims(t)' => Claims(t))
<1>1. /\ Local(t) /\ lock[t] = "cancel" /\ cancel[t] = "locked" /\ task[t] # None
      /\ task[t] \in TaskRecord
      /\ task[t].state = "cancelled"
  BY DEF TaskIInv, TaskTypeOK, CancelSave, Local, Presence, CancelKnows
<1>2. /\ task'[t] = task[t] /\ life'[t] = life[t] /\ up' = up /\ lock'[t] = "free"
      /\ id'[t] = id[t] /\ VmName(t)' = VmName(t) /\ Snapshot(t)' = Snapshot(t)
      /\ id[t] \in Id /\ id[t] # None
  BY <1>1, HasId DEF CancelSave, TaskIInv, TaskTypeOK, VmName, Snapshot, Local, Presence
<1>3. life[t] # "cleanup"
  BY <1>1 DEF Local, LifecycleKnows, Before
<1>4. CASE /\ ckpt' = [ckpt EXCEPT ![id[t]] = Snapshot(t)]
           /\ cancel' = [cancel EXCEPT ![t] = "cleanup"]
           /\ UNCHANGED faults
  <2>1. /\ ckpt'[id[t]] = Snapshot(t) /\ cancel'[t] = "cleanup" /\ faults' = faults
        /\ Snapshot(t).state = task[t].state /\ Snapshot(t).vm = task[t].vm /\ Own(t)'
    BY <1>1, <1>2, <1>4, SnapshotIsCheckpoint DEF TaskIInv, TaskTypeOK, Own
  <2>2. TaskTypeOK'
    BY <1>1, <1>2, <1>4, SnapshotIsCheckpoint DEF TaskIInv, TaskTypeOK, CancelSave
  <2>3. Local(t)'
    BY <1>1, <1>2, <1>3, <2>1
    DEF Local, Presence, LifecycleKnows, CancelKnows, VmKnown, Follows, Holding, Early
  <2>4. Claims(t)' => Claims(t)
    BY <1>1, <1>2, <2>1 DEF Claims, Holding
  <2> QED BY <2>2, <2>3, <2>4
<1>5. CASE /\ Fault
           /\ cancel' = [cancel EXCEPT ![t] = "done"]
           /\ UNCHANGED ckpt
  <2>1. /\ ckpt' = ckpt /\ (Own(t)' <=> Own(t)) /\ cancel'[t] = "done" /\ faults' > 0 /\ faults' \in 0..MaxFaults
    BY <1>2, <1>5, TaskAssumption DEF TaskIInv, TaskTypeOK, Fault, Own
  <2>2. TaskTypeOK'
    BY <2>1, <1>5 DEF TaskIInv, TaskTypeOK, CancelSave
  <2>3. Local(t)'
    BY <1>1, <1>2, <1>3, <2>1
    DEF Local, Presence, LifecycleKnows, CancelKnows, VmKnown, Follows, Holding, Early
  <2>4. Claims(t)' => Claims(t)
    BY <1>1, <1>2, <2>1 DEF Claims
  <2> QED BY <2>2, <2>3, <2>4
<1> QED BY <1>4, <1>5 DEF CancelSave

\* cleanup_vm of a cancellation: the claim it gives up is its own, and a VM
\* the task has not learnt of is left to the lifecycle.
LEMMA CancelCleanupLocal ==
  ASSUME TaskIInv, NEW t \in Task, CancelCleanup(t)
  PROVE  /\ TaskTypeOK' /\ Local(t)'
         /\ Claims(t)' => Claims(t)
         /\ vms' = vms \/ (vms' = vms \ {VmName(t)} /\ Claims(t) /\ ~Claims(t)')
<1>1. /\ Local(t) /\ cancel[t] = "cleanup" /\ task[t] # None
      /\ lock[t] = "free" /\ task[t].state = "cancelled"
      /\ (Own(t) => ckpt[id[t]].state = "cancelled")
  BY DEF TaskIInv, CancelCleanup, Local, Presence, CancelKnows
<1>2. /\ task'[t] = task[t] /\ id'[t] = id[t] /\ ckpt' = ckpt /\ cancel'[t] = "done" /\ up' = up
      /\ lock'[t] = lock[t] /\ life'[t] = life[t]
      /\ (Own(t)' <=> Own(t)) /\ VmName(t)' = VmName(t) /\ Snapshot(t)' = Snapshot(t)
  BY DEF CancelCleanup, TaskIInv, TaskTypeOK, Own, VmName, Snapshot
<1>3. /\ faults' \in 0..MaxFaults /\ faults <= faults'
      /\ vms' = vms \/ (task[t].vm /\ vms' = vms \ {VmName(t)})
  BY TaskAssumption DEF TaskIInv, TaskTypeOK, CancelCleanup, Destroy, Fault
<1>4. TaskTypeOK'
  BY <1>3 DEF TaskIInv, TaskTypeOK, CancelCleanup
<1>5. faults \in Nat /\ faults' \in Nat
  BY <1>3, TaskAssumption DEF TaskIInv, TaskTypeOK
<1>6. Local(t)'
  BY <1>1, <1>2, <1>3, <1>5
  DEF Local, Presence, LifecycleKnows, CancelKnows, VmKnown, Follows, Holding, Early, Before
<1>7. task[t].vm => Claims(t) /\ ~Claims(t)'
  BY <1>1, <1>2 DEF Claims, Local, LifecycleKnows, VmKnown, Before, Holding, Early
<1>8. Claims(t)' => Claims(t)
  BY <1>1, <1>2 DEF Claims
<1> QED BY <1>3, <1>4, <1>6, <1>7, <1>8

\* A crash keeps the checkpoints, and with them the claims made on disk.
LEMMA CrashInv ==
  ASSUME TaskIInv, Crash
  PROVE  TaskIInv'
<1>1. /\ up' = FALSE /\ id' = id /\ ckpt' = ckpt /\ vms \subseteq vms'
      /\ faults' > 0 /\ faults' \in 0..MaxFaults
      /\ \A u \in Task : task'[u] = None /\ lock'[u] = "free"
      /\ \A u \in Task : life'[u] = IF life[u] = "none" THEN "none" ELSE "dead"
      /\ \A u \in Task : cancel'[u] = IF cancel[u] = "none" THEN "none" ELSE "dead"
  BY TaskAssumption DEF Crash, Fault, TaskIInv, TaskTypeOK
<1>2. TaskTypeOK'
  <2>1. /\ task' \in [Task -> TaskRecord \cup {None}]
        /\ ckpt' \in [Id -> Checkpoint \cup {None}] /\ id' \in [Task -> Id \cup {None}]
        /\ lock' \in [Task -> {"free", "life", "cancel"}]
    BY DEF Crash, TaskIInv, TaskTypeOK
  <2>2. life' \in [Task -> LifePc]
    BY DEF Crash, LifePc
  <2>3. cancel' \in [Task -> {"none", "locked", "cleanup", "done", "dead"}]
    BY DEF Crash
  <2>4. vms' \in SUBSET Vm
    <3>1. ASSUME NEW t \in Task, life[t] = "provision"
          PROVE  VmName(t) \in Vm
      BY <3>1, HasId, TaskAssumption DEF TaskIInv, VmName
    <3> QED BY <3>1 DEF Crash, TaskIInv, TaskTypeOK
  <2> QED BY <1>1, <2>1, <2>2, <2>3, <2>4 DEF TaskTypeOK
<1>3. ASSUME NEW u \in Task
      PROVE  Local(u)' /\ (Claims(u)' => Claims(u)) /\ CleanedUp(u)' /\ VmName(u)' = VmName(u)
  <2>1. Local(u) /\ (Own(u)' <=> Own(u)) /\ VmName(u)' = VmName(u)
    BY <1>1 DEF TaskIInv, Own, VmName
  <2>2. Local(u)'
    BY <1>1, <2>1
    DEF Local, Presence, LifecycleKnows, CancelKnows, VmKnown, Follows, Holding, Early
  <2>3. Claims(u)' => Claims(u)
    BY <1>1, <2>1 DEF Claims
  <2>4. CleanedUp(u)'
    BY <1>1 DEF CleanedUp
  <2> QED BY <2>1, <2>2, <2>3, <2>4
<1>4. ClaimsExclusive'
  BY <1>1, <1>3 DEF TaskIInv, ClaimsExclusive
<1>5. CheckpointsNamed'
  BY <1>1 DEF TaskIInv, CheckpointsNamed
<1> QED BY <1>2, <1>3, <1>4, <1>5 DEF TaskIInv

\* A restart puts in memory nothing, or what the files say: no claim that was
\* not there.
LEMMA RestartInv ==
  ASSUME TaskIInv, Restart
  PROVE  TaskIInv'
<1>1. /\ up' = TRUE /\ id' = id /\ ckpt' = ckpt /\ vms' = vms /\ faults' = faults
      /\ life' = life /\ cancel' = cancel /\ lock' = lock /\ ~up
  BY DEF Restart
<1>2. ASSUME NEW u \in Task
      PROVE  \/ task'[u] = None
             \/ /\ Own(u) /\ task'[u] # None /\ task'[u] \in TaskRecord
                /\ task'[u].state = ckpt[id[u]].state /\ task'[u].vm = ckpt[id[u]].vm
  <2>1. task[u] = None
    BY <1>1 DEF TaskIInv, Local, Presence
  <2>2. Own(u) => /\ ckpt[id[u]] \in Checkpoint
                  /\ ckpt[id[u]].state \in Active \cup Terminal /\ ckpt[id[u]].vm \in BOOLEAN
    BY DEF TaskIInv, TaskTypeOK, Own, Checkpoint
  <2>3. Own(u) => /\ [state |-> ckpt[id[u]].state, vm |-> ckpt[id[u]].vm] # None
                  /\ [state |-> ckpt[id[u]].state, vm |-> ckpt[id[u]].vm] \in TaskRecord
    BY <2>2, RecordIsTask
  <2> QED BY <2>1, <2>3 DEF Restart
<1>3. TaskTypeOK'
  <2>1. task' \in [Task -> TaskRecord \cup {None}]
    <3>1. task' = [t \in Task |-> task'[t]]
      BY DEF Restart, TaskIInv, TaskTypeOK
    <3> QED BY <1>2, <3>1
  <2> QED BY <1>1, <2>1 DEF TaskIInv, TaskTypeOK
<1>4. ASSUME NEW u \in Task
      PROVE  Local(u)' /\ (Claims(u)' => Claims(u)) /\ CleanedUp(u)' /\ VmName(u)' = VmName(u)
  <2>1. /\ Local(u) /\ CleanedUp(u) /\ life[u] \in {"none", "dead"} /\ lock[u] = "free"
        /\ cancel[u] \in {"none", "dead"} /\ (Own(u) => id[u] # None)
    BY <1>1 DEF TaskIInv, Local, Presence, Own
  <2>2. (Own(u)' <=> Own(u)) /\ VmName(u)' = VmName(u) /\ (Alone(u)' <=> Alone(u))
    BY <1>1 DEF Own, VmName, Alone
  <2>3. Local(u)'
    BY <1>1, <1>2, <2>1, <2>2
    DEF Local, Presence, LifecycleKnows, CancelKnows, VmKnown, Follows, Holding, Early
  <2>4. Claims(u)' => Claims(u)
    BY <1>1, <1>2, <2>1, <2>2 DEF Claims
  <2>5. CleanedUp(u)'
    BY <1>1, <2>1, <2>2 DEF CleanedUp
  <2> QED BY <2>2, <2>3, <2>4, <2>5
<1>5. ClaimsExclusive'
  BY <1>1, <1>4 DEF TaskIInv, ClaimsExclusive
<1>6. CheckpointsNamed'
  BY <1>1 DEF TaskIInv, CheckpointsNamed
<1> QED BY <1>3, <1>4, <1>5, <1>6 DEF TaskIInv

\* What a step of the actors of task t leaves alone: the other tasks, and
\* their checkpoints unless t's becomes the one of the id.
OnlyTask(t) ==
  /\ up' = up /\ faults <= faults'
  /\ \A u \in Task \ {t} :
       /\ task'[u] = task[u] /\ id'[u] = id[u] /\ life'[u] = life[u]
       /\ cancel'[u] = cancel[u] /\ lock'[u] = lock[u]
       /\ Own(u)' => Own(u) /\ ckpt'[id[u]] = ckpt[id[u]]
  /\ life'[t] # "none" /\ id'[t] # None
  /\ life[t] # "none" => id'[t] = id[t]

TaskStep(t) == SubmitSave(t) \/ SubmitInsert(t) \/ Lifecycle(t) \/ CancelTask(t)

\* A step of one task that saves nothing, and one that does.
LEMMA OnlyTaskUnsaved ==
  ASSUME NEW t \in Task, up' = up, faults <= faults', id' = id, ckpt' = ckpt,
         \A u \in Task \ {t} : /\ task'[u] = task[u] /\ life'[u] = life[u]
                               /\ cancel'[u] = cancel[u] /\ lock'[u] = lock[u],
         life'[t] # "none", id[t] # None
  PROVE  OnlyTask(t)
BY DEF OnlyTask, Own

LEMMA OnlyTaskSaved ==
  ASSUME TaskTypeOK, NEW t \in Task, up' = up, faults <= faults',
         \A u \in Task \ {t} : /\ task'[u] = task[u] /\ life'[u] = life[u]
                               /\ cancel'[u] = cancel[u] /\ lock'[u] = lock[u]
                               /\ id'[u] = id[u],
         NEW i \in Id, NEW c \in Checkpoint, c.of = t,
         ckpt' = [ckpt EXCEPT ![i] = c],
         life'[t] # "none", id'[t] # None, life[t] # "none" => id'[t] = id[t]
  PROVE  OnlyTask(t)
<1>1. ASSUME NEW u \in Task \ {t}, Own(u)'
      PROVE  Own(u) /\ ckpt'[id[u]] = ckpt[id[u]]
  <2>1. id[u] \in Id /\ id'[u] = id[u]
    BY <1>1 DEF Own, TaskTypeOK
  <2>2. id[u] # i
    BY <1>1, <2>1 DEF Own, TaskTypeOK
  <2> QED BY <1>1, <2>1, <2>2 DEF Own, TaskTypeOK
<1> QED BY <1>1 DEF OnlyTask

\* A step of one task changes that task and perhaps the VMs.
LEMMA StepIsOfOneTask ==
  ASSUME TaskTypeOK, NEW t \in Task, TaskStep(t),
         life[t] = "none" <=> id[t] = None,
         lock[t] = "life" => life[t] \in Transitions,
         task[t] # None => life[t] # "none",
         task[t] = None => lock[t] = "free" /\ cancel[t] \in {"none", "dead"}
  PROVE  OnlyTask(t)
<1>1. faults \in Nat /\ (task[t] # None => task[t] \in TaskRecord)
  BY TaskAssumption DEF TaskTypeOK
<1>2. CASE SubmitSave(t)
  <2> DEFINE new == [of |-> t, state |-> "pending", vm |-> FALSE]
  <2>1. new \in Checkpoint /\ new.of = t
    BY RecordIsCheckpoint DEF Active
  <2>2. PICK i \in Id : id' = [id EXCEPT ![t] = i] /\ ckpt' = [ckpt EXCEPT ![i] = new]
    BY <1>2 DEF SubmitSave
  <2> HIDE DEF new
  <2>3. /\ id'[t] # None /\ up' = up /\ faults <= faults' /\ life'[t] # "none" /\ life[t] = "none"
        /\ \A u \in Task \ {t} : /\ task'[u] = task[u] /\ life'[u] = life[u]
                                 /\ cancel'[u] = cancel[u] /\ lock'[u] = lock[u]
                                 /\ id'[u] = id[u]
    BY <1>1, <1>2, <2>2, NoneAssumption DEF SubmitSave, TaskTypeOK
  <2> QED BY <2>1, <2>2, <2>3, OnlyTaskSaved
<1>3. CASE SubmitInsert(t)
  BY <1>1, <1>3, OnlyTaskUnsaved DEF SubmitInsert, TaskTypeOK
<1>4. CASE LifeTransition(t)
  BY <1>1, <1>4, OnlyTaskUnsaved DEF LifeTransition, TaskTypeOK, Transitions
<1>5. CASE LifeSave(t) \/ CancelSave(t)
  <2>1. /\ task[t] # None /\ life[t] # "none" /\ id[t] \in Id /\ id[t] # None /\ id' = id
        /\ task[t] \in TaskRecord
    BY <1>1, <1>5 DEF LifeSave, CancelSave, TaskTypeOK
  <2>2. life'[t] # "none"
    <3>1. CASE LifeSave(t)
      <4>1. AfterSave(life[t]) # "none"
        BY <3>1 DEF LifeSave, AfterSave, Transitions
      <4> QED BY <3>1, <4>1 DEF LifeSave, TaskTypeOK
    <3>2. CASE CancelSave(t)
      BY <2>1, <3>2 DEF CancelSave
    <3> QED BY <1>5, <3>1, <3>2
  <2>3. /\ up' = up /\ faults <= faults'
        /\ \A u \in Task \ {t} : /\ task'[u] = task[u] /\ life'[u] = life[u]
                                 /\ cancel'[u] = cancel[u] /\ lock'[u] = lock[u]
    BY <1>1, <1>5 DEF LifeSave, CancelSave, TaskTypeOK, Fault
  <2>4. ckpt' = ckpt \/ ckpt' = [ckpt EXCEPT ![id[t]] = Snapshot(t)]
    BY <1>5 DEF LifeSave, CancelSave
  <2>5. CASE ckpt' = ckpt
    BY <2>1, <2>2, <2>3, <2>5, OnlyTaskUnsaved
  <2>6. CASE ckpt' = [ckpt EXCEPT ![id[t]] = Snapshot(t)]
    <3>1. Snapshot(t) \in Checkpoint /\ Snapshot(t).of = t
      BY <2>1, SnapshotIsCheckpoint
    <3> QED BY <2>1, <2>2, <2>3, <2>6, <3>1, OnlyTaskSaved
  <2> QED BY <2>4, <2>5, <2>6
<1>6. CASE StageOrCollect(t)
  BY <1>1, <1>6, OnlyTaskUnsaved DEF StageOrCollect, TaskTypeOK, Fault
<1>7. CASE ProvisionVm(t)
  BY <1>1, <1>7, OnlyTaskUnsaved DEF ProvisionVm, TaskTypeOK, Fault
<1>8. CASE ExecuteProvider(t)
  BY <1>1, <1>8, OnlyTaskUnsaved DEF ExecuteProvider, TaskTypeOK
<1>9. CASE LifeCleanup(t)
  BY <1>1, <1>9, OnlyTaskUnsaved DEF LifeCleanup, TaskTypeOK, Destroy, Fault
<1>10. CASE CancelTransition(t)
  BY <1>1, <1>10, OnlyTaskUnsaved DEF CancelTransition, TaskTypeOK
<1>11. CASE CancelCleanup(t)
  BY <1>1, <1>11, OnlyTaskUnsaved DEF CancelCleanup, TaskTypeOK, Destroy, Fault
<1> QED
  BY <1>2, <1>3, <1>4, <1>5, <1>6, <1>7, <1>8, <1>9, <1>10, <1>11
  DEF TaskStep, Lifecycle, CancelTask

\* CleanedUp survives a step of task t that leaves the VMs alone or removes
\* one, when it survives for t itself; and a step that creates a VM, since
\* its task is then submitted under that name.
LEMMA CleanedUpOthers ==
  ASSUME TaskIInv, NEW t \in Task, TaskStep(t), OnlyTask(t), faults' \in Nat,
         TaskTypeOK', vms' \subseteq vms \cup {VmName(t)'},
         NEW u \in Task, u # t
  PROVE  CleanedUp(u)'
<1> SUFFICES ASSUME faults' = 0, Alone(u)', Own(u)'
             PROVE  CleanedUp(u)'
  BY DEF CleanedUp
<1>1. /\ life'[u] = life[u] /\ id'[u] = id[u] /\ cancel'[u] = cancel[u] /\ faults = 0
      /\ CleanedUp(u) /\ Own(u) /\ ckpt'[id[u]] = ckpt[id[u]] /\ VmName(u)' = VmName(u)
  BY TaskAssumption DEF OnlyTask, TaskIInv, TaskTypeOK, VmName
<1>2. id'[t] \in Id /\ id[u] \in Id
  BY <1>1 DEF OnlyTask, TaskTypeOK, TaskIInv, Own
<1>3. VmName(u) # VmName(t)'
  BY <1>1, <1>2 DEF Alone
<1>4. Alone(u)
  <2> SUFFICES ASSUME NEW w \in Task \ {u}, {id[u], id[w]} \subseteq Id
               PROVE  VmName(w) # VmName(u)
    BY DEF Alone
  <2>1. id[w] # None
    BY NoneAssumption
  <2>2. id'[w] = id[w]
    <3>1. CASE w = t
      BY <2>1, <3>1 DEF OnlyTask, TaskIInv, Local, Presence
    <3>2. CASE w # t
      BY <3>2 DEF OnlyTask
    <3> QED BY <3>1, <3>2
  <2> QED BY <1>1, <2>2 DEF Alone, VmName
<1> QED BY <1>1, <1>3, <1>4 DEF CleanedUp

\* For the task that steps: what is finished and cleaned was cleaned by this
\* very step, or before it.
LEMMA CleanedUpSelf ==
  ASSUME TaskIInv, NEW t \in Task, TaskStep(t), OnlyTask(t)
  PROVE  CleanedUp(t)'
<1>1. faults \in Nat /\ CleanedUp(t) /\ Local(t)
  BY TaskAssumption DEF TaskIInv, TaskTypeOK
<1>2. CASE SubmitSave(t)
  <2>1. ckpt'[id'[t]] = [of |-> t, state |-> "pending", vm |-> FALSE]
    BY <1>2 DEF SubmitSave, TaskIInv, TaskTypeOK
  <2> QED BY <2>1 DEF CleanedUp
<1>3. CASE SubmitInsert(t)
  <2>1. Own(t)' => ckpt'[id'[t]] = [of |-> t, state |-> "pending", vm |-> FALSE]
    BY <1>1, <1>3 DEF SubmitInsert, Local, Presence, Own
  <2> QED BY <2>1 DEF CleanedUp
<1>4. CASE ~SubmitSave(t) /\ ~SubmitInsert(t)
  <2>1. id' = id
    BY <1>4
    DEF TaskStep, Lifecycle, LifeTransition, LifeSave, StageOrCollect, ProvisionVm, ExecuteProvider,
        LifeCleanup, CancelTask, CancelTransition, CancelSave, CancelCleanup
  <2>2. (Alone(t)' <=> Alone(t)) /\ VmName(t)' = VmName(t)
    BY <2>1 DEF Alone, VmName
  <2>3. ckpt' = ckpt => (Own(t)' <=> Own(t)) /\ ckpt'[id'[t]] = ckpt[id[t]]
    BY <2>1 DEF Own
  <2>4. CASE LifeTransition(t)
    <3>1. CASE life'[t] = life[t]
      BY <1>1, <2>2, <2>3, <2>4, <3>1 DEF LifeTransition, CleanedUp
    <3>2. CASE life'[t] # life[t]
      <4>1. ~CanTransition(task[t].state, Goal(life[t]))
        BY <2>4, <3>2 DEF LifeTransition
      <4>2. life[t] \in Transitions /\ lock[t] = "free" /\ task[t] # None
        BY <1>1, <2>4 DEF LifeTransition, Local, Presence, Transitions
      <4>3. task[t].state = "cancelled"
        BY <1>1, <4>1, <4>2
        DEF Local, LifecycleKnows, CanTransition, Transitions, Goal, Before, Active
      <4>4. faults = 0 /\ Own(t) => ckpt[id[t]].state = "cancelled"
        BY <1>1, <4>2, <4>3 DEF Local, Follows
      <4> QED BY <1>1, <2>2, <2>3, <2>4, <4>4 DEF LifeTransition, CleanedUp
    <3> QED BY <3>1, <3>2
  <2>5. CASE LifeSave(t)
    <3>1. CASE faults' = faults
      <4>1. /\ ckpt' = [ckpt EXCEPT ![id[t]] = Snapshot(t)] /\ life'[t] = AfterSave(life[t])
        BY <1>1, <2>5, <3>1 DEF LifeSave, TaskIInv, TaskTypeOK, Fault
      <4>2. life[t] \in Transitions /\ task[t].state = Goal(life[t]) /\ id[t] \in Id
        BY <1>1, <2>5, HasId DEF LifeSave, Local, LifecycleKnows, Transitions, TaskIInv
      <4>3. ckpt'[id'[t]].state = Goal(life[t])
        BY <2>1, <4>1, <4>2 DEF TaskIInv, TaskTypeOK, Snapshot
      <4>4. Goal(life[t]) # "cancelled"
        BY <4>2 DEF Transitions, Goal
      <4> QED BY <4>1, <4>2, <4>3, <4>4 DEF CleanedUp, AfterSave, Transitions, Goal
    <3>2. CASE faults' # faults
      BY <1>1, <2>5, <3>2 DEF LifeSave, Fault, CleanedUp
    <3> QED BY <3>1, <3>2
  <2>6. CASE StageOrCollect(t)
    <3>1. life[t] \in {"stage", "collect"} /\ task[t] # None /\ lock[t] # "life"
      BY <1>1, <2>6 DEF StageOrCollect, Local, Presence, LifecycleKnows, Transitions
    <3> QED BY <1>1, <2>2, <2>3, <2>6, <3>1 DEF StageOrCollect, CleanedUp, Fault, TaskIInv, TaskTypeOK
  <2>7. CASE ProvisionVm(t)
    <3>1. task[t] # None /\ lock[t] # "life" /\ life[t] = "provision" /\ ckpt' = ckpt
      BY <1>1, <2>7 DEF ProvisionVm, Local, Presence, LifecycleKnows, Transitions
    <3>2. Own(t) => ~ckpt[id[t]].vm
      BY <1>1, <3>1 DEF Local, VmKnown, Early
    <3>3. Own(t) => ckpt[id[t]].state \notin {"completed", "failed"}
      BY <1>1, <3>1, <3>2 DEF Local, VmKnown
    <3> QED BY <2>3, <3>1, <3>2, <3>3 DEF CleanedUp
  <2>8. CASE ExecuteProvider(t)
    BY <1>1, <2>2, <2>3, <2>8 DEF ExecuteProvider, CleanedUp, TaskIInv, TaskTypeOK
  <2>9. CASE LifeCleanup(t)
    <3>1. CASE faults' = faults
      <4>1. task[t].vm
        BY <1>1, <2>9 DEF LifeCleanup, Local, Presence, LifecycleKnows, VmKnown, Before
      <4>2. vms' = vms \ {VmName(t)}
        BY <1>1, <2>9, <3>1, <4>1 DEF LifeCleanup, Destroy, Fault
      <4> QED BY <2>2, <4>2 DEF CleanedUp
    <3>2. CASE faults' # faults
      BY <1>1, <2>9, <3>2 DEF LifeCleanup, Destroy, Fault, CleanedUp
    <3> QED BY <3>1, <3>2
  <2>10. CASE CancelTransition(t)
    BY <1>1, <2>2, <2>3, <2>10 DEF CancelTransition, CleanedUp, TaskIInv, TaskTypeOK
  <2>11. CASE CancelSave(t)
    <3>1. CASE faults' = faults
      <4>1. /\ ckpt' = [ckpt EXCEPT ![id[t]] = Snapshot(t)] /\ cancel'[t] = "cleanup"
            /\ task[t].state = "cancelled" /\ task[t] # None
        BY <1>1, <2>11, <3>1 DEF CancelSave, TaskIInv, TaskTypeOK, Fault, Local, CancelKnows, Presence
      <4>2. id[t] \in Id
        BY <1>1, <4>1, HasId DEF TaskIInv, Local, Presence
      <4>3. ckpt'[id'[t]].state = "cancelled"
        BY <2>1, <4>1, <4>2 DEF TaskIInv, TaskTypeOK, Snapshot
      <4> QED BY <4>1, <4>3 DEF CleanedUp
    <3>2. CASE faults' # faults
      BY <1>1, <2>11, <3>2 DEF CancelSave, Fault, CleanedUp
    <3> QED BY <3>1, <3>2
  <2>12. CASE CancelCleanup(t)
    <3>1. CASE faults' = faults /\ task[t].vm
      <4>1. vms' = vms \ {VmName(t)}
        BY <1>1, <2>12, <3>1 DEF CancelCleanup, Destroy, Fault
      <4> QED BY <2>2, <4>1 DEF CleanedUp
    <3>2. CASE ~task[t].vm
      <4>1. task[t] # None /\ (Own(t) => ckpt[id[t]].state = "cancelled") /\ ckpt' = ckpt
        BY <1>1, <2>12 DEF CancelCleanup, Local, Presence, CancelKnows
      <4>2. Own(t) => ~ckpt[id[t]].vm
        BY <1>1, <3>2, <4>1 DEF Local, VmKnown
      <4> QED BY <2>3, <4>1, <4>2 DEF CleanedUp
    <3>3. CASE faults' # faults
      BY <1>1, <2>12, <3>3 DEF CancelCleanup, Destroy, Fault, CleanedUp
    <3> QED BY <3>1, <3>2, <3>3
  <2> QED
    BY <1>4, <2>4, <2>5, <2>6, <2>7, <2>8, <2>9, <2>10, <2>11, <2>12
    DEF TaskStep, Lifecycle, CancelTask
<1> QED BY <1>2, <1>3, <1>4

\* A checkpoint stays one of a task submitted with its id.
LEMMA NamesKept ==
  ASSUME TaskTypeOK, CheckpointsNamed, NEW t \in Task, TaskStep(t),
         life[t] = "none" <=> id[t] = None,
         task[t] # None => life[t] # "none",
         lock[t] # "free" => task[t] # None,
         cancel[t] = "locked" => task[t] # None
  PROVE  CheckpointsNamed'
<1>1. CASE SubmitSave(t)
  <2> DEFINE new == [of |-> t, state |-> "pending", vm |-> FALSE]
  <2>1. PICK i \in Id : id' = [id EXCEPT ![t] = i] /\ ckpt' = [ckpt EXCEPT ![i] = new]
    BY <1>1 DEF SubmitSave
  <2>2. new.of = t
    OBVIOUS
  <2> HIDE DEF new
  <2>3. ASSUME NEW j \in Id, ckpt'[j] # None
        PROVE  id'[ckpt'[j].of] = j
    <3>1. CASE j = i
      BY <2>1, <2>2, <3>1 DEF TaskTypeOK
    <3>2. CASE j # i
      <4>1. ckpt'[j] = ckpt[j] /\ ckpt[j].of \in Task /\ id[ckpt[j].of] = j
        BY <2>1, <2>3, <3>2 DEF TaskTypeOK, Checkpoint, CheckpointsNamed
      <4>2. ckpt[j].of # t
        BY <1>1, <4>1, NoneAssumption DEF SubmitSave
      <4> QED BY <2>1, <4>1, <4>2 DEF TaskTypeOK
    <3> QED BY <3>1, <3>2
  <2> QED BY <2>3 DEF CheckpointsNamed
<1>2. CASE LifeSave(t) \/ CancelSave(t)
  <2>1. /\ task[t] # None /\ id[t] \in Id /\ id' = id
        /\ ckpt' = ckpt \/ ckpt' = [ckpt EXCEPT ![id[t]] = Snapshot(t)]
    BY <1>2 DEF LifeSave, CancelSave, TaskTypeOK
  <2>2. Snapshot(t).of = t
    BY DEF Snapshot
  <2> QED BY <2>1, <2>2 DEF CheckpointsNamed, TaskTypeOK
<1>3. CASE ~SubmitSave(t) /\ ~LifeSave(t) /\ ~CancelSave(t)
  <2>1. id' = id /\ ckpt' = ckpt
    BY <1>3
    DEF TaskStep, SubmitInsert, Lifecycle, LifeTransition, StageOrCollect, ProvisionVm, ExecuteProvider,
        LifeCleanup, CancelTask, CancelTransition, CancelCleanup
  <2> QED BY <2>1 DEF CheckpointsNamed
<1> QED BY <1>1, <1>2, <1>3

\* A step of one task preserves the invariant.
LEMMA TaskStepInv ==
  ASSUME TaskIInv, NEW t \in Task, TaskStep(t)
  PROVE  TaskIInv'
<1>1. OnlyTask(t)
  <2>1. Presence(t) /\ LifecycleKnows(t) /\ TaskTypeOK
    BY DEF TaskIInv, Local
  <2> QED BY <2>1, StepIsOfOneTask DEF Presence, LifecycleKnows
<1>2. /\ TaskTypeOK' /\ Local(t)'
      /\ \/ vms \subseteq vms' /\ (Claims(t)' => Claims(t) \/ VmName(t) \notin vms)
            /\ (Claims(t)' => Claims(t) \/ VmName(t) \in vms')
         \/ vms' = vms \ {VmName(t)} /\ Claims(t) /\ ~Claims(t)'
  <2>1. CASE SubmitSave(t)
    BY <2>1, SubmitSaveLocal DEF SubmitSave
  <2>2. CASE SubmitInsert(t)
    BY <2>2, SubmitInsertLocal DEF SubmitInsert
  <2>3. CASE LifeTransition(t)
    BY <2>3, LifeTransitionLocal DEF LifeTransition
  <2>4. CASE LifeSave(t)
    BY <2>4, LifeSaveLocal DEF LifeSave
  <2>5. CASE StageOrCollect(t)
    BY <2>5, StageOrCollectLocal DEF StageOrCollect
  <2>6. CASE ProvisionVm(t)
    BY <2>6, ProvisionVmLocal
  <2>7. CASE ExecuteProvider(t)
    BY <2>7, ExecuteProviderLocal DEF ExecuteProvider
  <2>8. CASE LifeCleanup(t)
    BY <2>8, LifeCleanupLocal
  <2>9. CASE CancelTransition(t)
    BY <2>9, CancelTransitionLocal DEF CancelTransition
  <2>10. CASE CancelSave(t)
    BY <2>10, CancelSaveLocal DEF CancelSave
  <2>11. CASE CancelCleanup(t)
    BY <2>11, CancelCleanupLocal
  <2> QED
    BY <2>1, <2>2, <2>3, <2>4, <2>5, <2>6, <2>7, <2>8, <2>9, <2>10, <2>11
    DEF TaskStep, Lifecycle, CancelTask
<1>3. ASSUME NEW u \in Task, u # t
      PROVE  Local(u)' /\ (Claims(u)' => Claims(u)) /\ VmName(u)' = VmName(u)
  <2>1. faults' \in Nat
    BY <1>2, TaskAssumption DEF TaskTypeOK
  <2> QED BY <1>1, <1>3, <2>1, OtherTaskUntouched DEF OnlyTask, TaskIInv
<1>4. ClaimsExclusive'
  <2>1. Claims(t)' => VmName(t)' = VmName(t)
    <3>1. CASE SubmitSave(t)
      <4>1. ~Claims(t)
        BY <3>1 DEF SubmitSave, Claims, TaskIInv, Local, Presence, Own
      <4> QED BY <3>1, <4>1, SubmitSaveLocal
    <3>2. CASE ~SubmitSave(t)
      BY <3>2
      DEF VmName, TaskStep, SubmitInsert, Lifecycle, LifeTransition, LifeSave, StageOrCollect,
          ProvisionVm, ExecuteProvider, LifeCleanup, CancelTask, CancelTransition, CancelSave, CancelCleanup
    <3> QED BY <3>1, <3>2
  <2> QED BY <1>2, <1>3, <2>1 DEF ClaimsExclusive, TaskIInv
<1>5. ASSUME NEW u \in Task
      PROVE  CleanedUp(u)'
  <2>1. faults' \in Nat
    BY <1>2, TaskAssumption DEF TaskTypeOK
  <2>2. vms' \subseteq vms \cup {VmName(t)'}
    <3>1. CASE ProvisionVm(t)
      BY <3>1 DEF ProvisionVm, VmName
    <3>2. CASE ~ProvisionVm(t)
      BY <3>2
      DEF TaskStep, SubmitSave, SubmitInsert, Lifecycle, LifeTransition, LifeSave,
          StageOrCollect, ExecuteProvider, LifeCleanup, CancelTask,
          CancelTransition, CancelSave, CancelCleanup, Destroy
    <3> QED BY <3>1, <3>2
  <2> QED BY <1>1, <1>2, <2>1, <2>2, CleanedUpSelf, CleanedUpOthers
<1>6. CheckpointsNamed'
  <2>1. Presence(t) /\ CancelKnows(t) /\ TaskTypeOK /\ CheckpointsNamed
    BY DEF TaskIInv, Local
  <2> QED BY <2>1, NamesKept DEF Presence, CancelKnows
<1> QED BY <1>2, <1>3, <1>4, <1>5, <1>6 DEF TaskIInv

\* A step in which nothing changes.
LEMMA TaskStutterInv == TaskIInv /\ UNCHANGED taskVars => TaskIInv'
BY DEF taskVars, TaskIInv, TaskTypeOK, CheckpointsNamed, Local, Presence, LifecycleKnows,
       CancelKnows, VmKnown, Follows, ClaimsExclusive, Claims, CleanedUp, Alone, Own, Snapshot, VmName

\* The invariant of the orchestrator, for any tasks, ids and VM names: tasks,
\* checkpoints and VMs stay in step across resubmissions of an id, faults,
\* cancels and restarts.
THEOREM TaskInvariant == TaskSpec => []TaskInv
<1>1. TaskIInv /\ [TaskNext]_taskVars => TaskIInv'
  <2>1. ASSUME TaskIInv, TaskNext
        PROVE  TaskIInv'
    <3>1. ASSUME NEW t \in Task, TaskStep(t)
          PROVE  TaskIInv'
      BY <2>1, <3>1, TaskStepInv
    <3> QED BY <2>1, <3>1, CrashInv, RestartInv DEF TaskNext, TaskStep
  <2> QED BY <2>1, TaskStutterInv
<1> QED BY <1>1, TaskInitInv, TaskInvForm, PTL DEF TaskSpec

\* A saved end is never overwritten for its task: whoever holds the lock found
\* its own checkpoint in an active state when it took it, so what replaces an
\* end is a checkpoint of another task of the id.
THEOREM SavedEndIsFinal == TaskSpec => CheckpointFinal
<1> DEFINE Final == \A i \in Id :
              ckpt[i] # None /\ ckpt[i].state \in Terminal /\ ckpt'[i] # ckpt[i]
                => /\ ckpt'[i].of # ckpt[i].of
                   /\ life[ckpt'[i].of] = "none" \/ lock[ckpt'[i].of] # "free"
<1>1. TaskInv /\ [TaskNext]_taskVars => [Final]_taskVars
  <2> SUFFICES ASSUME TaskIInv, TaskNext, NEW i \in Id, ckpt[i] # None,
                      ckpt[i].state \in Terminal, ckpt'[i] # ckpt[i]
               PROVE  /\ ckpt'[i].of # ckpt[i].of
                      /\ life[ckpt'[i].of] = "none" \/ lock[ckpt'[i].of] # "free"
    BY TaskInvForm DEF taskVars
  <2>1. /\ ckpt[i].of \in Task /\ id[ckpt[i].of] = i /\ i # None
        /\ ckpt \in [Id -> Checkpoint \cup {None}]
    BY NoneAssumption DEF TaskIInv, TaskTypeOK, CheckpointsNamed, Checkpoint
  <2>2. PICK u \in Task : TaskStep(u)
    BY DEF TaskNext, TaskStep, Crash, Restart
  <2>3. Local(u)
    BY DEF TaskIInv
  <2>4. CASE SubmitSave(u)
    <3>1. ckpt'[i] = [of |-> u, state |-> "pending", vm |-> FALSE] /\ life[u] = "none"
      BY <2>1, <2>4 DEF SubmitSave
    <3>2. ckpt[i].of # u
      BY <2>1, <2>3, <3>1 DEF Local, Presence
    <3> QED BY <3>1, <3>2
  <2>5. CASE LifeSave(u) \/ CancelSave(u)
    <3>1. id[u] = i /\ ckpt'[i] = Snapshot(u) /\ lock[u] # "free"
      BY <2>1, <2>3, <2>5 DEF LifeSave, CancelSave, Local, CancelKnows
    <3>2. Snapshot(u).of = u
      BY DEF Snapshot
    <3>3. ASSUME ckpt[i].of = u
          PROVE  FALSE
      <4>1. Own(u)
        BY <2>1, <3>1, <3>3 DEF Own
      <4>2. ~LifeSave(u)
        BY <2>3, <3>1, <4>1 DEF LifeSave, Local, LifecycleKnows, Transitions, Before, Terminal
      <4>3. ~CancelSave(u)
        BY <2>3, <3>1, <4>1 DEF CancelSave, Local, CancelKnows, Active, Terminal
      <4> QED BY <2>5, <4>2, <4>3
    <3> QED BY <3>1, <3>2, <3>3
  <2>6. CASE ~SubmitSave(u) /\ ~LifeSave(u) /\ ~CancelSave(u)
    BY <2>2, <2>6
    DEF TaskStep, SubmitInsert, Lifecycle, LifeTransition, StageOrCollect, ProvisionVm,
        ExecuteProvider, LifeCleanup, CancelTask, CancelTransition, CancelCleanup
  <2> QED BY <2>4, <2>5, <2>6
<1> QED BY <1>1, TaskInvariant, PTL DEF TaskSpec, CheckpointFinal

-----------------------------------------------------------------------------
(* The lifecycle next to the reconciler and the cleanup service.           *)

\* A fault of a sweep changes nothing that the tasks' invariant speaks of.
LEMMA TaskQuietInv ==
  ASSUME TaskIInv, Quiet, UNCHANGED <<ckpt, vms>>, faults' = faults \/ Fault
  PROVE  TaskIInv'
<1>1. faults \in Nat /\ faults' \in 0..MaxFaults /\ (faults' = 0 => faults = 0) /\ (faults > 0 => faults' > 0)
  BY TaskAssumption DEF TaskIInv, TaskTypeOK, Fault
<1>2. UNCHANGED <<up, id, task, ckpt, life, cancel, lock, vms>>
  BY DEF Quiet
<1>3. TaskTypeOK' /\ CheckpointsNamed'
  BY <1>1, <1>2 DEF TaskIInv, TaskTypeOK, CheckpointsNamed
<1>4. ASSUME NEW t \in Task
      PROVE  /\ Local(t)' /\ CleanedUp(t)' /\ (Claims(t)' <=> Claims(t))
             /\ VmName(t)' = VmName(t)
  <2>1. Local(t) /\ CleanedUp(t)
    BY DEF TaskIInv
  <2>2. /\ (Own(t)' <=> Own(t)) /\ Snapshot(t)' = Snapshot(t) /\ VmName(t)' = VmName(t)
        /\ (Alone(t)' <=> Alone(t))
    BY <1>2 DEF Own, Snapshot, VmName, Alone
  <2>3. Local(t)'
    BY <1>1, <1>2, <2>1, <2>2 DEF Local, Presence, LifecycleKnows, CancelKnows, VmKnown, Follows
  <2>4. CleanedUp(t)' /\ (Claims(t)' <=> Claims(t))
    BY <1>1, <1>2, <2>1, <2>2 DEF CleanedUp, Claims
  <2> QED BY <2>2, <2>3, <2>4
<1>5. ClaimsExclusive'
  BY <1>2, <1>4 DEF TaskIInv, ClaimsExclusive
<1> QED BY <1>3, <1>4, <1>5 DEF TaskIInv

\* As long as no sweep and nothing outside has changed a checkpoint or a VM,
\* the tasks' invariant holds next to the sweeps as it does without them:
\* reading, planning and failing take nothing from it.
THEOREM InStepUntilSwept == RecSpec => []OwnActorsInStep
<1> DEFINE Inv == outside \/ TaskIInv
<1>1. RecInit => Inv
  BY TaskInitInv DEF RecInit
<1>2. Inv /\ [RecNext]_recVars => Inv'
  <2> SUFFICES ASSUME outside \/ TaskIInv, [RecNext]_recVars, ~outside'
               PROVE  TaskIInv'
    OBVIOUS
  <2>1. ~outside
    BY DEF RecNext, Reconcile, RecLoad, RecPlan, RecDestroy, RecFailLoad, RecFailSave, RecDrop, RecEnd,
           Sweep, SweepList, SweepTask, SweepVm, HostLosesVm, RecCrash, recVars
  <2>2. CASE \E t \in Task : TaskStep(t)
    BY <2>1, <2>2, TaskStepInv
  <2>3. CASE Restart \/ RecCrash
    BY <2>1, <2>3, RestartInv, CrashInv DEF RecCrash
  <2>4. CASE Reconcile
    <3>1. Quiet /\ UNCHANGED <<ckpt, vms>> /\ (faults' = faults \/ Fault)
      BY <2>4 DEF Reconcile, RecLoad, RecPlan, RecDestroy, RecFailLoad, RecFailSave, RecDrop, RecEnd
    <3> QED BY <2>1, <3>1, TaskQuietInv
  <2>5. CASE Sweep \/ \E v \in Vm : HostLosesVm(v)
    <3>1. Quiet /\ UNCHANGED <<ckpt, vms>> /\ (faults' = faults \/ Fault)
      BY <2>5 DEF Sweep, SweepList, SweepTask, SweepVm, HostLosesVm
    <3> QED BY <2>1, <3>1, TaskQuietInv
  <2>6. CASE UNCHANGED recVars
    BY <2>1, <2>6, TaskStutterInv DEF recVars
  <2> QED BY <2>2, <2>3, <2>4, <2>5, <2>6 DEF RecNext, TaskStep
<1>3. Inv => OwnActorsInStep
  BY TaskInvForm DEF OwnActorsInStep
<1> QED BY <1>1, <1>2, <1>3, PTL DEF RecSpec

\* What RecInv says of one task's actors and checkpoint.
Kept(t) == ActorsHaveTask(t) /\ SavedEndHolds(t)

\* What a step of task t may do to it: the invariant of its actors holds on,
\* and it never comes to keep its VM again.
Steady(t) == Kept(t)' /\ (PastKeeping(t) => PastKeeping(t)')

\* submit_task, both halves.
LEMMA RecSubmit ==
  ASSUME TaskTypeOK, NEW t \in Task, Kept(t), SubmitSave(t) \/ SubmitInsert(t)
  PROVE  TaskTypeOK' /\ Steady(t)
<1>1. CASE SubmitSave(t)
  <2> DEFINE new == [of |-> t, state |-> "pending", vm |-> FALSE]
  <2>1. new \in Checkpoint /\ new # None /\ new.state = "pending"
    BY RecordIsCheckpoint DEF Active
  <2>2. PICK i \in Id : id' = [id EXCEPT ![t] = i] /\ ckpt' = [ckpt EXCEPT ![i] = new]
    BY <1>1 DEF SubmitSave
  <2> HIDE DEF new
  <2>3. /\ ckpt'[id'[t]] = new /\ life'[t] = "submitted" /\ life[t] = "none" /\ task'[t] = task[t]
        /\ cancel'[t] = cancel[t] /\ lock'[t] = lock[t] /\ up' = up /\ up /\ id'[t] # None
    BY <1>1, <2>2, NoneAssumption DEF SubmitSave, TaskTypeOK
  <2>4. TaskTypeOK'
    BY <1>1, <2>1, <2>2 DEF SubmitSave, TaskTypeOK, LifePc
  <2> QED BY <2>1, <2>3, <2>4 DEF Steady, Kept, ActorsHaveTask, SavedEndHolds, PastKeeping, Leaving,
                                  Terminal, Transitions
<1>2. CASE SubmitInsert(t)
  <2> DEFINE new == [state |-> "pending", vm |-> FALSE]
  <2>1. new \in TaskRecord /\ new # None /\ new.state = "pending"
    BY RecordIsTask DEF Active
  <2>2. /\ task'[t] = new /\ life'[t] = "to_staging" /\ life[t] = "submitted"
        /\ UNCHANGED <<up, id, ckpt, cancel, lock>> /\ up /\ (Own(t)' <=> Own(t))
    BY <1>2 DEF SubmitInsert, TaskTypeOK, Own
  <2>3. TaskTypeOK'
    BY <1>2, <2>1 DEF SubmitInsert, TaskTypeOK, LifePc
  <2> HIDE DEF new
  <2>4. Own(t) => ckpt[id[t]].state \in {"pending", "failed"}
    BY <2>2 DEF Kept, ActorsHaveTask
  <2> QED BY <2>1, <2>2, <2>3, <2>4
          DEF Steady, Kept, ActorsHaveTask, SavedEndHolds, PastKeeping, Leaving, Terminal, Transitions
<1> QED BY <1>1, <1>2

\* What a transition does to a task that is past keeping its VM, or has ended.
LEMMA TransitionsLeave ==
  ASSUME NEW from, NEW to, CanTransition(from, to)
  PROVE  /\ from \in Leaving => to \in Leaving
         /\ from \notin Terminal
BY DEF CanTransition, Leaving, Terminal, Active

\* A transition of the lifecycle: only the task in memory changes.
LEMMA RecLifeTransition ==
  ASSUME TaskTypeOK, NEW t \in Task, Kept(t), LifeTransition(t)
  PROVE  TaskTypeOK' /\ Steady(t)
<1>1. /\ life[t] \in Transitions /\ lock[t] = "free" /\ task[t] # None
      /\ life[t] \notin {"none", "submitted", "done", "dead"} /\ up
  BY DEF LifeTransition, Kept, ActorsHaveTask, Transitions, TaskTypeOK
<1>2. task[t] \in TaskRecord /\ task[t].state \in Active \cup Terminal /\ task[t].vm \in BOOLEAN
  BY <1>1 DEF TaskTypeOK, TaskRecord
<1>3. /\ cancel'[t] = cancel[t] /\ up' = up /\ (Own(t)' <=> Own(t))
      /\ UNCHANGED <<up, id, ckpt, cancel, vms, faults>>
  BY DEF LifeTransition, Own
<1> DEFINE known == task[t].vm \/ life[t] = "to_ready"
           goal == Goal(life[t])
<1>4. goal \in Active \cup Terminal /\ known \in BOOLEAN
  BY <1>1, <1>2 DEF Transitions, Goal, Active, Terminal
<1>5. CASE CanTransition(task[t].state, goal)
  <2> DEFINE new == [state |-> goal, vm |-> known]
  <2>1. new \in TaskRecord /\ new # None /\ new.state = goal
    BY <1>4, RecordIsTask
  <2>2. task' = [task EXCEPT ![t] = new] /\ lock' = [lock EXCEPT ![t] = "life"] /\ life' = life
    BY <1>5 DEF LifeTransition
  <2>3. (task[t].state \in Leaving => goal \in Leaving) /\ task[t].state \notin Terminal
    BY <1>5, TransitionsLeave
  <2> HIDE DEF new, goal
  <2>4. TaskTypeOK' /\ task'[t] = new /\ lock'[t] = "life" /\ life'[t] = life[t]
    BY <1>3, <2>1, <2>2 DEF TaskTypeOK
  <2> QED BY <1>1, <1>3, <2>1, <2>3, <2>4
          DEF Steady, Kept, ActorsHaveTask, SavedEndHolds, PastKeeping, Leaving, Terminal
<1>6. CASE ~CanTransition(task[t].state, goal)
  <2> DEFINE new == [state |-> task[t].state, vm |-> known]
  <2>1. new \in TaskRecord /\ new # None /\ new.state = task[t].state
    BY <1>2, <1>4, RecordIsTask
  <2>2. task' = [task EXCEPT ![t] = new] /\ life' = [life EXCEPT ![t] = "done"] /\ lock' = lock
    <3>1. task' = [task EXCEPT ![t].vm = known] /\ life' = [life EXCEPT ![t] = "done"] /\ lock' = lock
      BY <1>6 DEF LifeTransition
    <3>2. [task[t] EXCEPT !.vm = known] = new
      BY <1>2 DEF TaskRecord
    <3> QED BY <3>1, <3>2 DEF TaskTypeOK
  <2> HIDE DEF new, goal
  <2>3. TaskTypeOK' /\ task'[t] = new /\ lock'[t] = "free" /\ life'[t] = "done"
    BY <1>1, <1>3, <2>1, <2>2 DEF TaskTypeOK, LifePc
  <2> QED BY <1>1, <1>3, <2>1, <2>3
          DEF Steady, Kept, ActorsHaveTask, SavedEndHolds, PastKeeping
<1> QED BY <1>5, <1>6

\* cancel_task takes the lock and changes the state.
LEMMA RecCancelTransition ==
  ASSUME TaskTypeOK, NEW t \in Task, Kept(t), CancelTransition(t)
  PROVE  TaskTypeOK' /\ Steady(t)
<1>1. task[t] # None /\ up /\ lock[t] = "free" /\ CanTransition(task[t].state, "cancelled")
      /\ life[t] \notin {"none", "submitted"}
  BY DEF CancelTransition, Kept, ActorsHaveTask
<1>2. task[t] \in TaskRecord /\ task[t].vm \in BOOLEAN /\ task[t].state \notin Terminal
  BY <1>1, TransitionsLeave DEF TaskTypeOK, TaskRecord
<1> DEFINE new == [state |-> "cancelled", vm |-> task[t].vm]
<1>3. new \in TaskRecord /\ new # None /\ new.state = "cancelled"
  BY <1>2, RecordIsTask DEF Terminal
<1>4. /\ task' = [task EXCEPT ![t] = new] /\ lock' = [lock EXCEPT ![t] = "cancel"]
      /\ cancel' = [cancel EXCEPT ![t] = "locked"] /\ UNCHANGED <<up, id, ckpt, life, vms, faults>>
  <2>1. task' = [task EXCEPT ![t].state = "cancelled"]
    BY DEF CancelTransition
  <2>2. [task[t] EXCEPT !.state = "cancelled"] = new
    BY <1>2 DEF TaskRecord
  <2> QED BY <2>1, <2>2 DEF CancelTransition, TaskTypeOK
<1> HIDE DEF new
<1>5. /\ TaskTypeOK' /\ task'[t] = new /\ lock'[t] = "cancel" /\ cancel'[t] = "locked"
      /\ life'[t] = life[t] /\ id' = id /\ ckpt' = ckpt /\ (Own(t)' <=> Own(t)) /\ up' = up
  BY <1>3, <1>4 DEF TaskTypeOK, Own
<1> QED BY <1>1, <1>2, <1>3, <1>5
        DEF Steady, Kept, ActorsHaveTask, SavedEndHolds, PastKeeping, Leaving, Terminal

\* The saves of the lifecycle and of a cancellation, over whatever the
\* checkpoint has become: an end that is not a fail_task's is not rewritten.
LEMMA RecSave ==
  ASSUME TaskTypeOK, NEW t \in Task, Kept(t), LifeSave(t) \/ CancelSave(t)
  PROVE  /\ TaskTypeOK' /\ Steady(t)
         /\ Own(t) /\ ckpt[id[t]].state \in Terminal \ {"failed"} =>
              ckpt'[id[t]] # None /\ ckpt'[id[t]].state = ckpt[id[t]].state
<1>1. task[t] # None /\ task[t] \in TaskRecord /\ task'[t] = task[t] /\ up' = up /\ up
      /\ life[t] \notin {"none", "submitted"}
      /\ task' = task /\ vms' = vms /\ id' = id /\ id[t] \in Id /\ id[t] # None
  BY DEF LifeSave, CancelSave, Kept, ActorsHaveTask, TaskTypeOK
<1>10. /\ Snapshot(t) \in Checkpoint /\ Snapshot(t) # None /\ Snapshot(t).of = t
      /\ Snapshot(t).state = task[t].state
  BY <1>1, SnapshotIsCheckpoint
<1>2. /\ lock' = [lock EXCEPT ![t] = "free"] /\ lock'[t] = "free"
      /\ ckpt' = [ckpt EXCEPT ![id[t]] = Snapshot(t)] \/ ckpt' = ckpt
      /\ faults' \in 0..MaxFaults
  BY TaskAssumption DEF LifeSave, CancelSave, TaskTypeOK, Fault
<1>3. /\ ckpt' \in [Id -> Checkpoint \cup {None}]
      /\ \/ ckpt'[id[t]] = Snapshot(t) /\ Own(t)'
         \/ ckpt'[id[t]] = ckpt[id[t]] /\ (Own(t)' <=> Own(t))
  BY <1>1, <1>10, <1>2 DEF TaskTypeOK, Own
<1>4. /\ life' \in [Task -> LifePc] /\ cancel' \in [Task -> {"none", "locked", "cleanup", "done", "dead"}]
      /\ life'[t] \notin {"none", "submitted"}
  <2>1. CASE LifeSave(t)
    <3>1. life[t] \in Transitions
      BY <2>1 DEF LifeSave, Kept, ActorsHaveTask
    <3>2. AfterSave(life[t]) \in LifePc /\ AfterSave(life[t]) \notin {"none", "submitted"}
      BY <3>1 DEF AfterSave, Transitions, LifePc
    <3>3. cancel' = cancel /\ (life' = [life EXCEPT ![t] = AfterSave(life[t])] \/ life' = [life EXCEPT ![t] = "done"])
      BY <2>1 DEF LifeSave
    <3> QED BY <3>2, <3>3 DEF TaskTypeOK, LifePc
  <2>2. CASE CancelSave(t)
    BY <1>1, <2>2 DEF CancelSave, TaskTypeOK
  <2> QED BY <2>1, <2>2
<1>5. TaskTypeOK'
  BY <1>1, <1>2, <1>3, <1>4 DEF TaskTypeOK
<1>6. ActorsHaveTask(t)'
  <2>1. cancel'[t] # "locked"
    <3>1. CASE LifeSave(t)
      BY <3>1 DEF LifeSave, Kept, ActorsHaveTask
    <3>2. CASE CancelSave(t)
      BY <3>2 DEF CancelSave, TaskTypeOK
    <3> QED BY <3>1, <3>2
  <2> QED BY <1>1, <1>2, <1>4, <2>1 DEF ActorsHaveTask, Kept
<1>7. PastKeeping(t) => PastKeeping(t)'
  BY <1>1, <1>10, <1>3, <1>4 DEF PastKeeping
<1>8. SavedEndHolds(t)'
  <2>1. CASE ckpt'[id[t]] = Snapshot(t) /\ Own(t)'
    BY <1>1, <1>10, <1>4, <2>1 DEF SavedEndHolds, PastKeeping
  <2>2. CASE ckpt'[id[t]] = ckpt[id[t]] /\ (Own(t)' <=> Own(t))
    BY <1>1, <1>7, <2>2 DEF Kept, SavedEndHolds
  <2> QED BY <1>3, <2>1, <2>2
<1>9. Own(t) /\ ckpt[id[t]].state \in Terminal \ {"failed"} =>
         ckpt'[id[t]] # None /\ ckpt'[id[t]].state = ckpt[id[t]].state
  BY <1>1, <1>10, <1>3 DEF Kept, SavedEndHolds, Own
<1> QED BY <1>5, <1>6, <1>7, <1>8, <1>9 DEF Steady, Kept

\* The steps of a lifecycle and of a cancellation that leave task and
\* checkpoint alone.
LEMMA RecScript ==
  ASSUME TaskTypeOK, NEW t \in Task, Kept(t),
         StageOrCollect(t) \/ ProvisionVm(t) \/ ExecuteProvider(t) \/ LifeCleanup(t) \/ CancelCleanup(t)
  PROVE  TaskTypeOK' /\ Steady(t)
<1>1. UNCHANGED <<up, id, task, ckpt, lock>> /\ (Own(t)' <=> Own(t))
  BY DEF StageOrCollect, ProvisionVm, ExecuteProvider, LifeCleanup, CancelCleanup, Own
<1>2. /\ faults' \in 0..MaxFaults /\ vms' \in SUBSET Vm
  <2>1. ProvisionVm(t) => VmName(t) \in Vm
    BY TaskAssumption DEF ProvisionVm, VmName, Kept, ActorsHaveTask, TaskTypeOK
  <2> QED
  BY <2>1, TaskAssumption
  DEF TaskTypeOK, StageOrCollect, ProvisionVm, ExecuteProvider, LifeCleanup, CancelCleanup, Destroy, Fault
<1>3. CASE StageOrCollect(t) \/ ProvisionVm(t) \/ ExecuteProvider(t) \/ LifeCleanup(t)
  <2>1. /\ cancel' = cancel /\ life' \in [Task -> LifePc]
        /\ life[t] \notin {"none", "submitted", "done", "dead"} /\ life[t] \notin Transitions
        /\ life'[t] \notin {"none", "submitted"}
    BY <1>3 DEF StageOrCollect, ProvisionVm, ExecuteProvider, LifeCleanup, TaskTypeOK, LifePc, Transitions
  <2>2. task[t] # None /\ lock[t] # "life"
    BY <2>1 DEF Kept, ActorsHaveTask
  <2>3. TaskTypeOK'
    BY <1>1, <1>2, <2>1 DEF TaskTypeOK
  <2>4. up
    BY <2>2 DEF Kept, ActorsHaveTask
  <2> QED BY <1>1, <2>1, <2>2, <2>3, <2>4 DEF Steady, Kept, ActorsHaveTask, SavedEndHolds, PastKeeping
<1>4. CASE CancelCleanup(t)
  <2>1. life' = life /\ cancel[t] = "cleanup" /\ cancel' = [cancel EXCEPT ![t] = "done"]
    BY <1>4 DEF CancelCleanup
  <2>2. task[t] # None
    BY <2>1 DEF Kept, ActorsHaveTask
  <2>3. TaskTypeOK'
    BY <1>1, <1>2, <2>1 DEF TaskTypeOK
  <2> QED BY <1>1, <2>1, <2>2, <2>3 DEF Steady, Kept, ActorsHaveTask, SavedEndHolds, PastKeeping
<1> QED BY <1>3, <1>4

\* A step of one task, for every task: no task gives up the id it has.
LEMMA RecTaskStep ==
  ASSUME TaskTypeOK, CheckpointsNamed, \A u \in Task : Kept(u), NEW t \in Task, TaskStep(t)
  PROVE  /\ TaskTypeOK' /\ CheckpointsNamed'
         /\ \A u \in Task : Steady(u) /\ (id[u] # None => id'[u] = id[u])
<1>1. TaskTypeOK' /\ Steady(t)
  BY RecSubmit, RecLifeTransition, RecCancelTransition, RecSave, RecScript DEF TaskStep, Lifecycle, CancelTask
<1>2. /\ life[t] = "none" <=> id[t] = None
      /\ lock[t] = "life" => life[t] \in Transitions
      /\ task[t] # None => life[t] # "none"
      /\ task[t] = None => lock[t] = "free" /\ cancel[t] \in {"none", "dead"}
  BY DEF Kept, ActorsHaveTask
<1>3. OnlyTask(t)
  BY <1>2, StepIsOfOneTask
<1>4. CheckpointsNamed'
  BY <1>2, NamesKept
<1>5. ASSUME NEW u \in Task \ {t}
      PROVE  Steady(u) /\ id'[u] = id[u]
  <2>1. Kept(u)
    OBVIOUS
  <2>2. /\ task'[u] = task[u] /\ id'[u] = id[u] /\ life'[u] = life[u]
        /\ cancel'[u] = cancel[u] /\ lock'[u] = lock[u] /\ up' = up
        /\ Own(u)' => Own(u) /\ ckpt'[id[u]] = ckpt[id[u]]
    BY <1>3 DEF OnlyTask
  <2> QED BY <2>1, <2>2 DEF Steady, Kept, ActorsHaveTask, SavedEndHolds, PastKeeping
<1> QED BY <1>1, <1>2, <1>3, <1>4, <1>5 DEF OnlyTask

\* A crash keeps the checkpoints and nothing else.
LEMMA RecCrashSteady ==
  ASSUME TaskTypeOK, \A u \in Task : Kept(u), Crash
  PROVE  TaskTypeOK' /\ \A u \in Task : Steady(u)
<1>1. TaskTypeOK'
  <2>1. vms' \in SUBSET Vm
    <3>1. ASSUME NEW t \in Task, life[t] = "provision"
          PROVE  VmName(t) \in Vm
      BY <3>1, TaskAssumption DEF VmName, Kept, ActorsHaveTask, TaskTypeOK
    <3> QED BY <3>1 DEF Crash, TaskTypeOK
  <2>2. faults' \in 0..MaxFaults
    BY TaskAssumption DEF Crash, Fault, TaskTypeOK
  <2>3. life' \in [Task -> LifePc]
    BY DEF Crash, TaskTypeOK, LifePc
  <2>4. cancel' \in [Task -> {"none", "locked", "cleanup", "done", "dead"}]
    BY DEF Crash, TaskTypeOK
  <2> QED BY <2>1, <2>2, <2>3, <2>4 DEF Crash, TaskTypeOK
<1>2. ASSUME NEW u \in Task
      PROVE  Steady(u)
  <2>1. /\ up' = FALSE /\ task'[u] = None /\ lock'[u] = "free" /\ id' = id /\ ckpt' = ckpt
        /\ life'[u] \in {"none", "dead"} /\ (life'[u] = "none" => life[u] = "none")
        /\ cancel'[u] \in {"none", "dead"} /\ (life[u] = "none" => life'[u] = "none")
        /\ (Own(u)' <=> Own(u))
    BY DEF Crash, Own
  <2>2. Kept(u)
    OBVIOUS
  <2>3. PastKeeping(u) => PastKeeping(u)'
    BY <2>1 DEF PastKeeping
  <2>4. ActorsHaveTask(u)'
    BY <2>1, <2>2 DEF Kept, ActorsHaveTask, Transitions
  <2>5. SavedEndHolds(u)'
    BY <2>1, <2>2, <2>3 DEF Kept, SavedEndHolds
  <2> QED BY <2>3, <2>4, <2>5 DEF Steady, Kept
<1> QED BY <1>1, <1>2

\* A restart: what is in memory afterwards is what was on disk, or nothing.
LEMMA RecRestartSteady ==
  ASSUME TaskTypeOK, \A u \in Task : Kept(u), Restart
  PROVE  TaskTypeOK' /\ \A u \in Task : Steady(u)
<1>1. /\ up' = TRUE /\ ~up
      /\ UNCHANGED <<id, ckpt, life, cancel, lock, vms, faults>>
  BY DEF Restart
<1>2. ASSUME NEW u \in Task
      PROVE  /\ \/ task'[u] = None
                \/ /\ Own(u) /\ task'[u] # None /\ task'[u] \in TaskRecord
                   /\ task'[u].state = ckpt[id[u]].state
             /\ task[u] = None
  <2>1. task[u] = None
    BY <1>1 DEF Kept, ActorsHaveTask
  <2>2. Own(u) => ckpt[id[u]].state \in Active \cup Terminal /\ ckpt[id[u]].vm \in BOOLEAN
    BY DEF TaskTypeOK, Own, Checkpoint
  <2>3. Own(u) => /\ [state |-> ckpt[id[u]].state, vm |-> ckpt[id[u]].vm] # None
                  /\ [state |-> ckpt[id[u]].state, vm |-> ckpt[id[u]].vm] \in TaskRecord
    BY <2>2, RecordIsTask
  <2> QED BY <2>1, <2>3 DEF Restart
<1>3. TaskTypeOK'
  <2>1. task' = [t \in Task |-> task'[t]]
    BY DEF Restart, TaskTypeOK
  <2>2. task' \in [Task -> TaskRecord \cup {None}]
    BY <1>2, <2>1
  <2> QED BY <1>1, <2>2 DEF TaskTypeOK
<1>4. ASSUME NEW u \in Task
      PROVE  Steady(u)
  <2>1. Kept(u) /\ (Own(u)' <=> Own(u))
    BY <1>1 DEF Own
  <2>2. /\ life[u] \in {"none", "dead"} /\ lock[u] = "free" /\ cancel[u] \in {"none", "dead"}
        /\ (Own(u) => life[u] # "none")
    BY <1>1, <1>2, <2>1 DEF Kept, ActorsHaveTask, Own
  <2>3. PastKeeping(u) => PastKeeping(u)'
    BY <1>1, <1>2, <2>1 DEF PastKeeping
  <2>4. ActorsHaveTask(u)'
    BY <1>1, <1>2, <2>1, <2>2 DEF Kept, ActorsHaveTask
  <2>5. SavedEndHolds(u)'
    BY <1>1, <1>2, <2>1, <2>3 DEF Kept, SavedEndHolds
  <2> QED BY <2>3, <2>4, <2>5 DEF Steady, Kept
<1> QED BY <1>3, <1>4

\* What the sweeps do to a task: nothing, or its checkpoint is deleted or
\* replaced by another's, or it is recorded as failed.
LEMMA SweepsSteady ==
  ASSUME NEW t \in Task, Kept(t), Quiet,
         Own(t)' => \/ Own(t) /\ ckpt'[id[t]] = ckpt[id[t]]
                    \/ ckpt'[id[t]].state = "failed"
  PROVE  Steady(t)
<1>1. /\ up' = up /\ task'[t] = task[t] /\ life'[t] = life[t] /\ cancel'[t] = cancel[t]
      /\ lock'[t] = lock[t] /\ id'[t] = id[t]
  BY DEF Quiet
<1>2. PastKeeping(t) => PastKeeping(t)'
  BY <1>1 DEF PastKeeping, Leaving
<1>3. ActorsHaveTask(t)'
  BY <1>1 DEF Kept, ActorsHaveTask
<1>4. SavedEndHolds(t)'
  BY <1>1, <1>2 DEF Kept, SavedEndHolds, Terminal, Leaving
<1> QED BY <1>2, <1>3, <1>4 DEF Steady, Kept

\* RecInv in the form the proofs use, without the conjunct that follows.
RecIInv ==
  /\ RecTypeOK
  /\ CheckpointsNamed
  /\ \A t \in Task : Kept(t)
  /\ PlanFollowsRead

\* A VM planned to be destroyed belongs to no task that keeps it, unless the
\* task has overtaken what the reconciler read.
LEMMA PlanIsSafe ==
  ASSUME RecTypeOK, CheckpointsNamed, PlanFollowsRead
  PROVE  OnlyOvertakenVmPlanned
<1> SUFFICES ASSUME NEW i \in Id, StateOf(i) \in KeptStates, VmOf[i] \in rec.kill,
                    rec.snap[i] # None, rec.snap[i].of = ckpt[i].of
             PROVE  rec.snap[i].state \in {"pending", "staging", "provisioning", "failed"}
  BY DEF OnlyOvertakenVmPlanned
<1>1. /\ ckpt[i] # None /\ ckpt[i].state \in KeptStates /\ ckpt[i].of \in Task
      /\ id[ckpt[i].of] = i /\ i # None
  BY NoneAssumption DEF StateOf, StateIn, KeptStates, RecTypeOK, TaskTypeOK, Checkpoint, CheckpointsNamed
<1>2. ~PastKeeping(ckpt[i].of)
  BY <1>1 DEF PastKeeping, Own, KeptStates, Leaving
<1>3. StateIn(rec.snap[i]) = rec.snap[i].state /\ rec.snap[i].state \in Active \cup Terminal
  BY DEF StateIn, RecTypeOK, Checkpoint
<1>4. rec.snap[i].state \notin Leaving \ {"failed"} /\ rec.snap[i].state \notin ExpectedStates
  BY <1>2, <1>3 DEF PlanFollowsRead
<1> QED BY <1>3, <1>4 DEF Active, Terminal, Leaving, ExpectedStates

\* Both forms say the same.
LEMMA RecInvForm == RecInv <=> RecIInv
BY PlanIsSafe DEF RecInv, RecIInv, Kept

\* The parts of the reconciler's record.
LEMMA RecFields ==
  ASSUME RecTypeOK
  PROVE  /\ rec.snap \in [Id -> Checkpoint \cup {None}]
         /\ rec.kill \in SUBSET Vm /\ rec.fail \in SUBSET Id /\ rec.drop \in SUBSET Id
         /\ rec.failing \in Checkpoint \cup {None}
         /\ rec = [pc |-> rec.pc, snap |-> rec.snap, kill |-> rec.kill, fail |-> rec.fail,
                   failing |-> rec.failing, drop |-> rec.drop]
BY DEF RecTypeOK

RecRecord ==
  [pc : {"idle", "loaded", "act"}, snap : [Id -> Checkpoint \cup {None}],
   kill : SUBSET Vm, fail : SUBSET Id, failing : Checkpoint \cup {None}, drop : SUBSET Id]

\* An idle reconciler has read nothing and plans nothing.
LEMMA IdlePlansNothing ==
  /\ RecIdle \in RecRecord
  /\ rec' = RecIdle => PlanFollowsRead'
  /\ rec = RecIdle => PlanFollowsRead
<1>1. /\ RecIdle.pc = "idle" /\ RecIdle.kill = {} /\ RecIdle.failing = None
      /\ \A i \in Id : RecIdle.snap[i] = None
  BY DEF RecIdle
<1>2. RecIdle \in RecRecord
  BY DEF RecIdle, RecRecord
<1> QED BY <1>1, <1>2 DEF PlanFollowsRead, Leaving, StateIn, ExpectedStates

\* The plan stays behind what happens to the tasks, while the reconciler's
\* record is not touched or only shrinks.
LEMMA PlanKept ==
  ASSUME RecTypeOK, PlanFollowsRead, rec'.kill \subseteq rec.kill, rec'.snap = rec.snap,
         rec'.pc = rec.pc, rec'.failing # None => id'[rec'.failing.of] # None,
         \A t \in Task : Steady(t)
  PROVE  PlanFollowsRead'
<1>1. ASSUME NEW i \in Id, StateIn(rec.snap[i]) \in Leaving \ {"failed"}
      PROVE  PastKeeping(rec.snap[i].of)'
  <2>1. rec.snap[i] # None /\ rec.snap[i] \in Checkpoint
    BY <1>1 DEF StateIn, Leaving, RecTypeOK
  <2>2. rec.snap[i].of \in Task /\ PastKeeping(rec.snap[i].of)
    BY <1>1, <2>1 DEF Checkpoint, PlanFollowsRead
  <2>3. \A t \in Task : PastKeeping(t) => PastKeeping(t)'
    BY DEF Steady
  <2>4. rec'.snap[i].of = rec.snap[i].of
    OBVIOUS
  <2> QED BY <2>2, <2>3, <2>4 DEF PastKeeping, Own
<1> QED BY <1>1 DEF PlanFollowsRead, StateIn, PastKeeping, Own

\* load_all_tasks and the plan made from what it read and from virsh list.
LEMMA RecReadAndPlan ==
  ASSUME RecIInv, RecLoad \/ RecPlan \/ RecEnd
  PROVE  RecIInv'
<1>1. /\ TaskTypeOK /\ PlanFollowsRead /\ RecTypeOK /\ CheckpointsNamed
      /\ \A t \in Task : Kept(t)
  BY DEF RecIInv, RecTypeOK
<1>2. Quiet /\ ckpt' = ckpt /\ sweep' = sweep /\ vms' = vms /\ outside' = outside /\ id' = id
  BY DEF RecLoad, RecPlan, RecEnd, Quiet
<1>3. faults' \in 0..MaxFaults
  <2>1. faults' = faults \/ Fault
    BY DEF RecLoad, RecPlan, RecEnd
  <2> QED BY <1>1, <2>1, TaskAssumption DEF Fault, TaskTypeOK
<1>4. TaskTypeOK' /\ CheckpointsNamed'
  BY <1>1, <1>2, <1>3 DEF TaskTypeOK, Quiet, CheckpointsNamed
<1>5. \A t \in Task : Steady(t)
  <2>1. \A t \in Task : Own(t)' => Own(t) /\ ckpt'[id[t]] = ckpt[id[t]]
    BY <1>2 DEF Own
  <2> QED BY <1>1, <1>2, <2>1, SweepsSteady
<1>6. CASE RecLoad
  <2>1. rec' = [rec EXCEPT !.pc = "loaded", !.snap = ckpt] /\ rec.pc = "idle"
    BY <1>6 DEF RecLoad
  <2>2. ckpt \in [Id -> Checkpoint \cup {None}]
    BY <1>1 DEF TaskTypeOK
  <2>3. /\ rec'.pc = "loaded" /\ rec'.snap = ckpt /\ rec'.kill = rec.kill
        /\ rec'.failing = rec.failing /\ RecTypeOK'
    BY <1>1, <1>2, <1>4, <2>1, <2>2, RecFields DEF RecTypeOK
  <2>4. ASSUME NEW i \in Id, StateIn(ckpt[i]) \in Leaving \ {"failed"}
        PROVE  PastKeeping(ckpt[i].of)'
    <3>1. /\ ckpt[i] # None /\ ckpt[i].state \in Leaving \ {"failed"} /\ ckpt[i].of \in Task
          /\ id[ckpt[i].of] = i /\ i # None
      BY <1>1, <2>2, <2>4, NoneAssumption DEF StateIn, Leaving, Checkpoint, CheckpointsNamed
    <3>2. PastKeeping(ckpt[i].of)
      BY <1>1, <3>1 DEF Kept, SavedEndHolds, Own
    <3>3. \A t \in Task : PastKeeping(t) => PastKeeping(t)'
      BY <1>5 DEF Steady
    <3>4. ckpt'[i].of = ckpt[i].of
      BY <1>2
    <3> QED BY <3>1, <3>2, <3>3, <3>4 DEF PastKeeping, Own
  <2>5. PlanFollowsRead'
    BY <1>1, <1>2, <2>1, <2>3, <2>4 DEF PlanFollowsRead, PastKeeping, Own, StateIn
  <2> QED BY <1>4, <1>5, <2>3, <2>5 DEF RecIInv, Steady
<1>7. CASE RecPlan
  <2> DEFINE expected == {VmOf[i] : i \in {j \in Id : StateIn(rec.snap[j]) \in ExpectedStates}}
             lost == {i \in Id : /\ StateIn(rec.snap[i]) \in {"ready", "running"}
                                 /\ VmOf[i] \notin vms}
  <2>1. CASE rec' = RecIdle
    <3>1. RecTypeOK' /\ PlanFollowsRead'
      BY <1>1, <1>2, <1>4, <2>1, IdlePlansNothing DEF RecTypeOK, RecRecord
    <3> QED BY <1>4, <1>5, <3>1 DEF RecIInv, Steady
  <2>2. ASSUME NEW old \in SUBSET Id,
               rec' = [rec EXCEPT !.pc = "act", !.kill = vms \ expected, !.fail = lost, !.drop = old]
        PROVE  RecIInv'
    <3>1. \A i \in Id : StateIn(rec.snap[i]) \in ExpectedStates => VmOf[i] \in expected
      OBVIOUS
    <3>2. vms \in SUBSET Vm /\ lost \in SUBSET Id
      BY <1>1 DEF TaskTypeOK
    <3> HIDE DEF expected, lost
    <3>3. /\ rec'.pc = "act" /\ rec'.snap = rec.snap /\ rec'.kill = vms \ expected
          /\ rec'.failing = rec.failing /\ RecTypeOK'
      BY <1>1, <1>2, <1>4, <2>2, <3>2, RecFields DEF RecTypeOK
    <3>4. ASSUME NEW i \in Id, StateIn(rec.snap[i]) \in Leaving \ {"failed"}
          PROVE  PastKeeping(rec.snap[i].of)'
      <4>1. rec.snap[i] # None /\ rec.snap[i] \in Checkpoint
        BY <1>1, <3>4 DEF StateIn, Leaving, RecTypeOK
      <4>2. rec.snap[i].of \in Task /\ PastKeeping(rec.snap[i].of) /\ rec'.snap[i].of = rec.snap[i].of
        BY <1>1, <3>3, <3>4, <4>1 DEF Checkpoint, PlanFollowsRead
      <4>3. \A t \in Task : PastKeeping(t) => PastKeeping(t)'
        BY <1>5 DEF Steady
      <4> QED BY <4>2, <4>3 DEF PastKeeping, Own
    <3>5. PlanFollowsRead'
      BY <1>1, <1>2, <3>1, <3>3, <3>4 DEF PlanFollowsRead, StateIn, PastKeeping, Own
    <3> QED BY <1>4, <1>5, <3>3, <3>5 DEF RecIInv, Steady
  <2> QED BY <1>7, <2>1, <2>2 DEF RecPlan
<1>8. CASE RecEnd
  <2>1. RecTypeOK' /\ PlanFollowsRead'
    BY <1>1, <1>2, <1>4, <1>8, IdlePlansNothing DEF RecTypeOK, RecRecord, RecEnd
  <2> QED BY <1>4, <1>5, <2>1 DEF RecIInv, Steady
<1> QED BY <1>6, <1>7, <1>8

\* The planned actions of the reconciler, and the steps of the cleanup service
\* and of the host: VMs go, checkpoints go, and a submitted task is recorded
\* as failed.
LEMMA RecActs ==
  ASSUME RecIInv,
         \/ \E v \in Vm : RecDestroy(v) \/ SweepVm(v) \/ HostLosesVm(v)
         \/ \E i \in Id : RecFailLoad(i) \/ RecDrop(i) \/ SweepTask(i)
         \/ RecFailSave \/ SweepList
  PROVE  RecIInv'
<1> DEFINE failed == [rec.failing EXCEPT !.state = "failed"]
<1>1. /\ TaskTypeOK /\ PlanFollowsRead /\ RecTypeOK /\ CheckpointsNamed
      /\ \A t \in Task : Kept(t)
  BY DEF RecIInv, RecTypeOK
<1>2. rec.failing # None =>
        /\ failed \in Checkpoint /\ failed # None /\ failed.state = "failed"
        /\ failed.of = rec.failing.of /\ rec.failing.of \in Task
        /\ id[rec.failing.of] \in Id /\ id[rec.failing.of] # None
  <2>1. ASSUME rec.failing # None
        PROVE  /\ rec.failing \in Checkpoint /\ rec.failing.of \in Task /\ rec.failing.vm \in BOOLEAN
               /\ failed = [of |-> rec.failing.of, state |-> "failed", vm |-> rec.failing.vm]
    BY <1>1, <2>1, RecFields DEF Checkpoint
  <2>2. rec.failing # None => id[rec.failing.of] # None
    BY <1>1 DEF PlanFollowsRead
  <2> QED BY <1>1, <2>1, <2>2, RecordIsCheckpoint DEF Terminal, TaskTypeOK
<1> HIDE DEF failed
<1>3. /\ Quiet /\ vms' \subseteq vms /\ faults' \in 0..MaxFaults /\ sweep' \in SUBSET Vm
      /\ outside' \in BOOLEAN
  <2>1. Quiet /\ vms' \subseteq vms /\ (outside' = outside \/ outside' = TRUE)
    BY DEF RecDestroy, SweepVm, HostLosesVm, RecFailLoad, RecFailSave, RecDrop, SweepTask, SweepList
  <2>2. faults' = faults \/ Fault
    BY DEF RecDestroy, SweepVm, HostLosesVm, RecFailLoad, RecFailSave, RecDrop, SweepTask, SweepList
  <2>3. faults' \in 0..MaxFaults
    BY <1>1, <2>2, TaskAssumption DEF Fault, TaskTypeOK
  <2>4. sweep' \in SUBSET Vm
    <3>1. sweep' = sweep \/ sweep' = vms \/ \E v \in Vm : sweep' = sweep \ {v}
      BY DEF RecDestroy, SweepVm, HostLosesVm, RecFailLoad, RecFailSave, RecDrop, SweepTask, SweepList
    <3> QED BY <1>1, <3>1 DEF RecTypeOK, TaskTypeOK
  <2> QED BY <1>1, <2>1, <2>3, <2>4 DEF RecTypeOK
<1>4. \/ ckpt' = ckpt
      \/ \E i \in Id : ckpt' = [ckpt EXCEPT ![i] = None]
      \/ rec.failing # None /\ ckpt' = [ckpt EXCEPT ![id[rec.failing.of]] = failed]
  BY DEF RecDestroy, SweepVm, HostLosesVm, RecFailLoad, RecFailSave, RecDrop, SweepTask, SweepList, failed
<1>5. /\ ckpt' \in [Id -> Checkpoint \cup {None}]
      /\ \A i \in Id : \/ ckpt'[i] = ckpt[i]
                       \/ ckpt'[i] = None
                       \/ /\ rec.failing # None /\ i = id[rec.failing.of]
                          /\ ckpt'[i] = failed
  BY <1>1, <1>2, <1>4 DEF TaskTypeOK
<1>6. id' = id
  BY <1>3 DEF Quiet
<1>7. TaskTypeOK'
  BY <1>1, <1>3, <1>5 DEF TaskTypeOK, Quiet
<1>8. CheckpointsNamed'
  BY <1>1, <1>2, <1>5, <1>6 DEF CheckpointsNamed
<1>9. \A t \in Task : Steady(t)
  <2> SUFFICES ASSUME NEW t \in Task
               PROVE  Steady(t)
    OBVIOUS
  <2>1. Own(t)' => \/ Own(t) /\ ckpt'[id[t]] = ckpt[id[t]]
                   \/ ckpt'[id[t]].state = "failed"
    BY <1>1, <1>2, <1>5, <1>6 DEF Own, TaskTypeOK
  <2> QED BY <1>1, <1>3, <2>1, SweepsSteady
<1>10. /\ rec'.pc = rec.pc /\ rec'.snap = rec.snap /\ rec'.kill \subseteq rec.kill
       /\ rec'.failing # None => id'[rec'.failing.of] # None
       /\ rec' \in RecRecord
  <2>1. rec.failing # None => id'[rec.failing.of] # None
    BY <1>1, <1>6 DEF PlanFollowsRead
  <2>2. CASE rec' = rec
    BY <1>1, <2>1, <2>2 DEF RecTypeOK, RecRecord
  <2>3. ASSUME NEW v \in Vm, RecDestroy(v)
        PROVE  <1>10!:
    <3>1. rec' = [rec EXCEPT !.kill = rec.kill \ {v}]
      BY <2>3 DEF RecDestroy
    <3> QED BY <1>1, <2>1, <3>1 DEF RecTypeOK, RecRecord
  <2>4. ASSUME NEW i \in Id, RecFailLoad(i)
        PROVE  <1>10!:
    <3>1. PICK what \in {ckpt[i], None} : rec' = [rec EXCEPT !.fail = rec.fail \ {i}, !.failing = what]
      BY <2>4 DEF RecFailLoad
    <3>2. what # None => what \in Checkpoint /\ id[what.of] # None
      BY <1>1, <3>1, NoneAssumption DEF TaskTypeOK, CheckpointsNamed
    <3>3. rec'.failing = what /\ rec'.pc = rec.pc /\ rec'.snap = rec.snap /\ rec'.kill = rec.kill
      BY <1>1, <3>1 DEF RecTypeOK
    <3>4. rec' \in RecRecord
      BY <1>1, <3>1, <3>2 DEF RecTypeOK, RecRecord
    <3> QED BY <1>6, <3>2, <3>3, <3>4
  <2>5. CASE RecFailSave
    <3>1. rec' = [rec EXCEPT !.failing = None]
      BY <2>5 DEF RecFailSave
    <3> QED BY <1>1, <3>1 DEF RecTypeOK, RecRecord
  <2>6. ASSUME NEW i \in Id, RecDrop(i)
        PROVE  <1>10!:
    <3>1. rec' = [rec EXCEPT !.drop = rec.drop \ {i}]
      BY <2>6 DEF RecDrop
    <3> QED BY <1>1, <2>1, <3>1 DEF RecTypeOK, RecRecord
  <2> QED BY <2>2, <2>3, <2>4, <2>5, <2>6 DEF SweepVm, HostLosesVm, SweepTask, SweepList
<1>11. PlanFollowsRead'
  BY <1>1, <1>9, <1>10, PlanKept
<1>12. RecTypeOK'
  BY <1>3, <1>7, <1>10 DEF RecTypeOK, RecRecord
<1> QED BY <1>8, <1>9, <1>11, <1>12 DEF RecIInv, Steady

\* Every step of the whole keeps the invariant.
LEMMA RecStep == RecIInv /\ [RecNext]_recVars => RecIInv'
<1> SUFFICES ASSUME RecIInv, [RecNext]_recVars
             PROVE  RecIInv'
  OBVIOUS
<1>1. TaskTypeOK /\ CheckpointsNamed /\ PlanFollowsRead /\ RecTypeOK /\ \A t \in Task : Kept(t)
  BY DEF RecIInv, RecTypeOK
<1>2. rec.failing # None => rec.failing.of \in Task /\ id[rec.failing.of] # None
  BY <1>1, RecFields DEF PlanFollowsRead, Checkpoint
<1>3. ASSUME NEW t \in Task, TaskStep(t), UNCHANGED <<rec, sweep, outside>>
      PROVE  RecIInv'
  <2>1. /\ TaskTypeOK' /\ CheckpointsNamed'
        /\ \A u \in Task : Steady(u) /\ (id[u] # None => id'[u] = id[u])
    BY <1>1, <1>3, RecTaskStep
  <2>2. RecTypeOK'
    BY <1>1, <1>3, <2>1 DEF RecTypeOK
  <2>3. PlanFollowsRead'
    BY <1>1, <1>2, <1>3, <2>1, PlanKept
  <2> QED BY <2>1, <2>2, <2>3 DEF RecIInv, Steady
<1>4. CASE Restart /\ UNCHANGED <<rec, sweep, outside>>
  <2>1. TaskTypeOK' /\ \A u \in Task : Steady(u)
    BY <1>1, <1>4, RecRestartSteady
  <2>2. RecTypeOK' /\ id' = id /\ CheckpointsNamed'
    BY <1>1, <1>4, <2>1 DEF RecTypeOK, Restart, CheckpointsNamed
  <2>3. PlanFollowsRead'
    BY <1>1, <1>2, <1>4, <2>1, <2>2, PlanKept
  <2> QED BY <2>1, <2>2, <2>3 DEF RecIInv, Steady
<1>5. CASE RecCrash
  <2>1. TaskTypeOK' /\ \A u \in Task : Steady(u)
    BY <1>1, <1>5, RecCrashSteady DEF RecCrash
  <2>2. RecTypeOK' /\ PlanFollowsRead' /\ CheckpointsNamed'
    BY <1>1, <1>5, <2>1, IdlePlansNothing DEF RecTypeOK, RecRecord, RecCrash, Crash, CheckpointsNamed
  <2> QED BY <2>1, <2>2 DEF RecIInv, Steady
<1>6. CASE Reconcile \/ Sweep \/ \E v \in Vm : HostLosesVm(v)
  BY <1>6, RecReadAndPlan, RecActs DEF Reconcile, Sweep
<1>7. CASE UNCHANGED recVars
  <2>1. Quiet /\ ckpt' = ckpt /\ id' = id /\ UNCHANGED <<rec, sweep, outside, vms, faults>>
    BY <1>7 DEF recVars, taskVars, Quiet
  <2>2. \A t \in Task : Own(t)' => Own(t) /\ ckpt'[id[t]] = ckpt[id[t]]
    BY <2>1 DEF Own
  <2>3. \A t \in Task : Steady(t)
    BY <1>1, <2>1, <2>2, SweepsSteady
  <2>4. RecTypeOK' /\ CheckpointsNamed'
    BY <1>1, <2>1 DEF RecTypeOK, TaskTypeOK, Quiet, CheckpointsNamed
  <2>5. PlanFollowsRead'
    BY <1>1, <1>2, <2>1, <2>3, PlanKept
  <2> QED BY <2>3, <2>4, <2>5 DEF RecIInv, Steady
<1> QED BY <1>3, <1>4, <1>5, <1>6, <1>7 DEF RecNext, TaskStep

\* The invariant of the two sweeps next to the lifecycle, for any tasks, ids,
\* VM names and faults: the reconciler plans to destroy no VM that was recorded
\* as ready, running or preserved when its run began, and only that of a task
\* that has overtaken what it read.
THEOREM PlansOnlyOvertaken == RecSpec => []RecInv
<1>1. RecInit => RecIInv
  <2> SUFFICES ASSUME RecInit
               PROVE  RecIInv
    OBVIOUS
  <2>1. TaskTypeOK /\ CheckpointsNamed
    BY TaskAssumption DEF RecInit, TaskInit, TaskTypeOK, LifePc, CheckpointsNamed
  <2>2. RecTypeOK /\ PlanFollowsRead
    BY <2>1, IdlePlansNothing DEF RecInit, RecTypeOK, RecRecord
  <2>3. \A t \in Task : Kept(t)
    BY DEF RecInit, TaskInit, Kept, ActorsHaveTask, SavedEndHolds, Own
  <2> QED BY <2>1, <2>2, <2>3 DEF RecIInv
<1> QED BY <1>1, RecStep, RecInvForm, PTL DEF RecSpec

\* How a task ended is rewritten for it only by the save of a fail_task that
\* read the checkpoint before, or by the task's own save under its lock where
\* fail_task had recorded a failure: no other step of the sweeps, of a cancel
\* or of a lifecycle changes a saved end of a task.
THEOREM EndsAreKept == RecSpec => EndRewrittenOnlyByFailTask
<1> DEFINE Rewritten == \A i \in Id :
       (/\ StateOf(i) \in Terminal /\ ckpt'[i] # None
        /\ ckpt'[i].of = ckpt[i].of /\ ckpt'[i].state # ckpt[i].state)
         => \/ /\ rec.failing # None /\ rec'.failing = None
               /\ ckpt'[i] = [rec.failing EXCEPT !.state = "failed"]
            \/ /\ ckpt[i].state = "failed"
               /\ lock[ckpt[i].of] # "free" /\ task[ckpt[i].of].state # "failed"
<1>1. RecInv /\ [RecNext]_recVars => [Rewritten]_recVars
  <2> SUFFICES ASSUME RecIInv, RecNext, NEW i \in Id, StateOf(i) \in Terminal, ckpt'[i] # None,
                      ckpt'[i].of = ckpt[i].of, ckpt'[i].state # ckpt[i].state
               PROVE  \/ /\ rec.failing # None /\ rec'.failing = None
                         /\ ckpt'[i] = [rec.failing EXCEPT !.state = "failed"]
                      \/ /\ ckpt[i].state = "failed"
                         /\ lock[ckpt[i].of] # "free" /\ task[ckpt[i].of].state # "failed"
    BY RecInvForm
  <2>1. TaskTypeOK /\ RecTypeOK /\ \A u \in Task : Kept(u)
    BY DEF RecIInv, RecTypeOK
  <2>2. /\ ckpt[i] # None /\ ckpt[i].state \in Terminal /\ ckpt[i].of \in Task
        /\ id[ckpt[i].of] = i /\ i # None /\ ckpt \in [Id -> Checkpoint \cup {None}]
    BY <2>1, NoneAssumption DEF StateOf, StateIn, Terminal, TaskTypeOK, Checkpoint, RecIInv, CheckpointsNamed
  <2>3. ASSUME NEW u \in Task, TaskStep(u)
        PROVE  ckpt[i].state = "failed" /\ lock[ckpt[i].of] # "free" /\ task[ckpt[i].of].state # "failed"
    <3>1. CASE SubmitSave(u)
      <4>1. ckpt'[i] = [of |-> u, state |-> "pending", vm |-> FALSE] /\ life[u] = "none"
        BY <2>2, <3>1 DEF SubmitSave
      <4>2. id[u] = None
        BY <2>1, <4>1 DEF Kept, ActorsHaveTask
      <4> QED BY <2>2, <4>1, <4>2
    <3>2. CASE LifeSave(u) \/ CancelSave(u)
      <4>1. id[u] = i /\ ckpt'[i] = Snapshot(u)
        BY <2>2, <3>2 DEF LifeSave, CancelSave
      <4>2. ckpt[i].of = u /\ Own(u) /\ ckpt'[i].state = task[u].state
        BY <2>2, <4>1 DEF Own, Snapshot
      <4>3. ckpt[i].state = "failed"
        BY <2>1, <2>2, <3>2, <4>1, <4>2, RecSave
      <4>4. lock[u] # "free"
        BY <2>1, <3>2 DEF LifeSave, CancelSave, Kept, ActorsHaveTask
      <4> QED BY <4>2, <4>3, <4>4
    <3>3. CASE ~SubmitSave(u) /\ ~LifeSave(u) /\ ~CancelSave(u)
      BY <2>3, <3>3
      DEF TaskStep, SubmitInsert, Lifecycle, LifeTransition, StageOrCollect, ProvisionVm,
          ExecuteProvider, LifeCleanup, CancelTask, CancelTransition, CancelCleanup
    <3> QED BY <3>1, <3>2, <3>3
  <2>4. ~(Restart \/ RecCrash)
    BY DEF Restart, RecCrash, Crash
  <2>5. CASE RecFailSave
    <3>1. rec.failing # None /\ rec' = [rec EXCEPT !.failing = None]
          /\ ckpt' = [ckpt EXCEPT ![id[rec.failing.of]] = [rec.failing EXCEPT !.state = "failed"]]
      BY <2>5 DEF RecFailSave
    <3>2. rec'.failing = None
      BY <2>1, <3>1 DEF RecTypeOK
    <3>3. id[rec.failing.of] = i
      BY <2>2, <3>1
    <3> QED BY <2>2, <3>1, <3>2, <3>3
  <2>6. ~((Reconcile /\ ~RecFailSave) \/ Sweep \/ (\E v \in Vm : HostLosesVm(v)))
    BY <2>2 DEF Reconcile, Sweep, RecLoad, RecPlan, RecEnd, RecDestroy, RecFailLoad, RecDrop,
           SweepTask, SweepList, SweepVm, HostLosesVm
  <2> QED BY <2>3, <2>4, <2>5, <2>6 DEF RecNext, TaskStep
<1> QED BY <1>1, PlansOnlyOvertaken, PTL DEF RecSpec, EndRewrittenOnlyByFailTask

=============================================================================
