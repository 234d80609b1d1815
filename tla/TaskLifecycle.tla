---------------------------- MODULE TaskLifecycle ----------------------------
(***************************************************************************)
(* The task orchestrator (management/src/orchestrator): submission, the    *)
(* lifecycle task that carries a task from staging to completion, its      *)
(* cancellation, the checkpoint files, and a crash and restart of the      *)
(* server.  Virtual machines are the external truth the tasks own.         *)
(*                                                                         *)
(* A state change and the save of its checkpoint happen under the task's   *)
(* write lock but are two steps: a crash may fall between them.  The       *)
(* scripts that clone, provision, run, collect and destroy are external:   *)
(* each may fail, and a VM exists as soon as its script has created it.    *)
(* The provision script refuses a VM name that is taken, and a name is     *)
(* only the head of a task id, so two tasks may want the same one.         *)
(*                                                                         *)
(* A client may choose the id of its task and submit it again: nothing     *)
(* refuses an id that is in use.  Task stands for submissions, each with   *)
(* an Arc<RwLock<Task>> and a lifecycle of its own; the checkpoint file,   *)
(* and the VM name, are of the id.  A cancellation may have looked its     *)
(* task up before the table's entry was replaced, so any submission of     *)
(* this server process can be cancelled, and the table needs no variable.  *)
(*                                                                         *)
(* Left out: manifests, output streaming, progress and exit codes.  Any    *)
(* exit code of the provider is a success to the lifecycle.                *)
(***************************************************************************)
EXTENDS Naturals, FiniteSets

CONSTANTS
  Task,       \* submitted tasks
  Id,         \* task ids
  Vm,         \* VM names
  VmOf,       \* the VM name of an id: "task-" and its head
  None,       \* absent value
  MaxFaults   \* bound on failed scripts, failed saves and crashes

ASSUME TaskAssumption ==
  /\ VmOf \in [Id -> Vm]
  /\ MaxFaults \in Nat

VARIABLES
  up,       \* whether the server process runs
  id,       \* the id a task was submitted with
  task,     \* the tasks in memory: state and whether vm_name is set, or None
  ckpt,     \* the checkpoint file of an id: what it says, and of which task
  life,     \* where execute_task_lifecycle of a task stands
  cancel,   \* where cancel_task of a task stands
  lock,     \* who holds the write lock of a task: "life", "cancel" or "free"
  vms,      \* VM names that exist
  faults    \* faults so far

taskVars == <<up, id, task, ckpt, life, cancel, lock, vms, faults>>

Active == {"pending", "staging", "provisioning", "ready", "running", "completing"}
Terminal == {"completed", "failed", "failed_preserved", "cancelled"}

TaskRecord == [state : Active \cup Terminal, vm : BOOLEAN]
Checkpoint == [of : Task, state : Active \cup Terminal, vm : BOOLEAN]

ASSUME NoneAssumption == None \notin TaskRecord \cup Checkpoint \cup Id \cup Task

LifePc ==
  {"none", "submitted", "to_staging", "stage", "to_provisioning", "provision",
   "to_ready", "to_running", "execute", "to_completing", "collect",
   "to_completed", "to_failed", "to_failed_preserved", "cleanup", "done", "dead"}

TaskTypeOK ==
  /\ up \in BOOLEAN
  /\ id \in [Task -> Id \cup {None}]
  /\ task \in [Task -> TaskRecord \cup {None}]
  /\ ckpt \in [Id -> Checkpoint \cup {None}]
  /\ life \in [Task -> LifePc]
  /\ cancel \in [Task -> {"none", "locked", "cleanup", "done", "dead"}]
  /\ lock \in [Task -> {"free", "life", "cancel"}]
  /\ vms \in SUBSET Vm
  /\ faults \in 0..MaxFaults

TaskInit ==
  /\ up = TRUE
  /\ id = [t \in Task |-> None]
  /\ task = [t \in Task |-> None]
  /\ ckpt = [i \in Id |-> None]
  /\ life = [t \in Task |-> "none"]
  /\ cancel = [t \in Task |-> "none"]
  /\ lock = [t \in Task |-> "free"]
  /\ vms = {}
  /\ faults = 0

-----------------------------------------------------------------------------
(* TaskState::can_transition_to and the order of the lifecycle.            *)

\* Mutant: a finished task may be cancelled.
CanTransitionCancelAlways(from, to) ==
  \/ <<from, to>> \in {<<"pending", "staging">>, <<"staging", "provisioning">>,
       <<"provisioning", "ready">>, <<"ready", "running">>,
       <<"running", "completing">>, <<"completing", "completed">>,
       <<"running", "failed_preserved">>}
  \/ to = "failed" /\ from \in Active \ {"pending"}
  \/ to = "cancelled"

CanTransition(from, to) ==
  \/ <<from, to>> \in {<<"pending", "staging">>, <<"staging", "provisioning">>,
       <<"provisioning", "ready">>, <<"ready", "running">>,
       <<"running", "completing">>, <<"completing", "completed">>,
       <<"running", "failed_preserved">>}
  \/ to = "failed" /\ from \in Active \ {"pending"}
  \/ to = "cancelled" /\ from \in Active

\* The state a transition step of the lifecycle asks for.
Goal(pc) ==
  CASE pc = "to_staging" -> "staging"
    [] pc = "to_provisioning" -> "provisioning"
    [] pc = "to_ready" -> "ready"
    [] pc = "to_running" -> "running"
    [] pc = "to_completing" -> "completing"
    [] pc = "to_completed" -> "completed"
    [] pc = "to_failed" -> "failed"
    [] pc = "to_failed_preserved" -> "failed_preserved"

\* Mutant: a preserved VM is cleaned up.
AfterSaveCleansPreserved(pc) ==
  CASE pc = "to_staging" -> "stage"
    [] pc = "to_provisioning" -> "provision"
    [] pc = "to_ready" -> "to_running"
    [] pc = "to_running" -> "execute"
    [] pc = "to_completing" -> "collect"
    [] pc \in {"to_completed", "to_failed", "to_failed_preserved"} -> "cleanup"

\* Where the lifecycle goes once the new state is saved.
AfterSave(pc) ==
  CASE pc = "to_staging" -> "stage"
    [] pc = "to_provisioning" -> "provision"
    [] pc = "to_ready" -> "to_running"
    [] pc = "to_running" -> "execute"
    [] pc = "to_completing" -> "collect"
    [] pc \in {"to_completed", "to_failed"} -> "cleanup"
    [] pc = "to_failed_preserved" -> "done"

Transitions ==
  {"to_staging", "to_provisioning", "to_ready", "to_running", "to_completing",
   "to_completed", "to_failed", "to_failed_preserved"}

Fault == faults < MaxFaults /\ faults' = faults + 1

VmName(t) == VmOf[id[t]]

\* What a checkpoint of task t says now.
Snapshot(t) == [of |-> t, state |-> task[t].state, vm |-> task[t].vm]

\* The checkpoint of t's id is one of t.
Own(t) == id[t] # None /\ ckpt[id[t]] # None /\ ckpt[id[t]].of = t

-----------------------------------------------------------------------------
(* Submission.                                                             *)

\* submit_task up to the save of the initial checkpoint, over any checkpoint
\* an earlier task of that id has.
SubmitSave(t) ==
  /\ up /\ life[t] = "none"
  /\ \E i \in Id :
       /\ id' = [id EXCEPT ![t] = i]
       /\ ckpt' = [ckpt EXCEPT ![i] = [of |-> t, state |-> "pending", vm |-> FALSE]]
  /\ life' = [life EXCEPT ![t] = "submitted"]
  /\ UNCHANGED <<up, task, cancel, lock, vms, faults>>

\* The task enters the table and its lifecycle is spawned.
SubmitInsert(t) ==
  /\ up /\ life[t] = "submitted"
  /\ task' = [task EXCEPT ![t] = [state |-> "pending", vm |-> FALSE]]
  /\ life' = [life EXCEPT ![t] = "to_staging"]
  /\ UNCHANGED <<up, id, ckpt, cancel, lock, vms, faults>>

-----------------------------------------------------------------------------
(* execute_task_lifecycle.                                                 *)

\* Taking the write lock and changing state; vm_name is set before the
\* transition to ready is tried, and a refused transition ends the lifecycle.
LifeTransition(t) ==
  /\ life[t] \in Transitions /\ lock[t] = "free"
  /\ LET known == task[t].vm \/ life[t] = "to_ready"
         goal == Goal(life[t])
     IN IF CanTransition(task[t].state, goal)
        THEN /\ task' = [task EXCEPT ![t] = [state |-> goal, vm |-> known]]
             /\ lock' = [lock EXCEPT ![t] = "life"]
             /\ UNCHANGED life
        ELSE /\ task' = [task EXCEPT ![t].vm = known]
             /\ life' = [life EXCEPT ![t] = "done"]
             /\ UNCHANGED lock
  /\ UNCHANGED <<up, id, ckpt, cancel, vms, faults>>

\* CheckpointStore::save and the release of the lock.
LifeSave(t) ==
  /\ lock[t] = "life"
  /\ lock' = [lock EXCEPT ![t] = "free"]
  /\ \/ /\ ckpt' = [ckpt EXCEPT ![id[t]] = Snapshot(t)]
        /\ life' = [life EXCEPT ![t] = AfterSave(@)]
        /\ UNCHANGED faults
     \/ /\ Fault
        /\ life' = [life EXCEPT ![t] = "done"]
        /\ UNCHANGED ckpt
  /\ UNCHANGED <<up, id, task, cancel, vms>>

\* stage_task and collect_artifacts: a failure leaves the task as it is.
StageOrCollect(t) ==
  /\ life[t] \in {"stage", "collect"}
  /\ \/ /\ life' = [life EXCEPT ![t] = IF @ = "stage" THEN "to_provisioning"
                                                      ELSE "to_completed"]
        /\ UNCHANGED faults
     \/ /\ Fault
        /\ life' = [life EXCEPT ![t] = "done"]
  /\ UNCHANGED <<up, id, task, ckpt, cancel, lock, vms>>

\* provision_vm: the script creates the VM and succeeds, or fails with or
\* without having created it; a name that is taken always fails.
ProvisionVm(t) ==
  /\ life[t] = "provision"
  /\ \/ /\ VmName(t) \notin vms
        /\ vms' = vms \cup {VmName(t)}
        /\ life' = [life EXCEPT ![t] = "to_ready"]
        /\ UNCHANGED faults
     \/ /\ VmName(t) \notin vms
        /\ Fault
        /\ vms' \in {vms, vms \cup {VmName(t)}}
        /\ life' = [life EXCEPT ![t] = "done"]
     \/ /\ VmName(t) \in vms
        /\ life' = [life EXCEPT ![t] = "done"]
        /\ UNCHANGED <<vms, faults>>
  /\ UNCHANGED <<up, id, task, ckpt, cancel, lock>>

\* execute_provider: an exit code is a success, an error fails the task,
\* with or without preserving its VM as the manifest asks.
ExecuteProvider(t) ==
  /\ life[t] = "execute"
  /\ \E pc \in {"to_completing", "to_failed", "to_failed_preserved"} :
       life' = [life EXCEPT ![t] = pc]
  /\ UNCHANGED <<up, id, task, ckpt, cancel, lock, vms, faults>>

\* cleanup_vm: nothing without a vm_name; a failed script is only logged.
Destroy(t) ==
  \/ /\ vms' = IF task[t].vm THEN vms \ {VmName(t)} ELSE vms
     /\ UNCHANGED faults
  \/ task[t].vm /\ Fault /\ UNCHANGED vms

LifeCleanup(t) ==
  /\ life[t] = "cleanup" /\ lock[t] = "free"
  /\ Destroy(t)
  /\ life' = [life EXCEPT ![t] = "done"]
  /\ UNCHANGED <<up, id, task, ckpt, cancel, lock>>

Lifecycle(t) ==
  \/ LifeTransition(t) \/ LifeSave(t) \/ StageOrCollect(t) \/ ProvisionVm(t)
  \/ ExecuteProvider(t) \/ LifeCleanup(t)

-----------------------------------------------------------------------------
(* cancel_task: lock, transition and save, then the VM.                    *)

CancelTransition(t) ==
  /\ up /\ task[t] # None /\ lock[t] = "free"
  /\ CanTransition(task[t].state, "cancelled")
  /\ task' = [task EXCEPT ![t].state = "cancelled"]
  /\ lock' = [lock EXCEPT ![t] = "cancel"]
  /\ cancel' = [cancel EXCEPT ![t] = "locked"]
  /\ UNCHANGED <<up, id, ckpt, life, vms, faults>>

\* The save of the cancelled state and the release of the lock.
CancelSave(t) ==
  /\ cancel[t] = "locked"
  /\ lock' = [lock EXCEPT ![t] = "free"]
  /\ \/ /\ ckpt' = [ckpt EXCEPT ![id[t]] = Snapshot(t)]
        /\ cancel' = [cancel EXCEPT ![t] = "cleanup"]
        /\ UNCHANGED faults
     \/ /\ Fault
        /\ cancel' = [cancel EXCEPT ![t] = "done"]
        /\ UNCHANGED ckpt
  /\ UNCHANGED <<up, id, task, life, vms>>

CancelCleanup(t) ==
  /\ cancel[t] = "cleanup" /\ lock[t] = "free"
  /\ Destroy(t)
  /\ cancel' = [cancel EXCEPT ![t] = "done"]
  /\ UNCHANGED <<up, id, task, ckpt, life, lock>>

CancelTask(t) == CancelTransition(t) \/ CancelSave(t) \/ CancelCleanup(t)

-----------------------------------------------------------------------------
(* Crash and restart.                                                      *)

\* Every task in memory is gone; a provision script that was running may
\* still create its VM.
Crash ==
  /\ up /\ Fault
  /\ up' = FALSE
  /\ task' = [t \in Task |-> None]
  /\ lock' = [t \in Task |-> "free"]
  /\ life' = [t \in Task |-> IF life[t] = "none" THEN "none" ELSE "dead"]
  /\ cancel' = [t \in Task |-> IF cancel[t] = "none" THEN "none" ELSE "dead"]
  /\ \E left \in SUBSET {VmName(t) : t \in {u \in Task : life[u] = "provision"}} :
       vms' = vms \cup left
  /\ UNCHANGED <<id, ckpt>>

\* The server starts with an empty table, as main does, or with what
\* restore_from_checkpoints reads: every checkpoint is a task again, and no
\* lifecycle is started for it.
Restart ==
  /\ ~up
  /\ up' = TRUE
  /\ \/ UNCHANGED task
     \/ task' = [t \in Task |->
                   IF Own(t) THEN [state |-> ckpt[id[t]].state, vm |-> ckpt[id[t]].vm]
                             ELSE None]
  /\ UNCHANGED <<id, ckpt, life, cancel, lock, vms, faults>>

-----------------------------------------------------------------------------

TaskNext ==
  \/ \E t \in Task :
       SubmitSave(t) \/ SubmitInsert(t) \/ Lifecycle(t) \/ CancelTask(t)
  \/ Crash
  \/ Restart

TaskSpec == TaskInit /\ [][TaskNext]_taskVars

-----------------------------------------------------------------------------
(* Properties.                                                             *)

\* The actors of a task have finished.
AtRest(t) ==
  /\ life[t] \in {"done", "dead"}
  /\ cancel[t] \in {"none", "done", "dead"}

\* A task whose checkpoint says it was handed a VM and is not finished still
\* has that VM: cleanup_vm runs only after a terminal state was saved, also
\* when an id is submitted again, when two ids have the same VM name, and
\* across crashes.
ActiveHasVm ==
  \A i \in Id :
    ckpt[i] # None /\ ckpt[i].state \in {"ready", "running", "completing"}
      => VmOf[i] \in vms

\* A VM preserved for debugging is not destroyed by a later cancel, a
\* restart, or the end of another task.
PreservedVmKept ==
  \A i \in Id :
    ckpt[i] # None /\ ckpt[i].state = "failed_preserved" => VmOf[i] \in vms

\* No other task has been submitted under the VM name of this one.
Alone(t) == \A u \in Task \ {t} : {id[t], id[u]} \subseteq Id => VmName(u) # VmName(t)

\* A cancelled task leaves no VM of its own behind: cancel_task may be called
\* in any state that is not terminal and destroys the VM after it.
CancelDestroysVm ==
  \A t \in Task :
    (/\ faults = 0 /\ AtRest(t) /\ Alone(t)
     /\ task[t] # None /\ task[t].state = "cancelled")
      => VmName(t) \notin vms

\* The checkpoint is never ahead of its task in memory, so that a restart
\* never invents progress; and it differs only while the save is under way
\* or after a save that failed.
CheckpointFollows ==
  \A t \in Task :
    task[t] # None /\ Own(t) /\ ckpt[id[t]].state # task[t].state
      => /\ CanTransition(ckpt[id[t]].state, task[t].state)
         /\ lock[t] # "free" \/ faults > 0

\* The state the lifecycle takes its task to be in at a step.
Before(pc) ==
  CASE pc = "to_staging" -> {"pending"}
    [] pc \in {"stage", "to_provisioning"} -> {"staging"}
    [] pc \in {"provision", "to_ready"} -> {"provisioning"}
    [] pc = "to_running" -> {"ready"}
    [] pc \in {"execute", "to_completing", "to_failed", "to_failed_preserved"} ->
         {"running"}
    [] pc \in {"collect", "to_completed"} -> {"completing"}
    [] pc = "cleanup" -> {"completed", "failed"}

\* The states of a task that uses or keeps its VM, and the steps of the
\* lifecycle before the task has learnt of its VM.
Holding == {"ready", "running", "completing", "failed_preserved"}
Early == {"to_staging", "stage", "to_provisioning", "provision", "to_ready"}

\* Which tasks, checkpoints and actors exist at the same time: an id in use has
\* a checkpoint, a task that was never submitted has nothing, and nothing
\* survives a crash but the checkpoints.
Presence(t) ==
  /\ life[t] = "none" <=> id[t] = None
  /\ life[t] \in {"none", "submitted"} => task[t] = None
  /\ life[t] = "submitted" /\ Own(t) => ckpt[id[t]] = [of |-> t, state |-> "pending", vm |-> FALSE]
  /\ life[t] \notin {"none", "submitted", "done", "dead"} => task[t] # None
  /\ task[t] = None => lock[t] = "free" /\ cancel[t] \in {"none", "dead"}
  /\ ~up => task[t] = None /\ life[t] \in {"none", "dead"}
  /\ faults = 0 => life[t] # "dead" /\ cancel[t] # "dead"

\* A checkpoint is of a task that was submitted with its id.
CheckpointsNamed == \A i \in Id : ckpt[i] # None => id[ckpt[i].of] = i

\* What the lifecycle relies on: while it does not hold the lock its task is
\* where it left it, with that state on disk unless another task of the id has
\* been saved there, or has been cancelled.
LifecycleKnows(t) ==
  /\ lock[t] = "life" =>
       /\ life[t] \in Transitions
       /\ task[t].state = Goal(life[t])
       /\ Own(t) => ckpt[id[t]].state \in Before(life[t])
  /\ (life[t] \notin {"none", "submitted", "done", "dead"} /\ lock[t] # "life") =>
       \/ task[t].state \in Before(life[t]) /\ (Own(t) => ckpt[id[t]] = Snapshot(t))
       \/ task[t].state = "cancelled" /\ life[t] # "cleanup"

\* What a cancellation relies on: from its transition on the task is
\* cancelled, and it was not finished on disk when the lock was taken.
CancelKnows(t) ==
  /\ lock[t] = "cancel" <=> cancel[t] = "locked"
  /\ cancel[t] \in {"locked", "cleanup"} => task[t].state = "cancelled"
  /\ cancel[t] = "locked" /\ Own(t) => ckpt[id[t]].state \in Active
  /\ cancel[t] = "cleanup" /\ Own(t) => ckpt[id[t]].state = "cancelled"
  /\ cancel[t] = "none" =>
       /\ Own(t) => ckpt[id[t]].state # "cancelled"
       /\ task[t] # None => task[t].state # "cancelled"

\* When a record knows of its VM: never before the VM was handed over, always
\* once the task uses it; a checkpoint knows no more than the task.
VmKnown(t) ==
  /\ task[t] # None =>
       /\ task[t].state \in {"pending", "staging", "provisioning"} => ~task[t].vm
       /\ task[t].state \in Holding \cup {"completed", "failed"} => task[t].vm
       /\ Own(t) /\ ckpt[id[t]].vm => task[t].vm
       /\ life[t] \in Early /\ lock[t] # "life" => ~task[t].vm
  /\ Own(t) =>
       /\ ckpt[id[t]].state \in {"pending", "staging", "provisioning"} => ~ckpt[id[t]].vm
       /\ ckpt[id[t]].state \in Holding \cup {"completed", "failed"} => ckpt[id[t]].vm

\* A task has a claim on its VM from the end of provisioning until nobody
\* will use or destroy the VM in its name.
Claims(t) ==
  \/ life[t] = "to_ready"
  \/ Own(t) /\ ckpt[id[t]].state \in Holding
  \/ /\ task[t] # None /\ task[t].vm
     /\ \/ task[t].state \in Holding
        \/ lock[t] # "free"
        \/ life[t] = "cleanup"
        \/ cancel[t] = "cleanup"

\* The claimed VM exists, and of two tasks with the same VM name only one has
\* a claim: cleanup_vm, which goes by name, destroys no other task's VM.
ClaimsExclusive ==
  /\ \A t \in Task : Claims(t) => VmName(t) \in vms
  /\ \A t, u \in Task : Claims(t) /\ Claims(u) /\ VmName(t) = VmName(u) => t = u

\* Without faults, what a cleanup of the lifecycle or of a cancellation that
\* knew of the VM has finished with is gone, and stays gone.
CleanedUp(t) ==
  faults = 0 /\ Alone(t) /\ Own(t) =>
    /\ ckpt[id[t]].state \in {"completed", "failed"} /\ life[t] = "done"
         => VmName(t) \notin vms
    /\ ckpt[id[t]].state = "cancelled" /\ ckpt[id[t]].vm /\ cancel[t] = "done"
         => VmName(t) \notin vms

\* Checkpoints, tasks and VMs stay in step across resubmissions, failures,
\* cancellations and crashes: a task recorded as using or keeping its VM has
\* it, what is recorded is what the task is or was one transition ago, and each
\* actor finds the task as it left it.
TaskInv ==
  /\ TaskTypeOK
  /\ ActiveHasVm
  /\ PreservedVmKept
  /\ CheckpointFollows
  /\ CheckpointsNamed
  /\ \A t \in Task :
       Presence(t) /\ LifecycleKnows(t) /\ CancelKnows(t) /\ VmKnown(t)
  /\ ClaimsExclusive
  /\ \A t \in Task : CleanedUp(t)

\* A checkpoint that says how a task ended is never rewritten for that task:
\* not by a lifecycle that was overtaken by a cancel, and not after a restart.
\* Only another task of the same id replaces it, when it is submitted or in a
\* transition of its own.
CheckpointFinal ==
  [][\A i \in Id :
       ckpt[i] # None /\ ckpt[i].state \in Terminal /\ ckpt'[i] # ckpt[i]
         => /\ ckpt'[i].of # ckpt[i].of
            /\ life[ckpt'[i].of] = "none" \/ lock[ckpt'[i].of] # "free"]_taskVars

=============================================================================
