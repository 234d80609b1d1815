---------------------------- MODULE TaskReconcile ----------------------------
(***************************************************************************)
(* The two background sweeps of the orchestrator next to the lifecycle of  *)
(* TaskLifecycle: the reconciler (orchestrator/reconciliation.rs), which   *)
(* compares checkpoints with the VMs of the host, and the cleanup service  *)
(* (orchestrator/cleanup.rs), which applies the retention policy.          *)
(*                                                                         *)
(* Both work on the checkpoint files and on the host, never on the tasks   *)
(* in memory, and take no lock of the lifecycle: every read and every      *)
(* action is a step of its own.  An age is not modelled: any finished task *)
(* may have become old enough for retention.                               *)
(***************************************************************************)
EXTENDS TaskLifecycle

VARIABLES
  rec,     \* the reconciler: step, checkpoints read, and its planned actions
  sweep,   \* the cleanup service: VMs listed and still to be judged
  outside  \* history: a sweep or the host has changed a checkpoint or a VM

recVars == <<taskVars, rec, sweep, outside>>

RecIdle ==
  [pc |-> "idle", snap |-> [i \in Id |-> None],
   kill |-> {}, fail |-> {}, failing |-> None, drop |-> {}]

RecTypeOK ==
  /\ TaskTypeOK
  /\ rec \in [pc : {"idle", "loaded", "act"},
              snap : [Id -> Checkpoint \cup {None}],
              kill : SUBSET Vm, fail : SUBSET Id,
              failing : Checkpoint \cup {None}, drop : SUBSET Id]
  /\ sweep \in SUBSET Vm
  /\ outside \in BOOLEAN

RecInit == TaskInit /\ rec = RecIdle /\ sweep = {} /\ outside = FALSE

Quiet == UNCHANGED <<up, id, task, life, cancel, lock>>

\* The state a checkpoint file, or what was read of it, records.
StateIn(c) == IF c = None THEN "none" ELSE c.state
StateOf(i) == StateIn(ckpt[i])

-----------------------------------------------------------------------------
(* Reconciler::reconcile.                                                  *)

\* Mutant: a preserved VM is not expected.
ExpectedStatesRunning == {"ready", "running"}

\* The states whose VM reconcile expects to exist; only a saved vm_name
\* counts, and a checkpoint in these states has one.
ExpectedStates == {"ready", "running", "failed_preserved"}

\* load_all_tasks: the checkpoints as they are now.
RecLoad ==
  /\ up /\ rec.pc = "idle"
  /\ rec' = [rec EXCEPT !.pc = "loaded", !.snap = ckpt]
  /\ Quiet /\ UNCHANGED <<ckpt, vms, faults, sweep, outside>>

\* list_managed_vms, the findings and plan_actions, or a virsh that fails;
\* with dry_run the plan is only reported.
RecPlan ==
  /\ rec.pc = "loaded"
  /\ \/ \E old \in SUBSET {i \in Id : StateIn(rec.snap[i]) \in Terminal} :
        LET expected == {VmOf[i] : i \in {j \in Id : StateIn(rec.snap[j]) \in ExpectedStates}}
        IN /\ rec' = [rec EXCEPT !.pc = "act",
                        !.kill = vms \ expected,
                        !.fail = {i \in Id : /\ StateIn(rec.snap[i]) \in {"ready", "running"}
                                             /\ VmOf[i] \notin vms},
                        !.drop = old]
           /\ UNCHANGED faults
     \/ Fault /\ rec' = RecIdle
  /\ Quiet /\ UNCHANGED <<ckpt, vms, sweep, outside>>

\* Reconciler::cleanup_vm: destroy-vm.sh --force, whose failure is recorded
\* in the report and nothing else.
RecDestroy(v) ==
  /\ rec.pc = "act" /\ v \in rec.kill
  /\ \/ vms' = vms \ {v} /\ outside' = TRUE /\ UNCHANGED faults
     \/ Fault /\ UNCHANGED <<vms, outside>>
  /\ rec' = [rec EXCEPT !.kill = @ \ {v}]
  /\ Quiet /\ UNCHANGED <<ckpt, sweep>>

\* fail_task, its load and transition: refused when the checkpoint is gone
\* or its state may not fail.
RecFailLoad(i) ==
  /\ rec.pc = "act" /\ rec.kill = {} /\ rec.failing = None /\ i \in rec.fail
  /\ rec' = [rec EXCEPT !.fail = @ \ {i},
               !.failing = IF /\ ckpt[i] # None
                              /\ CanTransition(ckpt[i].state, "failed")
                           THEN ckpt[i] ELSE None]
  /\ Quiet /\ UNCHANGED <<ckpt, vms, faults, sweep, outside>>

\* fail_task, its save: over whatever the checkpoint has become meanwhile.
RecFailSave ==
  /\ rec.failing # None
  /\ \/ /\ ckpt' = [ckpt EXCEPT ![id[rec.failing.of]] = [rec.failing EXCEPT !.state = "failed"]]
        /\ outside' = TRUE
        /\ UNCHANGED faults
     \/ Fault /\ UNCHANGED <<ckpt, outside>>
  /\ rec' = [rec EXCEPT !.failing = None]
  /\ Quiet /\ UNCHANGED <<vms, sweep>>

\* delete_checkpoint, then the end of the run.
RecDrop(i) ==
  /\ rec.pc = "act" /\ rec.kill = {} /\ rec.fail = {} /\ rec.failing = None
  /\ i \in rec.drop
  /\ ckpt' = [ckpt EXCEPT ![i] = None]
  /\ rec' = [rec EXCEPT !.drop = @ \ {i}]
  /\ outside' = TRUE
  /\ Quiet /\ UNCHANGED <<vms, faults, sweep>>

RecEnd ==
  /\ rec.pc = "act" /\ rec.kill = {} /\ rec.fail = {} /\ rec.failing = None
  /\ rec.drop = {}
  /\ rec' = RecIdle
  /\ Quiet /\ UNCHANGED <<ckpt, vms, faults, sweep, outside>>

Reconcile ==
  \/ RecLoad \/ RecPlan \/ RecFailSave \/ RecEnd
  \/ \E v \in Vm : RecDestroy(v)
  \/ \E i \in Id : RecFailLoad(i) \/ RecDrop(i)

-----------------------------------------------------------------------------
(* CleanupService::run_cleanup.                                            *)

\* cleanup_old_tasks of one task that ended long enough ago: its directory
\* and its checkpoint go.  A preserved failure has no retention.
RetentionStates == {"completed", "failed", "cancelled"}

SweepTask(i) ==
  /\ up /\ StateOf(i) \in RetentionStates
  /\ ckpt' = [ckpt EXCEPT ![i] = None]
  /\ outside' = TRUE
  /\ Quiet /\ UNCHANGED <<vms, faults, rec, sweep>>

\* cleanup_orphaned_vms: virsh list, then one VM after the other.
SweepList ==
  /\ up /\ sweep = {} /\ vms # {}
  /\ sweep' = vms
  /\ Quiet /\ UNCHANGED <<ckpt, vms, faults, rec, outside>>

\* A VM that no checkpoint names is destroyed and undefined.
SweepVm(v) ==
  /\ v \in sweep
  /\ sweep' = sweep \ {v}
  /\ IF \E i \in Id : ckpt[i] # None /\ ckpt[i].vm /\ VmOf[i] = v
     THEN UNCHANGED <<vms, faults, outside>>
     ELSE \/ vms' = vms \ {v} /\ outside' = TRUE /\ UNCHANGED faults
          \/ Fault /\ UNCHANGED <<vms, outside>>
  /\ Quiet /\ UNCHANGED <<ckpt, rec>>

Sweep == SweepList \/ (\E i \in Id : SweepTask(i)) \/ (\E v \in Vm : SweepVm(v))

-----------------------------------------------------------------------------
(* The host, and the whole.                                                *)

\* A VM disappears without the orchestrator: its host, or an operator.
HostLosesVm(v) ==
  /\ v \in vms /\ Fault
  /\ vms' = vms \ {v} /\ outside' = TRUE
  /\ Quiet /\ UNCHANGED <<ckpt, rec, sweep>>

RecCrash == Crash /\ rec' = RecIdle /\ sweep' = {} /\ UNCHANGED outside

RecNext ==
  \/ /\ \/ \E t \in Task :
             SubmitSave(t) \/ SubmitInsert(t) \/ Lifecycle(t) \/ CancelTask(t)
        \/ Restart
     /\ UNCHANGED <<rec, sweep, outside>>
  \/ RecCrash
  \/ Reconcile
  \/ Sweep
  \/ \E v \in Vm : HostLosesVm(v)

RecSpec == RecInit /\ [][RecNext]_recVars

-----------------------------------------------------------------------------
(* Properties.                                                             *)

\* The tasks' own actors keep checkpoints, tasks and VMs in step as long as
\* nobody else has changed a checkpoint or a VM.
OwnActorsInStep == outside \/ TaskInv

\* The states in which a task is to keep its VM.
KeptStates == {"ready", "running", "failed_preserved"}

\* The reconciler never plans to destroy the VM of a task that is to keep
\* it, except of a task that was submitted or on its way to ready when the
\* checkpoints were read, or one that fail_task had recorded as failed
\* while its lifecycle went on: a preserved, a running or a ready VM that
\* was recorded when the run began is never in its plan.
OnlyOvertakenVmPlanned ==
  \A i \in Id :
    StateOf(i) \in KeptStates /\ VmOf[i] \in rec.kill
      => \/ rec.snap[i] = None \/ rec.snap[i].of # ckpt[i].of
         \/ rec.snap[i].state \in {"pending", "staging", "provisioning", "failed"}

\* The states from which no task comes to be one that keeps its VM.
Leaving == {"completing", "completed", "failed", "cancelled"}

\* Task t is past keeping its VM, in memory and on disk, and for good.
PastKeeping(t) ==
  /\ life[t] \notin {"none", "submitted"}
  /\ Own(t) => ckpt[id[t]].state \in Leaving
  /\ task[t] # None => task[t].state \in Leaving

\* Which tasks and actors exist at the same time, now that checkpoints may be
\* deleted: a task in memory was submitted, whoever is at work has a task,
\* and nothing but the checkpoints survives a crash.
ActorsHaveTask(t) ==
  /\ life[t] = "none" <=> id[t] = None
  /\ task[t] # None => life[t] \notin {"none", "submitted"}
  /\ life[t] = "submitted" /\ Own(t) => ckpt[id[t]].state \in {"pending", "failed"}
  /\ task[t] = None => lock[t] = "free" /\ cancel[t] \in {"none", "dead"}
  /\ life[t] \notin {"none", "submitted", "done", "dead"} => task[t] # None
  /\ lock[t] = "life" => life[t] \in Transitions
  /\ cancel[t] = "locked" => lock[t] = "cancel"
  /\ ~up => task[t] = None /\ life[t] \in {"none", "dead"}

\* What the checkpoint tells of the task in memory: one that is saved as past
\* keeping its VM is past it, unless only fail_task said so, and an end that is
\* not a fail_task's is the end of the task.
SavedEndHolds(t) ==
  Own(t) =>
    /\ ckpt[id[t]].state \in Leaving \ {"failed"} => PastKeeping(t)
    /\ ckpt[id[t]].state \in Terminal \ {"failed"} /\ task[t] # None
         => task[t].state = ckpt[id[t]].state

\* What the reconciler has read is not outrun by a task that left its VM, no VM
\* is in its plan that was expected by what it read, and what it read is of
\* tasks that were submitted.
PlanFollowsRead ==
  /\ rec.pc # "act" => rec.kill = {}
  /\ rec.failing # None => id[rec.failing.of] # None
  /\ \A i \in Id :
       /\ VmOf[i] \in rec.kill => StateIn(rec.snap[i]) \notin ExpectedStates
       /\ StateIn(rec.snap[i]) \in Leaving \ {"failed"} => PastKeeping(rec.snap[i].of)

\* The reconciler's plan against what has happened since it read the
\* checkpoints, with the types of its run.
RecInv ==
  /\ RecTypeOK
  /\ OnlyOvertakenVmPlanned
  /\ CheckpointsNamed
  /\ \A t \in Task : ActorsHaveTask(t) /\ SavedEndHolds(t)
  /\ PlanFollowsRead

\* How a task ended, once saved, is rewritten for that task in two cases only:
\* by the save of a fail_task that loaded the checkpoint before that end, and
\* by the lifecycle or the cancel of a task that fail_task had recorded as
\* failed while it went on in memory.
EndRewrittenOnlyByFailTask ==
  [][\A i \in Id :
       (/\ StateOf(i) \in Terminal /\ ckpt'[i] # None
        /\ ckpt'[i].of = ckpt[i].of /\ ckpt'[i].state # ckpt[i].state)
         => \/ /\ rec.failing # None /\ rec'.failing = None
               /\ ckpt'[i] = [rec.failing EXCEPT !.state = "failed"]
            \/ /\ ckpt[i].state = "failed"
               /\ lock[ckpt[i].of] # "free" /\ task[ckpt[i].of].state # "failed"]_recVars

=============================================================================
