------------------------- MODULE EffectCallback_proofs -------------------------
(***************************************************************************)
(* Proofs about management's side of celld, for any commands, handlers and *)
(* management operations.  The ledger first, whoever calls its methods;    *)
(* then the callback handlers: they only use the ledger through its calls, *)
(* the provider is invoked at most once for an operation, and a recorded   *)
(* outcome is the true one, whichever handler recorded it.                 *)
(***************************************************************************)
EXTENDS EffectCallback, TLAPS

-----------------------------------------------------------------------------
(* The ledger.                                                             *)

\* Every command names an operation, an instance, a positive generation and
\* an action (CellCommand, canonical_request_hash).
LEMMA CommandFields ==
  ASSUME NEW c \in Command
  PROVE  /\ c # None
         /\ c.op \in Op
         /\ c.instance \in Instance
         /\ c.generation \in Nat
         /\ c.generation # 0
         /\ c.action \in Action
BY CommandAssumption, NoCommandAssumption DEF CommandShape

\* The empty ledger of EffectLedger::open satisfies the invariant.
LEMMA LedgerInitInv == LedgerInit => LedgerInv
BY DEF LedgerInit, LedgerInv, LedgerTypeOK, RowsAreWhole, UnboundUntilDispatched,
       InstancesRegistered, SingleDispatchOwner, NoFutureEffect,
       DestroyedIsWitnessed, DestroySucceeded, OpenStatus, TerminalStatus, InstanceState

\* The generation rule of claim_managed: whatever it binds is at least the
\* generation before, and the command's own generation afterwards.
LEMMA BindingMovesForward ==
  ASSUME LedgerTypeOK, NEW c \in Command, Admitted(c), BindGeneration(c)
  PROVE  /\ instGen' \in [Instance -> Nat]
         /\ instState' \in [Instance -> InstanceState]
         /\ instGen'[c.instance] = c.generation
         /\ \A i \in Instance : instGen[i] <= instGen'[i]
         /\ \A i \in Instance : i # c.instance =>
              instGen'[i] = instGen[i] /\ instState'[i] = instState[i]
         /\ \A i \in Instance : instState'[i] = "destroyed" =>
              instGen'[i] = instGen[i] /\ instState[i] = "destroyed"
         /\ InstancesRegistered =>
              \A i \in Instance : instGen'[i] = 0 <=> instState'[i] = "absent"
<1>1. c.instance \in Instance /\ c.generation \in Nat /\ c.generation # 0
  BY CommandFields
<1>2. CASE IsCurrent(c)
  BY <1>1, <1>2 DEF BindGeneration, IsCurrent, instCols, LedgerTypeOK, InstancesRegistered
<1>3. CASE ~IsCurrent(c)
  <2>1. /\ instGen' = [instGen EXCEPT ![c.instance] = c.generation]
        /\ instState' = [instState EXCEPT ![c.instance] = "provisioning"]
    BY <1>3 DEF BindGeneration
  <2>2. instGen[c.instance] <= c.generation
    BY <1>1, <1>3 DEF Admitted, Registers, Advances, LedgerTypeOK
  <2> QED
    BY <1>1, <2>1, <2>2 DEF LedgerTypeOK, InstanceState, InstancesRegistered
<1> QED BY <1>2, <1>3

\* claim_managed preserves the invariant: a new row is of the generation just
\* bound, and a revival leaves no instance destroyed that was not.
LEMMA ClaimManagedInv ==
  ASSUME LedgerInv, NEW c \in Command, ClaimManaged(c)
  PROVE  LedgerInv'
<1>1. /\ c # None /\ c.op \in Op /\ c.instance \in Instance
      /\ c.generation \in Nat /\ c.generation # 0
  BY CommandFields
<1>2. /\ instGen' \in [Instance -> Nat]
      /\ instState' \in [Instance -> InstanceState]
      /\ instGen'[c.instance] = c.generation
      /\ \A i \in Instance : instGen[i] <= instGen'[i]
      /\ \A i \in Instance : instState'[i] = "destroyed" =>
           instGen'[i] = instGen[i] /\ instState[i] = "destroyed"
      /\ \A i \in Instance : instGen'[i] = 0 <=> instState'[i] = "absent"
  BY BindingMovesForward DEF LedgerInv, ClaimManaged
<1>3. CASE status[c.op] = "absent"
  <2>1. /\ request' = [request EXCEPT ![c.op] = c]
        /\ status' = [status EXCEPT ![c.op] = "pending"]
        /\ dispatchCount' = dispatchCount
        /\ mgmtOp' = mgmtOp
        /\ terminal' = terminal
    BY <1>3 DEF ClaimManaged, InsertPending
  <2>2. LedgerTypeOK'
    BY <1>1, <1>2, <2>1 DEF LedgerInv, LedgerTypeOK, OpenStatus
  <2>3. RowsAreWhole' /\ UnboundUntilDispatched' /\ SingleDispatchOwner'
    BY <1>1, <1>3, <2>1
    DEF LedgerInv, LedgerTypeOK, RowsAreWhole, UnboundUntilDispatched, SingleDispatchOwner
  <2>4. request[c.op] = None
    BY <1>1, <1>3 DEF LedgerInv, RowsAreWhole
  <2>5. NoFutureEffect' /\ InstancesRegistered'
    <3>1. ASSUME NEW o \in Op, request'[o] # None
          PROVE  /\ request'[o].generation <= instGen'[request'[o].instance]
                 /\ instGen'[request'[o].instance] # 0
      <4>1. CASE o = c.op
        BY <1>1, <1>2, <2>1, <4>1 DEF LedgerInv, LedgerTypeOK
      <4>2. CASE o # c.op
        <5>1. request'[o] = request[o] /\ request[o] \in Command
          BY <1>1, <2>1, <3>1, <4>2 DEF LedgerInv, LedgerTypeOK
        <5>2. request[o].instance \in Instance /\ request[o].generation \in Nat
          BY <5>1, CommandFields
        <5>3. /\ request[o].generation <= instGen[request[o].instance]
              /\ instGen[request[o].instance] # 0
          BY <3>1, <5>1 DEF LedgerInv, NoFutureEffect, InstancesRegistered
        <5>4. instGen[request[o].instance] \in Nat /\ instGen'[request[o].instance] \in Nat
          BY <1>2, <5>2 DEF LedgerInv, LedgerTypeOK
        <5> QED BY <1>2, <5>1, <5>2, <5>3, <5>4
      <4> QED BY <4>1, <4>2
    <3> QED BY <1>2, <3>1 DEF NoFutureEffect, InstancesRegistered
  <2>6. DestroyedIsWitnessed'
    <3> SUFFICES ASSUME NEW i \in Instance, instState'[i] = "destroyed"
                 PROVE  \E o \in Op : /\ request'[o] # None
                                      /\ request'[o].instance = i
                                      /\ request'[o].action = "destroy"
                                      /\ request'[o].generation = instGen'[i]
                                      /\ status'[o] = "succeeded"
      BY DEF DestroyedIsWitnessed, DestroySucceeded
    <3>1. instGen'[i] = instGen[i] /\ instState[i] = "destroyed"
      BY <1>2
    <3>2. PICK o \in Op : /\ request[o] # None
                          /\ request[o].instance = i
                          /\ request[o].action = "destroy"
                          /\ request[o].generation = instGen[i]
                          /\ status[o] = "succeeded"
      BY <3>1 DEF LedgerInv, DestroyedIsWitnessed, DestroySucceeded
    <3>3. o # c.op
      BY <1>3, <3>2
    <3>4. request'[o] = request[o] /\ status'[o] = status[o]
      BY <1>1, <2>1, <3>3 DEF LedgerInv, LedgerTypeOK
    <3> QED BY <3>1, <3>2, <3>4
  <2> QED BY <2>2, <2>3, <2>5, <2>6 DEF LedgerInv
<1>4. CASE status[c.op] # "absent"
  <2>1. /\ request' = request /\ status' = status
        /\ dispatchCount' = dispatchCount
        /\ mgmtOp' = mgmtOp /\ terminal' = terminal
    BY <1>4 DEF ClaimManaged, InsertPending, effectCols
  <2>2. LedgerTypeOK' /\ RowsAreWhole' /\ UnboundUntilDispatched' /\ SingleDispatchOwner'
    BY <1>2, <2>1
    DEF LedgerInv, LedgerTypeOK, RowsAreWhole, UnboundUntilDispatched, SingleDispatchOwner
  <2>3. NoFutureEffect' /\ InstancesRegistered'
    <3>1. ASSUME NEW o \in Op, request[o] # None
          PROVE  /\ request[o].generation <= instGen'[request[o].instance]
                 /\ instGen'[request[o].instance] # 0
      <4>1. request[o] \in Command
        BY <3>1 DEF LedgerInv, LedgerTypeOK
      <4>2. request[o].instance \in Instance /\ request[o].generation \in Nat
        BY <4>1, CommandFields
      <4>3. /\ request[o].generation <= instGen[request[o].instance]
            /\ instGen[request[o].instance] # 0
        BY <3>1 DEF LedgerInv, NoFutureEffect, InstancesRegistered
      <4>4. instGen[request[o].instance] \in Nat /\ instGen'[request[o].instance] \in Nat
        BY <1>2, <4>2 DEF LedgerInv, LedgerTypeOK
      <4> QED BY <1>2, <4>2, <4>3, <4>4
    <3> QED BY <1>2, <2>1, <3>1 DEF NoFutureEffect, InstancesRegistered
  <2>4. DestroyedIsWitnessed'
    BY <1>2, <2>1 DEF LedgerInv, DestroyedIsWitnessed, DestroySucceeded
  <2> QED BY <2>2, <2>3, <2>4 DEF LedgerInv
<1> QED BY <1>3, <1>4

\* begin_dispatch, set_management_operation and mark_unknown preserve the
\* invariant: none of them touches a request, a terminal row or an instance.
LEMMA OpenRowInv ==
  ASSUME LedgerInv, NEW o \in Op,
         \/ BeginDispatch(o)
         \/ MarkUnknown(o)
         \/ \E m \in MgmtOp : SetManagementOperation(o, m)
  PROVE  LedgerInv'
<1>1. request' = request /\ terminal' = terminal /\ instGen' = instGen /\ instState' = instState
  BY DEF BeginDispatch, MarkUnknown, SetManagementOperation, instCols
<1>2. /\ LedgerTypeOK'
      /\ RowsAreWhole'
      /\ UnboundUntilDispatched'
      /\ SingleDispatchOwner'
      /\ \A p \in Op : status[p] = "succeeded" => status'[p] = "succeeded"
  <2>1. CASE BeginDispatch(o)
    BY <1>1, <2>1 DEF BeginDispatch, GrantsDispatch, LedgerInv, LedgerTypeOK,
       RowsAreWhole, UnboundUntilDispatched, SingleDispatchOwner, OpenStatus
  <2>2. CASE MarkUnknown(o)
    BY <1>1, <2>2 DEF MarkUnknown, LedgerInv, LedgerTypeOK, RowsAreWhole, UnboundUntilDispatched,
       SingleDispatchOwner, OpenStatus
  <2>3. CASE \E m \in MgmtOp : SetManagementOperation(o, m)
    BY <1>1, <2>3 DEF SetManagementOperation, LedgerInv, LedgerTypeOK, RowsAreWhole, UnboundUntilDispatched,
       SingleDispatchOwner
  <2> QED BY <2>1, <2>2, <2>3
<1>3. InstancesRegistered' /\ NoFutureEffect'
  BY <1>1 DEF LedgerInv, InstancesRegistered, NoFutureEffect
<1>4. DestroyedIsWitnessed'
  BY <1>1, <1>2 DEF LedgerInv, DestroyedIsWitnessed, DestroySucceeded
<1> QED BY <1>2, <1>3, <1>4 DEF LedgerInv

\* complete_with_code preserves the invariant: the instance becomes destroyed
\* only through a destroy of its current generation that is then succeeded,
\* and a destroy on record as succeeded cannot be completed otherwise.
LEMMA CompleteInv ==
  ASSUME LedgerInv, NEW o \in Op, NEW s \in TerminalStatus, NEW t \in Terminal,
         Complete(o, s, t)
  PROVE  LedgerInv'
<1>1. /\ status' = [status EXCEPT ![o] = s]
      /\ terminal' = [terminal EXCEPT ![o] = t]
      /\ request' = request /\ dispatchCount' = dispatchCount
      /\ mgmtOp' = mgmtOp /\ instGen' = instGen
      /\ UpdateInstanceState(o, s)
      /\ status[o] # "absent"
  BY DEF Complete
<1>2. request[o] \in Command
  BY <1>1 DEF LedgerInv, LedgerTypeOK, RowsAreWhole
<1>3. request[o].instance \in Instance /\ request[o].action \in Action
  BY <1>2, CommandFields
<1>4. /\ instState' \in [Instance -> InstanceState]
      /\ \A i \in Instance : instState'[i] # instState[i] =>
           /\ s = "succeeded"
           /\ i = request[o].instance
           /\ instGen[i] = request[o].generation
           /\ instState'[i] = "destroyed" => request[o].action = "destroy"
      /\ \A i \in Instance : instState'[i] # instState[i] => instState'[i] # "absent"
  <2>1. StateAfter(request[o].action) \in InstanceState \ {"absent"}
    BY DEF StateAfter, InstanceState
  <2>2. StateAfter(request[o].action) = "destroyed" => request[o].action = "destroy"
    BY DEF StateAfter
  <2> QED
    BY <1>1, <1>3, <2>1, <2>2 DEF UpdateInstanceState, LedgerInv, LedgerTypeOK
<1>5. LedgerTypeOK'
  BY <1>1, <1>4 DEF LedgerInv, LedgerTypeOK
<1>6. RowsAreWhole' /\ UnboundUntilDispatched' /\ SingleDispatchOwner'
  BY <1>1 DEF LedgerInv, LedgerTypeOK, RowsAreWhole, UnboundUntilDispatched,
     SingleDispatchOwner, TerminalStatus
<1>7. NoFutureEffect'
  BY <1>1 DEF LedgerInv, NoFutureEffect
<1>8. InstancesRegistered'
  <2>1. instGen[request[o].instance] # 0
    BY <1>2, NoCommandAssumption DEF LedgerInv, InstancesRegistered
  <2> QED BY <1>1, <1>4, <2>1 DEF LedgerInv, InstancesRegistered
<1>9. DestroyedIsWitnessed'
  <2> SUFFICES ASSUME NEW i \in Instance, instState'[i] = "destroyed"
               PROVE  \E p \in Op : /\ request[p] # None
                                    /\ request[p].instance = i
                                    /\ request[p].action = "destroy"
                                    /\ request[p].generation = instGen[i]
                                    /\ status'[p] = "succeeded"
    BY <1>1 DEF DestroyedIsWitnessed, DestroySucceeded
  <2>1. CASE instState[i] = "destroyed"
    <3>1. PICK p \in Op : /\ request[p] # None
                          /\ request[p].instance = i
                          /\ request[p].action = "destroy"
                          /\ request[p].generation = instGen[i]
                          /\ status[p] = "succeeded"
      BY <2>1 DEF LedgerInv, DestroyedIsWitnessed, DestroySucceeded
    <3>2. status'[p] = "succeeded"
      BY <1>1, <3>1 DEF Complete, CompletionConflict, TerminalStatus, LedgerInv, LedgerTypeOK
    <3> QED BY <3>1, <3>2
  <2>2. CASE instState[i] # "destroyed"
    <3>1. /\ s = "succeeded" /\ i = request[o].instance
          /\ instGen[i] = request[o].generation /\ request[o].action = "destroy"
      BY <1>4, <2>2
    <3>2. status'[o] = "succeeded"
      BY <1>1, <3>1 DEF LedgerInv, LedgerTypeOK
    <3> QED BY <1>2, <3>1, <3>2, NoCommandAssumption
  <2> QED BY <2>1, <2>2
<1> QED BY <1>5, <1>6, <1>7, <1>8, <1>9 DEF LedgerInv

\* Every call on the ledger preserves the invariant.
LEMMA LedgerStepInv == LedgerInv /\ [LedgerNext]_ledgerVars => LedgerInv'
<1> SUFFICES ASSUME LedgerInv, [LedgerNext]_ledgerVars PROVE LedgerInv'
  OBVIOUS
<1>1. CASE \E c \in Command : ClaimManaged(c)
  BY <1>1, ClaimManagedInv
<1>2. CASE \E o \in Op : BeginDispatch(o) \/ MarkUnknown(o)
  BY <1>2, OpenRowInv
<1>3. CASE \E o \in Op, m \in MgmtOp : SetManagementOperation(o, m)
  BY <1>3, OpenRowInv
<1>4. CASE \E o \in Op, s \in TerminalStatus, t \in Terminal : Complete(o, s, t)
  BY <1>4, CompleteInv
<1>5. CASE UNCHANGED ledgerVars
  BY <1>5 DEF ledgerVars, LedgerInv, LedgerTypeOK, RowsAreWhole, UnboundUntilDispatched,
     InstancesRegistered, SingleDispatchOwner, NoFutureEffect, DestroyedIsWitnessed, DestroySucceeded
<1> QED BY <1>1, <1>2, <1>3, <1>4, <1>5 DEF LedgerNext

\* No call unbinds a request or a management operation.
LEMMA StepKeepsBindings ==
  ASSUME LedgerInv, [LedgerNext]_ledgerVars, NEW p \in Op
  PROVE  /\ request[p] # None => request'[p] = request[p]
         /\ mgmtOp[p] # None => mgmtOp'[p] = mgmtOp[p]
<1>1. CASE \E c \in Command : ClaimManaged(c)
  BY <1>1, CommandFields
  DEF ClaimManaged, InsertPending, effectCols, LedgerInv, LedgerTypeOK, RowsAreWhole
<1>2. CASE \E o \in Op : BeginDispatch(o) \/ MarkUnknown(o)
  BY <1>2 DEF BeginDispatch, MarkUnknown
<1>3. CASE \E o \in Op, m \in MgmtOp : SetManagementOperation(o, m)
  BY <1>3 DEF SetManagementOperation, MgmtOpConflict, LedgerInv, LedgerTypeOK
<1>4. CASE \E o \in Op, s \in TerminalStatus, t \in Terminal : Complete(o, s, t)
  BY <1>4 DEF Complete
<1>5. CASE UNCHANGED ledgerVars
  BY <1>5 DEF ledgerVars
<1> QED BY <1>1, <1>2, <1>3, <1>4, <1>5 DEF LedgerNext

\* No call replaces an outcome, and none takes a dispatch back.
LEMMA StepKeepsOutcomes ==
  ASSUME LedgerInv, [LedgerNext]_ledgerVars, NEW p \in Op
  PROVE  /\ status[p] \in TerminalStatus =>
              status'[p] = status[p] /\ terminal'[p] = terminal[p]
         /\ status[p] \in {"dispatched", "unknown"} =>
              status'[p] \in {"dispatched", "unknown"} \cup TerminalStatus
<1>1. CASE \E c \in Command : ClaimManaged(c)
  BY <1>1, CommandFields
  DEF ClaimManaged, InsertPending, effectCols, LedgerInv, LedgerTypeOK, TerminalStatus
<1>2. CASE \E o \in Op : BeginDispatch(o) \/ MarkUnknown(o)
  BY <1>2 DEF BeginDispatch, GrantsDispatch, MarkUnknown, LedgerInv, LedgerTypeOK,
     TerminalStatus
<1>3. CASE \E o \in Op, m \in MgmtOp : SetManagementOperation(o, m)
  BY <1>3 DEF SetManagementOperation
<1>4. CASE \E o \in Op, s \in TerminalStatus, t \in Terminal : Complete(o, s, t)
  BY <1>4 DEF Complete, CompletionConflict, LedgerInv, LedgerTypeOK
<1>5. CASE UNCHANGED ledgerVars
  BY <1>5 DEF ledgerVars
<1> QED BY <1>1, <1>2, <1>3, <1>4, <1>5 DEF LedgerNext

-----------------------------------------------------------------------------
(* The theorems.                                                           *)

\* The ledger's invariant holds for ever, whoever calls it and in whatever
\* order (all public methods of EffectLedger).
THEOREM LedgerInvariant == LedgerSpec => []LedgerInv
BY LedgerInitInv, LedgerStepInv, PTL DEF LedgerSpec

\* The tables keep their column types (EffectLedger::open's schema).
THEOREM LedgerTypeCorrect == LedgerSpec => []LedgerTypeOK
<1>1. LedgerInv => LedgerTypeOK BY DEF LedgerInv
<1> QED BY <1>1, LedgerInvariant, PTL

\* The provider dispatch of an operation is granted at most once
\* (begin_dispatch), for any number of operations and callers.
THEOREM DispatchGrantedOnce == LedgerSpec => []SingleDispatchOwner
<1>1. LedgerInv => SingleDispatchOwner BY DEF LedgerInv
<1> QED BY <1>1, LedgerInvariant, PTL

\* No effect of a generation that its instance has not reached is ever on
\* record (claim_managed), for any history of generations.
THEOREM FutureFenced == LedgerSpec => []NoFutureEffect
<1>1. LedgerInv => NoFutureEffect BY DEF LedgerInv
<1> QED BY <1>1, LedgerInvariant, PTL

\* An instance is destroyed in the ledger only if a destroy of its current
\* generation succeeded (update_instance_state).
THEOREM DestroyWitnessed == LedgerSpec => []DestroyedIsWitnessed
<1>1. LedgerInv => DestroyedIsWitnessed BY DEF LedgerInv
<1> QED BY <1>1, LedgerInvariant, PTL

\* The first outcome of an operation is final (complete_with_code).
THEOREM OutcomeFinal == LedgerSpec => OutcomeIsFinal
<1> DEFINE Kept == \A o \in Op : status[o] \in TerminalStatus =>
                     status'[o] = status[o] /\ terminal'[o] = terminal[o]
<1>1. LedgerInv /\ [LedgerNext]_ledgerVars => [Kept]_ledgerVars
  BY StepKeepsOutcomes
<1> QED BY <1>1, LedgerInvariant, PTL DEF LedgerSpec, OutcomeIsFinal

\* An operation id is bound to one request and one management operation for
\* ever (claim_on_connection, set_management_operation).
THEOREM BindingFinal == LedgerSpec => BindingIsFinal
<1> DEFINE Kept == \A o \in Op :
                     /\ request[o] # None => request'[o] = request[o]
                     /\ mgmtOp[o] # None => mgmtOp'[o] = mgmtOp[o]
<1>1. LedgerInv /\ [LedgerNext]_ledgerVars => [Kept]_ledgerVars
  BY StepKeepsBindings
<1> QED BY <1>1, LedgerInvariant, PTL DEF LedgerSpec, BindingIsFinal

\* A generation is left only for the next one and only after a destroy of it
\* succeeded (claim_managed), for any sequence of generations.
THEOREM AdvanceAfterDestroy == LedgerSpec => AdvanceOnlyAfterDestroy
<1> DEFINE Kept == \A i \in Instance : instGen[i] # 0 /\ instGen'[i] # instGen[i] =>
                     instGen'[i] = instGen[i] + 1 /\ DestroySucceeded(i)
<1>1. LedgerInv /\ [LedgerNext]_ledgerVars => [Kept]_ledgerVars
  <2> SUFFICES ASSUME LedgerInv, LedgerNext, NEW i \in Instance,
                      instGen[i] # 0, instGen'[i] # instGen[i]
               PROVE  instGen'[i] = instGen[i] + 1 /\ DestroySucceeded(i)
    OBVIOUS
  <2>1. PICK c \in Command : ClaimManaged(c)
    BY DEF LedgerNext, BeginDispatch, MarkUnknown, SetManagementOperation, Complete, instCols
  <2>2. /\ ~IsCurrent(c)
        /\ instGen' = [instGen EXCEPT ![c.instance] = c.generation]
    BY <2>1 DEF ClaimManaged, BindGeneration, instCols
  <2>3. i = c.instance /\ c.instance \in Instance
    BY <2>2, CommandFields DEF LedgerInv, LedgerTypeOK
  <2>4. Advances(c)
    BY <2>1, <2>2, <2>3 DEF ClaimManaged, Admitted, Registers
  <2>5. DestroySucceeded(i)
    BY <2>3, <2>4 DEF Advances, LedgerInv, DestroyedIsWitnessed
  <2> QED BY <2>2, <2>3, <2>4, <2>5 DEF Advances, LedgerInv, LedgerTypeOK
<1> QED BY <1>1, LedgerInvariant, PTL DEF LedgerSpec, AdvanceOnlyAfterDestroy

-----------------------------------------------------------------------------
(* The callback handlers.                                                  *)

\* A handler that is serving a callback has a command with an operation id.
LEMMA JobFields ==
  ASSUME CallbackInv, NEW h \in Handler, pc[h] # "idle"
  PROVE  job[h] \in Command /\ JobOp(h) \in Op
<1>1. job[h] \in Command
  BY DEF CallbackInv, CallbackTypeOK, HandlersKnow, Knows
<1> QED BY <1>1, CommandFields DEF JobOp

\* The effects a handler may record: a terminal one carries a terminal code.
LEMMA RecordedTerm ==
  ASSUME CallbackInv, NEW h \in Handler, pc[h] \in {"bind", "finish", "settle"}
  PROVE  /\ eff[h] \in ProviderEffect
         /\ eff[h].mop \in MgmtOp \cup {None}
         /\ eff[h].status \in TerminalStatus => eff[h].term \in Terminal
<1>1. /\ eff[h] \in ProviderEffect
      /\ eff[h].status \in TerminalStatus => eff[h].term \in CallbackTerminal
  BY DEF CallbackInv, HandlersKnow, Knows
<1>2. eff[h].mop \in MgmtOp \cup {None}
  BY <1>1 DEF ProviderEffect
<1> QED BY <1>1, <1>2, TerminalAssumption

\* Whatever the handlers do to the ledger is a call of one of its methods.
LEMMA LedgerCalls ==
  ASSUME CallbackInv, [CallbackNext]_callbackVars
  PROVE  [LedgerNext]_ledgerVars
<1>1. CASE UNCHANGED callbackVars
  BY <1>1 DEF callbackVars
<1>2. CASE \E h \in Handler, c \in Command :
             \E g \in {d.generation : d \in Command} : Receive(h, c, g)
  BY <1>2 DEF Receive
<1>3. ASSUME NEW h \in Handler, HandlerStep(h)
      PROVE  [LedgerNext]_ledgerVars
  <2>1. CASE Claim(h)
    BY <2>1, JobFields DEF Claim, LedgerNext
  <2>2. CASE ReadRecord(h) \/ Reread(h) \/ Dispatch(h) \/ Resume(h) \/ Answer(h)
    BY <2>2 DEF ReadRecord, Reread, Dispatch, Resume, Answer
  <2>3. CASE Begin(h)
    BY <2>3, JobFields DEF Begin, LedgerNext
  <2>4. CASE Bind(h)
    <3>1. eff[h].mop \in MgmtOp \cup {None} /\ JobOp(h) \in Op
      BY <2>4, RecordedTerm, JobFields DEF Bind, CallbackInv, HandlersKnow, Knows
    <3> QED BY <2>4, <3>1 DEF Bind, LedgerNext
  <2>5. ASSUME pc[h] \in {"finish", "settle"}, eff[h].status \in TerminalStatus,
               CompleteOrConflict(h)
        PROVE  [LedgerNext]_ledgerVars
    <3>1. eff[h].term \in Terminal /\ JobOp(h) \in Op
      BY <2>5, RecordedTerm, JobFields DEF CallbackInv, HandlersKnow, Knows
    <3> QED BY <2>5, <3>1 DEF CompleteOrConflict, LedgerNext
  <2>6. CASE Finish(h)
    <3>1. JobOp(h) \in Op
      BY <2>6, JobFields DEF Finish
    <3> QED BY <2>5, <2>6, <3>1 DEF Finish, LedgerNext
  <2>7. CASE Settle(h)
    BY <2>5, <2>7 DEF Settle, CallbackInv, HandlersKnow, Knows
  <2>8. CASE GiveUp(h)
    BY <2>8, JobFields DEF GiveUp, LedgerNext
  <2> QED BY <1>3, <2>1, <2>2, <2>3, <2>4, <2>6, <2>7, <2>8 DEF HandlerStep
<1>4. CASE \E h \in Handler : GateFailure(h) \/ Disconnect(h) \/ Close(h)
  BY <1>4 DEF GateFailure, Disconnect, Close
<1>5. CASE \/ \E m \in MgmtOp : ProvisionEnds(m) \/ Expire(m)
           \/ Restart
  BY <1>5 DEF ProvisionEnds, Expire, Restart
<1> QED BY <1>1, <1>2, <1>3, <1>4, <1>5 DEF CallbackNext

\* A handler that a step leaves alone knows afterwards what it knew before.
LEMMA UntouchedKnows ==
  ASSUME CallbackInv, [CallbackNext]_callbackVars, NEW g \in Handler,
         pc'[g] = pc[g], job'[g] = job[g], snap'[g] = snap[g], eff'[g] = eff[g]
  PROVE  Knows(g)' /\ HasAnswer(g)'
<1>1. Knows(g) /\ HasAnswer(g)
  BY DEF CallbackInv, HandlersKnow, UndecidedBeforeDispatch
<1>2. CASE pc[g] = "idle"
  BY <1>1, <1>2 DEF Knows, HasAnswer
<1>3. CASE pc[g] # "idle"
  <2>1. JobOp(g) \in Op /\ job[g] # None
    BY <1>1, <1>3, JobFields DEF Knows
  <2>2. /\ request[JobOp(g)] # None => request'[JobOp(g)] = request[JobOp(g)]
        /\ mgmtOp[JobOp(g)] # None => mgmtOp'[JobOp(g)] = mgmtOp[JobOp(g)]
    BY <2>1, LedgerCalls, StepKeepsBindings DEF CallbackInv
  <2>3. JobOp(g)' = JobOp(g)
    BY DEF JobOp
  <2> QED BY <1>1, <2>1, <2>2, <2>3 DEF Knows, HasAnswer
<1> QED BY <1>2, <1>3

-----------------------------------------------------------------------------
(* The handlers' part of the invariant, step by step.                      *)

\* The part of CallbackInv that is not the ledger's own.
HandlersInv ==
  /\ CallbackTypeOK
  /\ HandlersKnow
  /\ StoreIsIssued
  /\ DispatchOwned
  /\ InvocationsGranted
  /\ UndecidedBeforeDispatch

\* Steps that touch neither the ledger nor the provider and do not lead to a
\* dispatch: receiving, reading, resuming, answering and closing.
LEMMA QuietStepInv ==
  ASSUME CallbackInv, [CallbackNext]_callbackVars, NEW h \in Handler,
         UNCHANGED <<ledgerVars, providerVars>>,
         \A g \in Handler : g # h =>
           pc'[g] = pc[g] /\ job'[g] = job[g] /\ snap'[g] = snap[g] /\ eff'[g] = eff[g],
         pc'[h] \notin Owning,
         CallbackTypeOK', Knows(h)', HasAnswer(h)'
  PROVE  HandlersInv'
<1>1. HandlersKnow' /\ \A g \in Handler : HasAnswer(g)'
  BY UntouchedKnows DEF HandlersKnow
<1>2. \A g \in Handler : pc'[g] \in Owning =>
        g # h /\ pc[g] = pc'[g] /\ job[g] = job'[g] /\ JobOp(g)' = JobOp(g)
  BY DEF JobOp
<1>3. /\ status' = status /\ dispatchCount' = dispatchCount /\ mgmtOp' = mgmtOp
      /\ invoked' = invoked
  BY DEF ledgerVars, providerVars
<1>4. DispatchOwned'
  BY <1>2, <1>3 DEF DispatchOwned, CallbackInv
<1>5. InvocationsGranted'
  BY <1>2, <1>3 DEF InvocationsGranted, CallbackInv, Owning
<1>6. \A g \in Handler : pc'[g] = "dispatch" => Undispatched(g)'
  BY <1>2, <1>3 DEF UndecidedBeforeDispatch, Undispatched, CallbackInv, Owning
<1>7. StoreIsIssued'
  BY DEF StoreIsIssued, CallbackInv, providerVars
<1> QED BY <1>1, <1>4, <1>5, <1>6, <1>7 DEF HandlersInv, UndecidedBeforeDispatch

\* effect_callback up to the claim.
LEMMA ReceiveInv ==
  ASSUME CallbackInv, NEW h \in Handler, NEW c \in Command,
         NEW g \in {d.generation : d \in Command}, Receive(h, c, g)
  PROVE  HandlersInv'
<1>1. [CallbackNext]_callbackVars
  BY DEF CallbackNext
<1>2. pc' \in [Handler -> Step] /\ pc'[h] \in {"claim", "done"} /\ job'[h] = c /\ c # None
  BY CommandFields DEF Receive, GoTo, Respond, CallbackInv, CallbackTypeOK, Step
<1>3. CallbackTypeOK'
  BY <1>2 DEF Receive, GoTo, Respond, CallbackInv, CallbackTypeOK, LedgerTypeOK,
     ledgerVars, providerVars
<1>4. Knows(h)' /\ HasAnswer(h)'
  BY <1>2 DEF Receive, Knows, HasAnswer, CallbackInv, HandlersKnow
<1>5. \A k \in Handler : k # h =>
        pc'[k] = pc[k] /\ job'[k] = job[k] /\ snap'[k] = snap[k] /\ eff'[k] = eff[k]
  BY DEF Receive, GoTo, Respond, CallbackInv, CallbackTypeOK
<1> QED BY <1>1, <1>2, <1>3, <1>4, <1>5, QuietStepInv DEF Receive, Owning

\* The reads of the ledger record after the claim and after a lost race.
LEMMA ReadInv ==
  ASSUME CallbackInv, NEW h \in Handler, ReadRecord(h) \/ Reread(h)
  PROVE  HandlersInv'
<1>1. [CallbackNext]_callbackVars
  BY DEF CallbackNext, HandlerStep
<1>2. /\ pc[h] \in {"read", "reread"}
      /\ job[h] \in Command /\ JobOp(h) \in Op /\ request[JobOp(h)] = job[h]
  BY JobFields DEF ReadRecord, Reread, CallbackInv, HandlersKnow, Knows
<1>3. /\ status[JobOp(h)] \in OpenStatus \cup TerminalStatus
      /\ mgmtOp[JobOp(h)] \in MgmtOp \cup {None}
  BY <1>2, CommandFields DEF CallbackInv, LedgerInv, LedgerTypeOK, RowsAreWhole
<1>4. CurrentRecord(JobOp(h)) \in Snapshot /\ CurrentRecord(JobOp(h)).mop = mgmtOp[JobOp(h)]
  BY <1>3 DEF CurrentRecord, Snapshot
<1>5. /\ pc' \in [Handler -> Step] /\ pc'[h] \in {"done", "resume", "begin"}
      /\ job' = job /\ eff' = eff
      /\ snap' \in [Handler -> Snapshot \cup {None}]
      /\ reply' \in [Handler -> OpenStatus \cup TerminalStatus \cup {"error", None}]
      /\ pc'[h] = "resume" => snap'[h] = CurrentRecord(JobOp(h))
  BY <1>3, <1>4 DEF ReadRecord, Reread, GoTo, Respond, CallbackInv, CallbackTypeOK, Step
<1>6. UNCHANGED <<ledgerVars, providerVars>>
  BY DEF ReadRecord, Reread
<1>7. CallbackTypeOK'
  BY <1>5, <1>6 DEF CallbackInv, CallbackTypeOK, LedgerTypeOK, ledgerVars, providerVars
<1>8. Knows(h)' /\ HasAnswer(h)'
  BY <1>2, <1>4, <1>5, <1>6
  DEF Knows, HasAnswer, JobOp, CallbackInv, HandlersKnow, ledgerVars
<1>9. \A k \in Handler : k # h =>
        pc'[k] = pc[k] /\ job'[k] = job[k] /\ snap'[k] = snap[k] /\ eff'[k] = eff[k]
  BY DEF ReadRecord, Reread, GoTo, Respond, CallbackInv, CallbackTypeOK
<1> QED BY <1>1, <1>5, <1>6, <1>7, <1>8, <1>9, QuietStepInv DEF Owning

\* resume_effect up to its write: the lookup of the management operation.
LEMMA ResumeInv ==
  ASSUME CallbackInv, NEW h \in Handler, Resume(h)
  PROVE  HandlersInv'
<1>1. [CallbackNext]_callbackVars
  BY DEF CallbackNext, HandlerStep
<1>2. /\ pc[h] = "resume" /\ snap[h] \in Snapshot
      /\ job[h] \in Command /\ request[JobOp(h)] = job[h]
      /\ snap[h].mop # None => mgmtOp[JobOp(h)] # None
  BY JobFields
  DEF Resume, CallbackInv, HandlersKnow, Knows, UndecidedBeforeDispatch, HasAnswer
<1>3. snap[h].mop \in MgmtOp \cup {None}
  BY <1>2 DEF Snapshot
<1>4. ASSUME NEW m \in MgmtOp \cup {None}
      PROVE  /\ Code("observe_no_effect", None) \in CallbackTerminal
             /\ Code("operation.failed", None) \in CallbackTerminal
             /\ Code("none", m) \in CallbackTerminal
  BY DEF Code, CallbackTerminal
<1>5. ASSUME NEW s \in TerminalStatus, NEW m \in MgmtOp \cup {None},
             NEW t \in CallbackTerminal
      PROVE  /\ Effect(s, m, t) \in ProviderEffect
             /\ Effect(s, m, t).status = s /\ Effect(s, m, t).term = t
  BY DEF Effect, ProviderEffect
<1>6. /\ pc' \in [Handler -> Step] /\ pc'[h] \in {"settle", "giveup", "answer"}
      /\ eff' \in [Handler -> ProviderEffect \cup {None}]
      /\ pc'[h] = "settle" =>
           /\ eff'[h] \in ProviderEffect
           /\ eff'[h].status \in TerminalStatus
           /\ eff'[h].term \in CallbackTerminal
           /\ job[h].action = "observe" \/ snap[h].mop # None
  <2>1. CASE InterruptedObserve(h) /\ GoTo(h, "settle") /\
             eff' = [eff EXCEPT ![h] = Effect("succeeded", None, Code("observe_no_effect", None))]
    <3>1. /\ Effect("succeeded", None, Code("observe_no_effect", None)) \in ProviderEffect
          /\ Effect("succeeded", None, Code("observe_no_effect", None)).status = "succeeded"
          /\ Effect("succeeded", None, Code("observe_no_effect", None)).term
               = Code("observe_no_effect", None)
      BY <1>4, <1>5 DEF TerminalStatus
    <3> QED BY <1>4, <2>1, <3>1
        DEF InterruptedObserve, GoTo, CallbackInv, CallbackTypeOK, Step, TerminalStatus
  <2>2. CASE snap[h].mop # None /\ GoTo(h, "settle") /\
             eff' = [eff EXCEPT ![h] = Found(snap[h].mop)]
    <3>1. /\ Found(snap[h].mop) \in ProviderEffect
          /\ Found(snap[h].mop).status \in TerminalStatus
          /\ Found(snap[h].mop).term \in CallbackTerminal
      BY <1>3, <1>4, <1>5 DEF Found, TerminalStatus
    <3> QED BY <2>2, <3>1 DEF GoTo, CallbackInv, CallbackTypeOK, Step
  <2>3. CASE UNCHANGED eff /\ (GoTo(h, "giveup") \/ GoTo(h, "answer"))
    BY <2>3 DEF GoTo, CallbackInv, CallbackTypeOK, Step
  <2> QED BY <2>1, <2>2, <2>3 DEF Resume
<1>7. UNCHANGED <<ledgerVars, providerVars>> /\ UNCHANGED <<job, snap, reply>>
  BY DEF Resume
<1>8. CallbackTypeOK'
  BY <1>6, <1>7 DEF CallbackInv, CallbackTypeOK, LedgerTypeOK, ledgerVars, providerVars
<1>9. Knows(h)' /\ HasAnswer(h)'
  BY <1>2, <1>6, <1>7, NoCommandAssumption DEF Knows, HasAnswer, JobOp, ledgerVars
<1>10. \A k \in Handler : k # h => pc'[k] = pc[k] /\ eff'[k] = eff[k]
  BY DEF Resume, GoTo, CallbackInv, CallbackTypeOK
<1> QED BY <1>1, <1>6, <1>7, <1>8, <1>9, <1>10, QuietStepInv DEF Owning

\* The end of a handler: its answer, an answer the gate replaces, its close.
LEMMA EndInv ==
  ASSUME CallbackInv, NEW h \in Handler, Answer(h) \/ GateFailure(h) \/ Close(h)
  PROVE  HandlersInv'
<1>1. [CallbackNext]_callbackVars
  BY DEF CallbackNext, HandlerStep
<1>2. pc[h] # "idle" /\ job[h] \in Command /\ JobOp(h) \in Op
  BY JobFields DEF Answer, GateFailure, Close
<1>3. pc[h] = "answer" => status[JobOp(h)] \in OpenStatus \cup TerminalStatus
  BY <1>2, NoCommandAssumption
  DEF CallbackInv, HandlersKnow, Knows, LedgerInv, LedgerTypeOK, RowsAreWhole
<1>4. UNCHANGED <<ledgerVars, providerVars>>
  BY DEF Answer, GateFailure, Close
<1>5. /\ pc' \in [Handler -> Step] /\ pc'[h] \in {"done", "idle"}
      /\ job' \in [Handler -> Command \cup {None}]
      /\ pc'[h] = "done" => job'[h] = job[h]
      /\ snap' \in [Handler -> Snapshot \cup {None}]
      /\ eff' \in [Handler -> ProviderEffect \cup {None}]
      /\ reply' \in [Handler -> OpenStatus \cup TerminalStatus \cup {"error", None}]
  BY <1>3 DEF Answer, GateFailure, Close, Forget, GoTo, Respond, CallbackInv,
     CallbackTypeOK, Step
<1>6. CallbackTypeOK'
  BY <1>4, <1>5 DEF CallbackInv, CallbackTypeOK, LedgerTypeOK, ledgerVars, providerVars
<1>7. Knows(h)' /\ HasAnswer(h)'
  BY <1>2, <1>5, NoCommandAssumption DEF Knows, HasAnswer
<1>8. \A k \in Handler : k # h =>
        pc'[k] = pc[k] /\ job'[k] = job[k] /\ snap'[k] = snap[k] /\ eff'[k] = eff[k]
  BY DEF Answer, GateFailure, Close, Forget, GoTo, Respond, CallbackInv, CallbackTypeOK
<1> QED BY <1>1, <1>4, <1>5, <1>6, <1>7, <1>8, QuietStepInv DEF Owning

\* Steps of handler h that write the ledger without granting a dispatch: it is
\* enough that the owners of other dispatches find their rows undecided.
LEMMA WriteStepInv ==
  ASSUME CallbackInv, [CallbackNext]_callbackVars, NEW h \in Handler,
         UNCHANGED <<dispatchCount, job, snap, eff, providerVars>>,
         \A g \in Handler : g # h => pc'[g] = pc[g],
         pc'[h] \in Owning => pc[h] \in Owning,
         pc'[h] # "dispatch",
         \A g \in Handler : g # h /\ pc[g] = "dispatch" => Undispatched(g)',
         CallbackTypeOK', Knows(h)', HasAnswer(h)'
  PROVE  HandlersInv'
<1>1. HandlersKnow' /\ \A g \in Handler : HasAnswer(g)'
  BY UntouchedKnows DEF HandlersKnow
<1>2. \A g \in Handler : JobOp(g)' = JobOp(g) /\ (pc'[g] \in Owning => pc[g] \in Owning)
  BY DEF JobOp
<1>3. invoked' = invoked
  BY DEF providerVars
<1>4. DispatchOwned'
  BY <1>2 DEF DispatchOwned, CallbackInv
<1>5. InvocationsGranted'
  BY <1>2, <1>3 DEF InvocationsGranted, CallbackInv
<1>6. \A g \in Handler : pc'[g] = "dispatch" => Undispatched(g)'
  OBVIOUS
<1>7. StoreIsIssued'
  BY DEF StoreIsIssued, CallbackInv, providerVars
<1> QED BY <1>1, <1>4, <1>5, <1>6, <1>7 DEF HandlersInv, UndecidedBeforeDispatch

\* The ledger stays well-typed through every step of the handlers.
LEMMA LedgerInvKept ==
  ASSUME CallbackInv, [CallbackNext]_callbackVars
  PROVE  LedgerInv'
BY LedgerCalls, LedgerStepInv DEF CallbackInv

\* claim_managed: rows that exist stay as they are.
LEMMA ClaimInv ==
  ASSUME CallbackInv, NEW h \in Handler, Claim(h)
  PROVE  HandlersInv'
<1>1. [CallbackNext]_callbackVars
  BY DEF CallbackNext, HandlerStep
<1>2. pc[h] = "claim" /\ job[h] \in Command /\ JobOp(h) \in Op
  BY JobFields DEF Claim
<1>3. /\ UNCHANGED <<job, snap, eff, providerVars>>
      /\ UNCHANGED <<dispatchCount, mgmtOp>>
      /\ \A o \in Op : status[o] # "absent" => status'[o] = status[o]
  BY <1>2 DEF Claim, ClaimManaged, InsertPending, effectCols, ledgerVars, CallbackInv,
     LedgerInv, LedgerTypeOK, JobOp
<1>4. /\ pc' \in [Handler -> Step] /\ pc'[h] \in {"read", "done"}
      /\ reply' \in [Handler -> OpenStatus \cup TerminalStatus \cup {"error", None}]
      /\ \A g \in Handler : g # h => pc'[g] = pc[g]
  BY DEF Claim, GoTo, Respond, CallbackInv, CallbackTypeOK, Step
<1>5. CallbackTypeOK'
  BY <1>1, <1>3, <1>4, LedgerInvKept
  DEF CallbackInv, CallbackTypeOK, LedgerInv, providerVars
<1>6. pc'[h] = "read" => request'[JobOp(h)] = job[h]
  <2>1. CASE Admitted(job[h]) /\ ~Collides(job[h])
    <3>1. request[JobOp(h)] \in {None, job[h]}
      BY <2>1 DEF Collides, JobOp
    <3>2. CASE status[JobOp(h)] = "absent"
      BY <1>2, <2>1, <3>2 DEF Claim, ClaimManaged, InsertPending, JobOp, CallbackInv,
         LedgerInv, LedgerTypeOK
    <3>3. CASE status[JobOp(h)] # "absent"
      BY <1>2, <2>1, <3>1, <3>3 DEF Claim, ClaimManaged, InsertPending, effectCols, JobOp,
         CallbackInv, LedgerInv, RowsAreWhole
    <3> QED BY <3>2, <3>3
  <2>2. CASE ~(Admitted(job[h]) /\ ~Collides(job[h]))
    BY <2>2 DEF Claim, Respond, GoTo, CallbackInv, CallbackTypeOK
  <2> QED BY <2>1, <2>2
<1>7. Knows(h)' /\ HasAnswer(h)'
  BY <1>2, <1>3, <1>4, <1>6, NoCommandAssumption DEF Knows, HasAnswer, JobOp
<1>8. ASSUME NEW g \in Handler, g # h, pc[g] = "dispatch"
      PROVE  Undispatched(g)'
  <2>1. Undispatched(g) /\ JobOp(g) \in Op
    BY <1>8, JobFields DEF CallbackInv, UndecidedBeforeDispatch
  <2> QED BY <1>3, <2>1 DEF Undispatched, JobOp
<1> QED BY <1>1, <1>3, <1>4, <1>5, <1>7, <1>8, WriteStepInv DEF Owning

\* begin_dispatch: the grant goes to a row nobody owns.
LEMMA BeginInv ==
  ASSUME CallbackInv, NEW h \in Handler, Begin(h)
  PROVE  HandlersInv'
<1>1. [CallbackNext]_callbackVars
  BY DEF CallbackNext, HandlerStep
<1>2. pc[h] = "begin" /\ job[h] \in Command /\ JobOp(h) \in Op /\ request[JobOp(h)] = job[h]
  BY JobFields DEF Begin, CallbackInv, HandlersKnow, Knows
<1>3. /\ UNCHANGED <<job, snap, eff, reply, providerVars>>
      /\ pc' \in [Handler -> Step] /\ pc'[h] \in {"dispatch", "reread"}
      /\ \A g \in Handler : g # h => pc'[g] = pc[g]
      /\ UNCHANGED <<request, mgmtOp>>
  BY DEF Begin, BeginDispatch, GoTo, CallbackInv, CallbackTypeOK, Step, ledgerVars
<1>4. CallbackTypeOK'
  BY <1>1, <1>3, LedgerInvKept DEF CallbackInv, CallbackTypeOK, LedgerInv, providerVars
<1>5. Knows(h)' /\ HasAnswer(h)'
  BY <1>2, <1>3, NoCommandAssumption DEF Knows, HasAnswer, JobOp
<1>6. CASE ~GrantsDispatch(JobOp(h))
  <2>1. UNCHANGED ledgerVars /\ pc'[h] = "reread"
    BY <1>6 DEF Begin, GoTo, CallbackInv, CallbackTypeOK
  <2>2. \A g \in Handler : g # h => pc'[g] = pc[g] /\ job'[g] = job[g]
                                     /\ snap'[g] = snap[g] /\ eff'[g] = eff[g]
    BY <1>3
  <2> QED BY <1>1, <1>3, <1>4, <1>5, <2>1, <2>2, QuietStepInv DEF Owning
<1>7. CASE GrantsDispatch(JobOp(h))
  <2>1. /\ status' = [status EXCEPT ![JobOp(h)] = "dispatched"]
        /\ dispatchCount' = [dispatchCount EXCEPT ![JobOp(h)] = @ + 1]
    BY <1>7 DEF Begin, BeginDispatch
  <2>2. status[JobOp(h)] = "pending" /\ dispatchCount[JobOp(h)] = 0
    BY <1>2, <1>7 DEF GrantsDispatch, CallbackInv, LedgerInv, SingleDispatchOwner
  <2>3. ASSUME NEW g \in Handler, pc[g] \in Owning
        PROVE  /\ JobOp(g) \in Op /\ JobOp(g) # JobOp(h) /\ g # h
               /\ JobOp(g)' = JobOp(g)
               /\ dispatchCount'[JobOp(g)] = dispatchCount[JobOp(g)]
               /\ status'[JobOp(g)] = status[JobOp(g)]
    <3>1. JobOp(g) \in Op /\ dispatchCount[JobOp(g)] = 1
      BY <2>3, JobFields DEF CallbackInv, DispatchOwned, Owning
    <3>2. JobOp(g) # JobOp(h) /\ g # h
      BY <1>2, <2>2, <2>3, <3>1 DEF Owning
    <3> QED BY <1>2, <1>3, <2>1, <3>1, <3>2 DEF JobOp, CallbackInv, LedgerInv, LedgerTypeOK
  <2>4. JobOp(h)' = JobOp(h) /\ dispatchCount'[JobOp(h)] = 1 /\ status'[JobOp(h)] = "dispatched"
    BY <1>2, <1>3, <2>1, <2>2 DEF JobOp, CallbackInv, LedgerInv, LedgerTypeOK
  <2>5. HandlersKnow' /\ \A g \in Handler : HasAnswer(g)'
    BY <1>1, <1>3, <1>5, UntouchedKnows DEF HandlersKnow
  <2>6. DispatchOwned'
    <3> SUFFICES ASSUME NEW g \in Handler, pc'[g] \in Owning
                 PROVE  /\ dispatchCount'[JobOp(g)'] = 1
                        /\ \A k \in Handler :
                             pc'[k] \in Owning /\ JobOp(k)' = JobOp(g)' => k = g
      BY DEF DispatchOwned
    <3>1. CASE g = h
      BY <1>3, <2>3, <2>4, <3>1
    <3>2. CASE g # h
      BY <1>3, <2>3, <2>4, <3>2 DEF CallbackInv, DispatchOwned
    <3> QED BY <3>1, <3>2
  <2>7. invoked' = invoked /\ invoked[JobOp(h)] = 0
    BY <1>2, <1>3, <2>2 DEF providerVars, CallbackInv, InvocationsGranted, CallbackTypeOK
  <2>8. InvocationsGranted'
    <3>1. \A o \in Op : invoked'[o] <= dispatchCount'[o]
      BY <1>2, <2>1, <2>2, <2>7
      DEF CallbackInv, InvocationsGranted, LedgerInv, LedgerTypeOK, CallbackTypeOK
    <3>2. \A g \in Handler : pc'[g] = "dispatch" => invoked'[JobOp(g)'] = 0
      BY <1>3, <2>3, <2>4, <2>7 DEF CallbackInv, InvocationsGranted, Owning
    <3> QED BY <3>1, <3>2 DEF InvocationsGranted
  <2>9. ASSUME NEW g \in Handler, pc'[g] = "dispatch"
        PROVE  Undispatched(g)'
    <3>1. CASE g = h
      <4>1. mgmtOp[JobOp(h)] = None
        BY <1>2, <2>2 DEF CallbackInv, LedgerInv, UnboundUntilDispatched
      <4> QED BY <1>3, <2>4, <3>1, <4>1 DEF Undispatched
    <3>2. CASE g # h
      <4>1. pc[g] = "dispatch" /\ Undispatched(g)
        BY <1>3, <2>9, <3>2 DEF CallbackInv, UndecidedBeforeDispatch
      <4> QED BY <1>3, <2>3, <4>1 DEF Undispatched, Owning
    <3> QED BY <3>1, <3>2
  <2>10. StoreIsIssued'
    BY <1>3 DEF StoreIsIssued, CallbackInv, providerVars
  <2> QED BY <1>4, <2>5, <2>6, <2>8, <2>9, <2>10 DEF HandlersInv, UndecidedBeforeDispatch
<1> QED BY <1>6, <1>7

\* set_management_operation by the owner of the dispatch.
LEMMA BindInv ==
  ASSUME CallbackInv, NEW h \in Handler, Bind(h)
  PROVE  HandlersInv'
<1>1. [CallbackNext]_callbackVars
  BY DEF CallbackNext, HandlerStep
<1>2. /\ pc[h] = "bind" /\ job[h] \in Command /\ JobOp(h) \in Op /\ request[JobOp(h)] = job[h]
      /\ eff[h] \in ProviderEffect
      /\ eff[h].status \in TerminalStatus => eff[h].term \in CallbackTerminal
  BY JobFields DEF Bind, CallbackInv, HandlersKnow, Knows
<1>3. /\ UNCHANGED <<job, snap, eff, providerVars>>
      /\ pc' \in [Handler -> Step] /\ pc'[h] \in {"finish", "done"}
      /\ reply' \in [Handler -> OpenStatus \cup TerminalStatus \cup {"error", None}]
      /\ \A g \in Handler : g # h => pc'[g] = pc[g]
      /\ UNCHANGED <<request, status, dispatchCount>>
      /\ \A o \in Op : o # JobOp(h) => mgmtOp'[o] = mgmtOp[o]
  BY DEF Bind, SetManagementOperation, GoTo, Respond, CallbackInv, CallbackTypeOK, Step,
     ledgerVars, LedgerInv, LedgerTypeOK
<1>4. CallbackTypeOK'
  BY <1>1, <1>3, LedgerInvKept DEF CallbackInv, CallbackTypeOK, LedgerInv, providerVars
<1>5. Knows(h)' /\ HasAnswer(h)'
  BY <1>2, <1>3, NoCommandAssumption DEF Knows, HasAnswer, JobOp
<1>6. ASSUME NEW g \in Handler, g # h, pc[g] = "dispatch"
      PROVE  Undispatched(g)'
  <2>1. Undispatched(g) /\ JobOp(g) \in Op
    BY <1>6, JobFields DEF CallbackInv, UndecidedBeforeDispatch
  <2>2. JobOp(g) # JobOp(h)
    BY <1>2, <1>6 DEF CallbackInv, DispatchOwned, Owning
  <2> QED BY <1>3, <2>1, <2>2 DEF Undispatched, JobOp
<1> QED BY <1>1, <1>2, <1>3, <1>4, <1>5, <1>6, WriteStepInv DEF Owning

\* The writes that end a dispatch or a resumption: complete_with_code and
\* mark_unknown.  None decides a row whose dispatch is still to be made.
LEMMA OutcomeInv ==
  ASSUME CallbackInv, NEW h \in Handler, Finish(h) \/ Settle(h) \/ GiveUp(h)
  PROVE  HandlersInv'
<1>1. [CallbackNext]_callbackVars
  BY DEF CallbackNext, HandlerStep
<1>2. /\ pc[h] \in {"finish", "settle", "giveup"}
      /\ job[h] \in Command /\ JobOp(h) \in Op /\ request[JobOp(h)] = job[h]
  BY JobFields DEF Finish, Settle, GiveUp, CallbackInv, HandlersKnow, Knows
<1>3. /\ UNCHANGED <<job, snap, eff, providerVars>>
      /\ pc' \in [Handler -> Step] /\ pc'[h] \in {"answer", "done"}
      /\ reply' \in [Handler -> OpenStatus \cup TerminalStatus \cup {"error", None}]
      /\ \A g \in Handler : g # h => pc'[g] = pc[g]
      /\ UNCHANGED <<request, dispatchCount, mgmtOp>>
      /\ \A o \in Op : o # JobOp(h) => status'[o] = status[o]
      /\ pc[h] = "giveup" =>
           status'[JobOp(h)] \in {status[JobOp(h)], "unknown"}
  BY <1>2 DEF Finish, Settle, GiveUp, CompleteOrConflict, Complete, MarkUnknown, GoTo, Respond,
     CallbackInv, CallbackTypeOK, Step, ledgerVars, LedgerInv, LedgerTypeOK
<1>4. CallbackTypeOK'
  BY <1>1, <1>3, LedgerInvKept DEF CallbackInv, CallbackTypeOK, LedgerInv, providerVars
<1>5. Knows(h)' /\ HasAnswer(h)'
  BY <1>2, <1>3, NoCommandAssumption DEF Knows, HasAnswer, JobOp
<1>6. ASSUME NEW g \in Handler, g # h, pc[g] = "dispatch"
      PROVE  Undispatched(g)'
  <2>1. Undispatched(g) /\ JobOp(g) \in Op /\ request[JobOp(g)] = job[g]
    BY <1>6, JobFields DEF CallbackInv, UndecidedBeforeDispatch, HandlersKnow, Knows
  <2>2. CASE JobOp(g) # JobOp(h)
    BY <1>3, <2>1, <2>2 DEF Undispatched, JobOp
  <2>3. CASE JobOp(g) = JobOp(h)
    <3>1. pc[h] # "finish"
      BY <1>6, <2>3 DEF CallbackInv, DispatchOwned, Owning
    <3>2. CASE pc[h] = "settle"
      <4>1. job[h].action = "observe"
        BY <2>1, <2>3, <3>2 DEF Undispatched, CallbackInv, UndecidedBeforeDispatch, HasAnswer
      <4>2. job[g] = job[h]
        BY <1>2, <2>1, <2>3
      <4> QED BY <1>3, <2>1, <4>1, <4>2 DEF Undispatched, JobOp
    <3>3. CASE pc[h] = "giveup"
      BY <1>3, <2>1, <2>3, <3>3 DEF Undispatched, JobOp
    <3> QED BY <1>2, <3>1, <3>2, <3>3
  <2> QED BY <2>2, <2>3
<1> QED BY <1>1, <1>2, <1>3, <1>4, <1>5, <1>6, WriteStepInv DEF Owning

\* The owner leaves "dispatch", having invoked the provider once or not at
\* all; nobody else is there for the same operation.
LEMMA OwnerMovesInv ==
  ASSUME CallbackInv, [CallbackNext]_callbackVars, NEW h \in Handler, pc[h] = "dispatch",
         UNCHANGED ledgerVars, invoked' = invoked \/ Invoke(JobOp(h)),
         \A g \in Handler : g # h =>
           pc'[g] = pc[g] /\ job'[g] = job[g] /\ snap'[g] = snap[g] /\ eff'[g] = eff[g],
         \/ pc'[h] = "bind" /\ job'[h] = job[h]
         \/ pc'[h] = "idle",
         CallbackTypeOK', StoreIsIssued', Knows(h)', HasAnswer(h)'
  PROVE  HandlersInv'
<1>1. JobOp(h) \in Op /\ dispatchCount[JobOp(h)] = 1 /\ invoked[JobOp(h)] = 0
  BY JobFields DEF CallbackInv, DispatchOwned, InvocationsGranted, Owning
<1>2. HandlersKnow' /\ \A g \in Handler : HasAnswer(g)'
  BY UntouchedKnows DEF HandlersKnow
<1>3. \A g \in Handler : pc'[g] \in Owning =>
        pc[g] \in Owning /\ JobOp(g)' = JobOp(g) /\ job'[g] = job[g]
  BY DEF Owning, JobOp
<1>4. status' = status /\ dispatchCount' = dispatchCount /\ mgmtOp' = mgmtOp
  BY DEF ledgerVars
<1>5. DispatchOwned'
  BY <1>3, <1>4 DEF DispatchOwned, CallbackInv
<1>6. ASSUME NEW g \in Handler, pc'[g] = "dispatch"
      PROVE  /\ g # h /\ pc[g] = "dispatch" /\ JobOp(g) # JobOp(h) /\ JobOp(g) \in Op
             /\ JobOp(g)' = JobOp(g) /\ job'[g] = job[g]
  <2>1. g # h /\ pc[g] = "dispatch" /\ JobOp(g)' = JobOp(g) /\ job'[g] = job[g]
    BY <1>3, <1>6 DEF Owning
  <2> QED BY <2>1, JobFields DEF CallbackInv, DispatchOwned, Owning
<1>7. InvocationsGranted'
  <2>1. \A o \in Op : invoked'[o] <= dispatchCount'[o]
    BY <1>1, <1>4 DEF Invoke, CallbackInv, InvocationsGranted, CallbackTypeOK
  <2>2. \A g \in Handler : pc'[g] = "dispatch" => invoked'[JobOp(g)'] = 0
    BY <1>1, <1>6 DEF Invoke, CallbackInv, InvocationsGranted, CallbackTypeOK
  <2> QED BY <2>1, <2>2 DEF InvocationsGranted
<1>8. \A g \in Handler : pc'[g] = "dispatch" => Undispatched(g)'
  BY <1>4, <1>6 DEF CallbackInv, UndecidedBeforeDispatch, Undispatched
<1> QED BY <1>2, <1>5, <1>7, <1>8 DEF HandlersInv, UndecidedBeforeDispatch

\* dispatch_celld_effect, whatever it reports.
LEMMA DispatchInv ==
  ASSUME CallbackInv, NEW h \in Handler, Dispatch(h)
  PROVE  HandlersInv'
<1>1. [CallbackNext]_callbackVars
  BY DEF CallbackNext, HandlerStep
<1>2. /\ pc[h] = "dispatch" /\ job[h] \in Command /\ JobOp(h) \in Op
      /\ request[JobOp(h)] = job[h]
  BY JobFields DEF Dispatch, CallbackInv, HandlersKnow, Knows
<1>3. PICK e \in ProviderEffect :
        /\ Refused(h, e) \/ ProvisionStarted(h, e) \/ RuntimeActed(h, e)
        /\ eff' = [eff EXCEPT ![h] = e]
  BY DEF Dispatch
<1>4. e.status \in TerminalStatus => e.term \in CallbackTerminal
  <2>1. CASE Refused(h, e)
    BY <2>1 DEF Refused, Effect, Code, CallbackTerminal
  <2>2. CASE ProvisionStarted(h, e)
    BY <2>2 DEF ProvisionStarted, Effect, TerminalStatus
  <2>3. CASE RuntimeActed(h, e)
    BY <2>3 DEF RuntimeActed, FreshOps, Effect, Code, CallbackTerminal, TerminalStatus
  <2> QED BY <1>3, <2>1, <2>2, <2>3
<1>5. /\ invoked' = invoked \/ Invoke(JobOp(h))
      /\ opStore' \in [MgmtOp -> {"absent", "running", "completed", "failed"}]
      /\ issuedFor' \in [MgmtOp -> Op \cup {None}]
      /\ effected' \in SUBSET Op
      /\ StoreIsIssued'
  <2>1. CASE Refused(h, e)
    BY <2>1 DEF Refused, providerVars, CallbackInv, CallbackTypeOK, StoreIsIssued
  <2>2. CASE ProvisionStarted(h, e)
    BY <1>2, <2>2 DEF ProvisionStarted, Issue, FreshOps, CallbackInv, CallbackTypeOK,
       StoreIsIssued
  <2>3. CASE RuntimeActed(h, e)
    BY <1>2, <2>3 DEF RuntimeActed, Issue, FreshOps, CallbackInv, CallbackTypeOK,
       StoreIsIssued
  <2> QED BY <1>3, <2>1, <2>2, <2>3
<1>6. invoked' \in [Op -> Nat]
  BY <1>2, <1>5 DEF Invoke, CallbackInv, CallbackTypeOK
<1>7. /\ UNCHANGED <<job, snap, reply>> /\ UNCHANGED ledgerVars
      /\ pc' = [pc EXCEPT ![h] = "bind"]
  BY DEF Dispatch, GoTo
<1>8. CallbackTypeOK'
  BY <1>3, <1>5, <1>6, <1>7 DEF CallbackInv, CallbackTypeOK, LedgerTypeOK, ledgerVars, Step
<1>9. pc'[h] = "bind" /\ eff'[h] = e
  BY <1>3, <1>7 DEF CallbackInv, CallbackTypeOK
<1>10. Knows(h)' /\ HasAnswer(h)'
  BY <1>2, <1>4, <1>7, <1>9, NoCommandAssumption DEF Knows, HasAnswer, JobOp, ledgerVars
<1>11. \A g \in Handler : g # h =>
         pc'[g] = pc[g] /\ job'[g] = job[g] /\ snap'[g] = snap[g] /\ eff'[g] = eff[g]
  BY <1>3, <1>7 DEF CallbackInv, CallbackTypeOK
<1> QED BY <1>1, <1>2, <1>5, <1>7, <1>8, <1>9, <1>10, <1>11, OwnerMovesInv

\* The handler's future is dropped while it awaits the provider.
LEMMA DisconnectInv ==
  ASSUME CallbackInv, NEW h \in Handler, Disconnect(h)
  PROVE  HandlersInv'
<1>1. [CallbackNext]_callbackVars
  BY DEF CallbackNext
<1>2. pc[h] = "dispatch" /\ JobOp(h) \in Op
  BY JobFields DEF Disconnect
<1>3. /\ invoked' = invoked \/ Invoke(JobOp(h))
      /\ effected' \in SUBSET Op
      /\ UNCHANGED <<opStore, issuedFor>> /\ UNCHANGED ledgerVars
      /\ StoreIsIssued'
  BY <1>2 DEF Disconnect, CallbackInv, CallbackTypeOK, StoreIsIssued
<1>4. invoked' \in [Op -> Nat]
  BY <1>2, <1>3 DEF Invoke, CallbackInv, CallbackTypeOK
<1>5. /\ pc' = [pc EXCEPT ![h] = "idle"] /\ job' = [job EXCEPT ![h] = None]
      /\ snap' = [snap EXCEPT ![h] = None] /\ eff' = [eff EXCEPT ![h] = None]
      /\ reply' = [reply EXCEPT ![h] = None]
  BY DEF Disconnect, Forget, GoTo
<1>6. CallbackTypeOK'
  BY <1>3, <1>4, <1>5 DEF CallbackInv, CallbackTypeOK, LedgerTypeOK, ledgerVars, Step
<1>7. pc'[h] = "idle"
  BY <1>5 DEF CallbackInv, CallbackTypeOK
<1>8. Knows(h)' /\ HasAnswer(h)'
  BY <1>7 DEF Knows, HasAnswer
<1>9. \A g \in Handler : g # h =>
        pc'[g] = pc[g] /\ job'[g] = job[g] /\ snap'[g] = snap[g] /\ eff'[g] = eff[g]
  BY <1>5 DEF CallbackInv, CallbackTypeOK
<1> QED BY <1>1, <1>2, <1>3, <1>6, <1>7, <1>8, <1>9, OwnerMovesInv

\* Workers, the expiry of operations and a restart leave ledger and
\* invocations alone; a restart leaves no handler behind.
LEMMA WorldInv ==
  ASSUME CallbackInv,
         \/ \E m \in MgmtOp : ProvisionEnds(m) \/ Expire(m)
         \/ Restart
         \/ UNCHANGED callbackVars
  PROVE  HandlersInv'
<1>1. UNCHANGED ledgerVars /\ invoked' = invoked /\ issuedFor' = issuedFor
  BY DEF ProvisionEnds, Expire, Restart, callbackVars, providerVars
<1>2. CASE Restart
  <2>1. \A h \in Handler : pc'[h] = "idle"
    BY <1>2 DEF Restart
  <2>2. effected' \in SUBSET Op
    <3>1. \A m \in MgmtOp : issuedFor[m] \in Op \cup {None}
      BY DEF CallbackInv, CallbackTypeOK
    <3>2. \A m \in MgmtOp : opStore[m] = "running" => issuedFor[m] \in Op
      BY DEF CallbackInv, StoreIsIssued
    <3> QED BY <1>2, <3>1, <3>2 DEF Restart, CallbackInv, CallbackTypeOK
  <2>3. CallbackTypeOK'
    BY <1>1, <1>2, <2>2 DEF Restart, CallbackInv, CallbackTypeOK, LedgerTypeOK, ledgerVars, Step
  <2>4. StoreIsIssued'
    BY <1>2 DEF Restart, StoreIsIssued
  <2> QED
    BY <1>1, <2>1, <2>3, <2>4 DEF HandlersInv, HandlersKnow, Knows, DispatchOwned, Owning,
       InvocationsGranted, UndecidedBeforeDispatch, HasAnswer, CallbackInv, ledgerVars
<1>3. CASE ~Restart
  <2> UNCHANGED handlerVars
    BY <1>3 DEF ProvisionEnds, Expire, callbackVars
  <2>1. HandlersKnow' /\ DispatchOwned' /\ InvocationsGranted' /\ UndecidedBeforeDispatch'
    BY <1>1 DEF handlerVars, ledgerVars, CallbackInv, HandlersKnow, Knows, DispatchOwned,
       InvocationsGranted, UndecidedBeforeDispatch, Undispatched, HasAnswer, JobOp
  <2>2. /\ opStore' \in [MgmtOp -> {"absent", "running", "completed", "failed"}]
        /\ effected' \in SUBSET Op
        /\ StoreIsIssued'
    <3>1. ASSUME NEW m \in MgmtOp, ProvisionEnds(m)
          PROVE  /\ opStore' \in [MgmtOp -> {"absent", "running", "completed", "failed"}]
                 /\ effected' \in SUBSET Op
                 /\ StoreIsIssued'
      BY <1>1, <3>1 DEF ProvisionEnds, CallbackInv, CallbackTypeOK, StoreIsIssued
    <3>2. ASSUME NEW m \in MgmtOp, Expire(m)
          PROVE  /\ opStore' \in [MgmtOp -> {"absent", "running", "completed", "failed"}]
                 /\ effected' \in SUBSET Op
                 /\ StoreIsIssued'
      BY <1>1, <3>2 DEF Expire, CallbackInv, CallbackTypeOK, StoreIsIssued
    <3>3. CASE UNCHANGED callbackVars
      BY <3>3 DEF callbackVars, providerVars, CallbackInv, CallbackTypeOK, StoreIsIssued
    <3> QED BY <1>3, <3>1, <3>2, <3>3
  <2>3. CallbackTypeOK'
    BY <1>1, <2>2 DEF handlerVars, ledgerVars, CallbackInv, CallbackTypeOK, LedgerTypeOK
  <2> QED BY <2>1, <2>2, <2>3 DEF HandlersInv
<1> QED BY <1>2, <1>3

\* Every step of management preserves the invariant.
LEMMA CallbackStepInv == CallbackInv /\ [CallbackNext]_callbackVars => CallbackInv'
<1> SUFFICES ASSUME CallbackInv, [CallbackNext]_callbackVars PROVE CallbackInv'
  OBVIOUS
<1>1. HandlersInv'
  <2>1. CASE \E h \in Handler, c \in Command :
               \E g \in {d.generation : d \in Command} : Receive(h, c, g)
    BY <2>1, ReceiveInv
  <2>2. CASE \E h \in Handler : HandlerStep(h)
    BY <2>2, ClaimInv, ReadInv, BeginInv, DispatchInv, BindInv, OutcomeInv, ResumeInv, EndInv
    DEF HandlerStep
  <2>3. CASE \E h \in Handler : GateFailure(h) \/ Disconnect(h) \/ Close(h)
    BY <2>3, EndInv, DisconnectInv
  <2>4. CASE \/ \E m \in MgmtOp : ProvisionEnds(m) \/ Expire(m)
             \/ Restart
             \/ UNCHANGED callbackVars
    BY <2>4, WorldInv
  <2> QED BY <2>1, <2>2, <2>3, <2>4 DEF CallbackNext
<1> QED BY <1>1, LedgerInvKept DEF HandlersInv, CallbackInv

\* Management starts in the invariant.
LEMMA CallbackInitInv == CallbackInit => CallbackInv
<1> SUFFICES ASSUME CallbackInit PROVE CallbackInv
  OBVIOUS
<1>1. LedgerInv
  BY LedgerInitInv DEF CallbackInit
<1>2. CallbackTypeOK
  BY <1>1 DEF CallbackInit, HandlersIdle, CallbackTypeOK, LedgerInv, Step
<1> QED BY <1>1, <1>2 DEF CallbackInit, HandlersIdle, CallbackInv, HandlersKnow, Knows,
    StoreIsIssued, DispatchOwned, Owning, InvocationsGranted, UndecidedBeforeDispatch,
    HasAnswer, LedgerInit

-----------------------------------------------------------------------------
(* The theorems.                                                           *)

\* The invariant of management, for any number of handlers and operations.
THEOREM CallbackInvariant == CallbackSpec => []CallbackInv
BY CallbackInitInv, CallbackStepInv, PTL DEF CallbackSpec

\* Handlers, store and ledger keep their types (effect_callback and its state).
THEOREM CallbackTypeCorrect == CallbackSpec => []CallbackTypeOK
<1>1. CallbackInv => CallbackTypeOK BY DEF CallbackInv
<1> QED BY <1>1, CallbackInvariant, PTL

\* The provider is invoked at most once for an operation, for any number of
\* concurrent handlers, deliveries, disconnects and restarts
\* (effect_callback, resume_effect, begin_dispatch).
THEOREM InvokedAtMostOnce == CallbackSpec => []AtMostOneInvocation
<1>1. CallbackInv => AtMostOneInvocation
  <2> SUFFICES ASSUME CallbackInv, NEW o \in Op PROVE invoked[o] <= 1
    BY DEF AtMostOneInvocation
  <2>1. invoked[o] \in Nat /\ dispatchCount[o] \in Nat
    BY DEF CallbackInv, CallbackTypeOK, LedgerTypeOK
  <2>2. invoked[o] <= dispatchCount[o] /\ dispatchCount[o] <= 1
    BY DEF CallbackInv, InvocationsGranted, LedgerInv, SingleDispatchOwner
  <2> QED BY <2>1, <2>2
<1> QED BY <1>1, CallbackInvariant, PTL

\* The handlers use the ledger as LedgerSpec says, so that all its theorems
\* hold of management as a whole.
THEOREM UsesLedger == CallbackSpec => LedgerSpec
<1>1. CallbackInit => LedgerInit BY DEF CallbackInit
<1>2. CallbackInv /\ [CallbackNext]_callbackVars => [LedgerNext]_ledgerVars
  BY LedgerCalls
<1> QED BY <1>1, <1>2, CallbackInvariant, PTL DEF CallbackSpec, LedgerSpec

\* Whoever invokes the provider is the owner of the dispatch of an accepted,
\* undecided operation that has not been invoked.
LEMMA InvocationIsOwned ==
  ASSUME CallbackInv, [CallbackNext]_callbackVars, invoked' # invoked
  PROVE  /\ UNCHANGED ledgerVars
         /\ \E o \in Op : /\ Invoke(o)
                          /\ invoked[o] = 0
                          /\ status[o] \in {"dispatched", "unknown"}
<1>1. PICK h \in Handler :
        /\ Dispatch(h) \/ Disconnect(h)
        /\ job[h].action \in {"provision", "start", "stop", "destroy"}
        /\ Invoke(JobOp(h))
  BY DEF CallbackNext, callbackVars, providerVars, Receive, HandlerStep, Claim, ReadRecord,
     Begin, Reread, Bind, Finish, Resume, Settle, GiveUp, Answer, GateFailure, Close,
     ProvisionEnds, Expire, Restart, Dispatch, Disconnect, Refused, ProvisionStarted,
     RuntimeActed
<1>2. pc[h] = "dispatch" /\ JobOp(h) \in Op /\ UNCHANGED ledgerVars
  BY <1>1, JobFields DEF Dispatch, Disconnect
<1>3. invoked[JobOp(h)] = 0 /\ status[JobOp(h)] \in {"dispatched", "unknown"}
  BY <1>1, <1>2 DEF CallbackInv, InvocationsGranted, UndecidedBeforeDispatch, Undispatched
<1> QED BY <1>1, <1>2, <1>3

\* A ledger call that decides nothing about invocations is an acceptance, a
\* decision or invisible to the contract.
LEMMA LedgerCallIsAbstract ==
  ASSUME LedgerInv, LedgerNext, invoked' = invoked
  PROVE  [Amo!AmoNext]_(Amo!amoVars)
<1> DEFINE Accepted == {o \in Op : status[o] # "absent"}
           OutcomeIn == [o \in Op |-> IF status[o] \in TerminalStatus THEN status[o] ELSE "open"]
<1>0. status \in [Op -> OpenStatus \cup TerminalStatus \cup {"absent"}]
  BY DEF LedgerInv, LedgerTypeOK
<1>1. ASSUME NEW c \in Command, ClaimManaged(c)
      PROVE  Amo!AmoAccept(c.op) \/ UNCHANGED Amo!amoVars
  <2>1. c.op \in Op
    BY CommandFields
  <2>2. CASE status[c.op] = "absent"
    <3>1. status' = [status EXCEPT ![c.op] = "pending"]
      BY <1>1, <2>2 DEF ClaimManaged, InsertPending
    <3>2. Accepted' = Accepted \cup {c.op} /\ c.op \notin Accepted
      BY <1>0, <2>1, <2>2, <3>1
    <3>3. OutcomeIn' = OutcomeIn
      BY <1>0, <2>1, <2>2, <3>1 DEF TerminalStatus
    <3> QED BY <3>2, <3>3 DEF Amo!AmoAccept
  <2>3. CASE status[c.op] # "absent"
    <3>1. status' = status
      BY <1>1, <2>3 DEF ClaimManaged, InsertPending, effectCols
    <3> QED BY <3>1 DEF Amo!amoVars
  <2> QED BY <2>2, <2>3
<1>2. ASSUME NEW o \in Op, BeginDispatch(o) \/ MarkUnknown(o)
      PROVE  UNCHANGED Amo!amoVars
  <2>1. \A p \in Op : /\ status'[p] = "absent" <=> status[p] = "absent"
                      /\ status'[p] \in TerminalStatus <=> status[p] \in TerminalStatus
                      /\ status[p] \in TerminalStatus => status'[p] = status[p]
    BY <1>0, <1>2 DEF BeginDispatch, GrantsDispatch, MarkUnknown, TerminalStatus
  <2> QED BY <2>1 DEF Amo!amoVars
<1>3. ASSUME NEW o \in Op, NEW m \in MgmtOp, SetManagementOperation(o, m)
      PROVE  UNCHANGED Amo!amoVars
  BY <1>3 DEF SetManagementOperation, Amo!amoVars
<1>4. ASSUME NEW o \in Op, NEW s \in TerminalStatus, NEW t \in Terminal, Complete(o, s, t)
      PROVE  Amo!AmoDecide(o, s) \/ UNCHANGED Amo!amoVars
  <2>1. status[o] # "absent" /\ status' = [status EXCEPT ![o] = s]
    BY <1>4 DEF Complete
  <2>2. Accepted' = Accepted /\ o \in Accepted
    BY <1>0, <2>1 DEF TerminalStatus
  <2>3. CASE status[o] \in TerminalStatus
    <3>1. status[o] = s
      BY <1>4, <2>3 DEF Complete, CompletionConflict
    <3> QED BY <1>0, <2>1, <3>1 DEF Amo!amoVars
  <2>4. CASE status[o] \notin TerminalStatus
    <3>1. OutcomeIn' = [OutcomeIn EXCEPT ![o] = s]
      BY <1>0, <2>1 DEF TerminalStatus
    <3>2. OutcomeIn[o] = "open"
      BY <2>4
    <3> QED BY <2>2, <3>1, <3>2 DEF Amo!AmoDecide
  <2> QED BY <2>3, <2>4
<1> QED
  BY <1>1, <1>2, <1>3, <1>4, CommandFields DEF LedgerNext, Amo!AmoNext, Amo!Outcome, TerminalStatus

\* An invocation of the provider is an invocation of the contract.
LEMMA InvocationIsAbstract ==
  ASSUME CallbackInv, [CallbackNext]_callbackVars, invoked' # invoked
  PROVE  Amo!AmoNext
<1>1. PICK o \in Op : Invoke(o) /\ invoked[o] = 0 /\ status[o] \in {"dispatched", "unknown"}
  BY InvocationIsOwned
<1>2. status' = status
  BY InvocationIsOwned DEF ledgerVars
<1>3. invoked' = [invoked EXCEPT ![o] = 1]
  BY <1>1 DEF Invoke
<1>4. Amo!AmoInvoke(o)
  BY <1>1, <1>2, <1>3 DEF Amo!AmoInvoke, TerminalStatus
<1> QED BY <1>4 DEF Amo!AmoNext

\* Management implements the at-most-once contract of AtMostOnceEffect, for
\* any number of handlers and operations: the provider is invoked at most
\* once, only for an accepted operation, never after its outcome, and the
\* outcome is final (effect_callback, resume_effect and the ledger).
THEOREM CallbackRefinesAtMostOnce == CallbackSpec => ImplementsAtMostOnce
<1>1. CallbackInit => Amo!AmoInit
  BY DEF CallbackInit, LedgerInit, Amo!AmoInit, TerminalStatus
<1>2. CallbackInv /\ [CallbackNext]_callbackVars => [Amo!AmoNext]_(Amo!amoVars)
  <2> SUFFICES ASSUME CallbackInv, [CallbackNext]_callbackVars
               PROVE  [Amo!AmoNext]_(Amo!amoVars)
    OBVIOUS
  <2>1. CASE invoked' # invoked
    BY <2>1, InvocationIsAbstract
  <2>2. CASE invoked' = invoked /\ LedgerNext
    BY <2>2, LedgerCallIsAbstract DEF CallbackInv
  <2>3. CASE invoked' = invoked /\ UNCHANGED ledgerVars
    BY <2>3 DEF ledgerVars, Amo!amoVars
  <2> QED BY <2>1, <2>2, <2>3, LedgerCalls
<1> QED BY <1>1, <1>2, CallbackInvariant, PTL DEF CallbackSpec, ImplementsAtMostOnce, Amo!AmoSpec

-----------------------------------------------------------------------------
(* The truth of what is recorded: every action that touches an outcome, a  *)
(* management operation or an effect in hand, by who takes it.             *)


Untouched(h) == pc'[h] = pc[h] /\ job'[h] = job[h] /\ snap'[h] = snap[h] /\ eff'[h] = eff[h]

\* The actions one by one, with who takes them.
LEMMA CallbackCases ==
  ASSUME [CallbackNext]_callbackVars
  PROVE  \/ UNCHANGED callbackVars
         \/ \E h \in Handler :
              \/ \E c \in Command, g \in {d.generation : d \in Command} : Receive(h, c, g)
              \/ Claim(h) \/ ReadRecord(h) \/ Begin(h) \/ Reread(h) \/ Dispatch(h)
              \/ Bind(h) \/ Finish(h) \/ Resume(h) \/ Settle(h) \/ GiveUp(h) \/ Answer(h)
              \/ GateFailure(h) \/ Disconnect(h) \/ Close(h)
         \/ \E m \in MgmtOp : ProvisionEnds(m) \/ Expire(m)
         \/ Restart
BY DEF CallbackNext, HandlerStep

\* How a handler comes to wait for a lookup or to have an effect in hand.
LEMMA HandlerMoves ==
  ASSUME CallbackInv, [CallbackNext]_callbackVars, NEW h \in Handler
  PROVE  \/ Untouched(h)
         \/ pc'[h] \notin {"resume", "bind", "finish", "settle"}
         \/ /\ pc'[h] = "resume" /\ job'[h] = job[h] /\ pc[h] \in {"read", "reread"}
            /\ snap'[h] = CurrentRecord(JobOp(h)) /\ UNCHANGED <<ledgerVars, providerVars>>
         \/ pc'[h] = "bind" /\ Dispatch(h)
         \/ pc'[h] = "finish" /\ Bind(h)
         \/ pc'[h] = "settle" /\ Resume(h)
<1>1. pc \in [Handler -> Step] /\ job \in [Handler -> Command \cup {None}]
      /\ snap \in [Handler -> Snapshot \cup {None}] /\ eff \in [Handler -> ProviderEffect \cup {None}]
  BY DEF CallbackInv, CallbackTypeOK
<1>2. CASE \/ UNCHANGED callbackVars
           \/ \E m \in MgmtOp : ProvisionEnds(m) \/ Expire(m)
  BY <1>2 DEF callbackVars, handlerVars, ProvisionEnds, Expire, Untouched
<1>3. CASE Restart
  BY <1>3 DEF Restart
<1>4. ASSUME NEW k \in Handler,
             \E c \in Command, g \in {d.generation : d \in Command} : Receive(k, c, g)
      PROVE  Untouched(h) \/ pc'[h] \notin {"resume", "bind", "finish", "settle"}
  BY <1>1, <1>4 DEF Receive, GoTo, Respond, Untouched
<1>5. ASSUME NEW k \in Handler,
             \/ Claim(k) \/ Begin(k) \/ Finish(k) \/ Settle(k) \/ GiveUp(k) \/ Answer(k)
             \/ GateFailure(k) \/ Disconnect(k) \/ Close(k)
      PROVE  Untouched(h) \/ pc'[h] \notin {"resume", "bind", "finish", "settle"}
  BY <1>1, <1>5 DEF Claim, Begin, Finish, Settle, GiveUp, Answer, CompleteOrConflict,
     GateFailure, Disconnect, Close, Forget, GoTo, Respond, Untouched
<1>6. ASSUME NEW k \in Handler, ReadRecord(k) \/ Reread(k) \/ Dispatch(k) \/ Bind(k) \/ Resume(k),
             k # h
      PROVE  Untouched(h)
  BY <1>1, <1>6 DEF ReadRecord, Reread, Dispatch, Bind, Resume, GoTo, Respond, Untouched
<1>7. CASE ReadRecord(h) \/ Reread(h)
  BY <1>1, <1>7 DEF ReadRecord, Reread, GoTo, Respond
<1>8. CASE Dispatch(h)
  BY <1>1, <1>8 DEF Dispatch, GoTo
<1>9. CASE Bind(h)
  BY <1>1, <1>9 DEF Bind, GoTo, Respond
<1>10. CASE Resume(h)
  BY <1>1, <1>10 DEF Resume, GoTo
<1> QED BY <1>2, <1>3, <1>4, <1>5, <1>6, <1>7, <1>8, <1>9, <1>10, CallbackCases

\* A management operation is bound to an effect by its dispatch only.
LEMMA BoundBy ==
  ASSUME CallbackInv, [CallbackNext]_callbackVars, NEW o \in Op, mgmtOp'[o] # mgmtOp[o]
  PROVE  \E h \in Handler : /\ Bind(h) /\ pc[h] = "bind" /\ pc'[h] = "finish" /\ JobOp(h) = o
                            /\ mgmtOp'[o] = eff[h].mop /\ mgmtOp[o] = None
<1>1. PICK h \in Handler : Bind(h)
  BY CallbackCases DEF callbackVars, ledgerVars, Receive, Claim, ClaimManaged, InsertPending,
     BindGeneration, instCols, effectCols, ReadRecord, Begin, BeginDispatch, Reread, Dispatch, Finish,
     CompleteOrConflict, Complete, MarkUnknown, Resume, Settle, GiveUp, Answer, GateFailure, Disconnect, Close,
     ProvisionEnds, Expire, Restart
<1>2. JobOp(h) \in Op /\ mgmtOp \in [Op -> MgmtOp \cup {None}] /\ pc \in [Handler -> Step]
  BY <1>1, JobFields DEF Bind, CallbackInv, CallbackTypeOK, LedgerTypeOK
<1> QED BY <1>1, <1>2 DEF Bind, SetManagementOperation, MgmtOpConflict, ledgerVars, GoTo

\* An effect is decided by a handler that records what it has in hand.
LEMMA DecidedBy ==
  ASSUME CallbackInv, [CallbackNext]_callbackVars, NEW o \in Op,
         status'[o] \in TerminalStatus, status[o] \notin TerminalStatus
  PROVE  \E h \in Handler : /\ pc[h] \in {"finish", "settle"} /\ pc'[h] = "answer"
                            /\ JobOp(h) = o /\ eff[h].status \in TerminalStatus
                            /\ status'[o] = eff[h].status /\ terminal'[o] = eff[h].term
                            /\ UNCHANGED <<request, mgmtOp, providerVars, eff, job>>
                            /\ \A g \in Handler : g # h => pc'[g] = pc[g]
<1>1. /\ status \in [Op -> OpenStatus \cup TerminalStatus \cup {"absent"}]
      /\ terminal \in [Op -> Terminal \cup {None}]
      /\ pc \in [Handler -> Step]
  BY DEF CallbackInv, CallbackTypeOK, LedgerTypeOK
<1>2. PICK h \in Handler : Claim(h) \/ Begin(h) \/ Finish(h) \/ Settle(h) \/ GiveUp(h)
  BY CallbackCases DEF callbackVars, ledgerVars, Receive, ReadRecord, Reread, Dispatch, Bind,
     SetManagementOperation, Resume, Answer, GateFailure, Disconnect, Close,
     ProvisionEnds, Expire, Restart
<1>3. JobOp(h) \in Op /\ job[h].op = JobOp(h)
  BY <1>2, JobFields DEF Claim, Begin, Finish, Settle, GiveUp, JobOp
<1>4. ~Claim(h)
  BY <1>1, <1>3 DEF Claim, ClaimManaged, InsertPending, effectCols, ledgerVars, TerminalStatus
<1>5. ~Begin(h) /\ ~GiveUp(h)
  BY <1>1, <1>3 DEF Begin, BeginDispatch, GiveUp, MarkUnknown, ledgerVars, TerminalStatus
<1>6. pc[h] \in {"finish", "settle"} /\ eff[h].status \in TerminalStatus /\ CompleteOrConflict(h)
  BY <1>1, <1>2, <1>3, <1>4, <1>5
  DEF Finish, Settle, MarkUnknown, ledgerVars, TerminalStatus, CallbackInv, HandlersKnow, Knows
<1>7. Complete(JobOp(h), eff[h].status, eff[h].term) /\ GoTo(h, "answer")
  BY <1>6 DEF CompleteOrConflict, ledgerVars
<1>8. UNCHANGED <<job, eff, providerVars>>
  BY <1>2, <1>4, <1>5 DEF Finish, Settle
<1> QED BY <1>1, <1>3, <1>6, <1>7, <1>8 DEF Complete, GoTo

\* What dispatch_celld_effect leaves behind: a new operation that is its own,
\* with the effect the store would report, or no operation at all.
LEMMA DispatchGives ==
  ASSUME CallbackInv, NEW h \in Handler, Dispatch(h)
  PROVE  /\ pc[h] = "dispatch" /\ pc'[h] = "bind" /\ job'[h] = job[h]
         /\ UNCHANGED ledgerVars
         /\ \A g \in Handler : g # h => Untouched(g)
         /\ effected \subseteq effected'
         /\ eff'[h].mop = None =>
              /\ UNCHANGED <<opStore, issuedFor>>
              /\ eff'[h].status = "succeeded" => job[h].action = "observe"
         /\ eff'[h].mop # None =>
              /\ job[h].action # "observe"
              /\ eff'[h].mop \in MgmtOp /\ issuedFor[eff'[h].mop] = None
              /\ issuedFor' = [issuedFor EXCEPT ![eff'[h].mop] = JobOp(h)]
              /\ Invoke(JobOp(h))
              /\ \A n \in MgmtOp : n # eff'[h].mop => opStore'[n] = opStore[n]
              /\ \/ opStore'[eff'[h].mop] = "running" /\ eff'[h].status = "dispatched"
                 \/ /\ opStore'[eff'[h].mop] = "completed" /\ JobOp(h) \in effected'
                    /\ \/ eff'[h] = Effect("succeeded", eff'[h].mop, Code("none", eff'[h].mop))
                       \/ eff'[h].status = "unknown"
         /\ job[h].action = "observe" => eff'[h] = ObserveEffect
<1>1. /\ pc \in [Handler -> Step] /\ eff \in [Handler -> ProviderEffect \cup {None}]
      /\ opStore \in [MgmtOp -> {"absent", "running", "completed", "failed"}]
      /\ issuedFor \in [MgmtOp -> Op \cup {None}] /\ None \notin MgmtOp
  BY NoneAssumption DEF CallbackInv, CallbackTypeOK
<1>2. PICK e \in ProviderEffect :
        /\ Refused(h, e) \/ ProvisionStarted(h, e) \/ RuntimeActed(h, e)
        /\ eff' = [eff EXCEPT ![h] = e]
  BY DEF Dispatch
<1>3. /\ pc[h] = "dispatch" /\ pc' = [pc EXCEPT ![h] = "bind"] /\ job' = job /\ snap' = snap
      /\ UNCHANGED ledgerVars
  BY DEF Dispatch, GoTo
<1>4. eff'[h] = e /\ pc'[h] = "bind" /\ \A g \in Handler : g # h => Untouched(g)
  BY <1>1, <1>2, <1>3 DEF Untouched
<1>5. CASE Refused(h, e)
  <2>1. e.mop = None /\ UNCHANGED <<opStore, issuedFor, effected>>
    BY <1>5 DEF Refused, Effect, providerVars
  <2>2. e.status = "succeeded" => job[h].action = "observe"
    BY <1>5 DEF Refused, Effect
  <2>3. job[h].action = "observe" => e = ObserveEffect
    BY <1>5 DEF Refused, ObserveEffect, Effectful
  <2> QED BY <1>3, <1>4, <2>1, <2>2, <2>3
<1>6. CASE ProvisionStarted(h, e)
  <2>1. PICK m \in FreshOps : e = Effect("dispatched", m, None) /\ Issue(m, JobOp(h), "running")
    BY <1>6 DEF ProvisionStarted
  <2>2. /\ m \in MgmtOp /\ issuedFor[m] = None /\ e.mop = m /\ e.status = "dispatched" /\ m # None
    BY <1>1, <2>1 DEF FreshOps, Effect
  <2>3. /\ issuedFor' = [issuedFor EXCEPT ![m] = JobOp(h)] /\ opStore'[m] = "running"
        /\ \A n \in MgmtOp : n # m => opStore'[n] = opStore[n]
    BY <1>1, <2>1, <2>2 DEF Issue
  <2>4. Invoke(JobOp(h)) /\ effected' = effected /\ job[h].action = "provision"
    BY <1>6 DEF ProvisionStarted
  <2> QED BY <1>3, <1>4, <2>2, <2>3, <2>4
<1>7. CASE RuntimeActed(h, e)
  <2>1. Invoke(JobOp(h)) /\ job[h].action \in {"start", "stop", "destroy"}
        /\ effected \subseteq effected'
    BY <1>7 DEF RuntimeActed
  <2>2. CASE e = Effect("failed", None, Code("management_http", None))
             /\ UNCHANGED <<opStore, issuedFor>>
    BY <1>3, <1>4, <2>1, <2>2 DEF Effect
  <2>3. CASE /\ \E m \in FreshOps :
                  /\ e \in {Effect("succeeded", m, Code("none", m)), Effect("unknown", m, None)}
                  /\ Issue(m, JobOp(h), "completed")
             /\ effected' = effected \cup {JobOp(h)}
    <3>1. PICK m \in FreshOps :
            /\ e \in {Effect("succeeded", m, Code("none", m)), Effect("unknown", m, None)}
            /\ Issue(m, JobOp(h), "completed")
      BY <2>3
    <3>2. m \in MgmtOp /\ issuedFor[m] = None /\ m # None /\ e.mop = m
      BY <1>1, <3>1 DEF FreshOps, Effect
    <3>3. /\ issuedFor' = [issuedFor EXCEPT ![m] = JobOp(h)] /\ opStore'[m] = "completed"
          /\ \A n \in MgmtOp : n # m => opStore'[n] = opStore[n]
      BY <1>1, <3>1, <3>2 DEF Issue
    <3>4. e = Effect("succeeded", m, Code("none", m)) \/ e.status = "unknown"
      BY <3>1 DEF Effect
    <3> QED BY <1>3, <1>4, <2>1, <2>3, <3>2, <3>3, <3>4
  <2> QED BY <1>7, <2>2, <2>3 DEF RuntimeActed
<1> QED BY <1>2, <1>5, <1>6, <1>7

\* Operations are issued by a dispatch; the store changes by a dispatch, a
\* worker that ends, or by forgetting; effects and invocations only grow.
LEMMA ProviderMoves ==
  ASSUME CallbackInv, [CallbackNext]_callbackVars, NEW m \in MgmtOp
  PROVE  /\ effected \subseteq effected'
         /\ \A o \in Op : invoked[o] # 0 => invoked'[o] # 0
         /\ \/ issuedFor' = issuedFor
            \/ \E h \in Handler : Dispatch(h) /\ eff'[h].mop # None
         /\ \/ opStore'[m] \in {opStore[m], "absent"}
            \/ /\ opStore[m] = "running" /\ opStore'[m] \in {"completed", "failed"}
               /\ issuedFor' = issuedFor /\ UNCHANGED <<ledgerVars, handlerVars>>
               /\ opStore'[m] = "completed" => issuedFor[m] \in effected'
            \/ \E h \in Handler : Dispatch(h) /\ eff'[h].mop = m
<1>1. /\ opStore \in [MgmtOp -> {"absent", "running", "completed", "failed"}]
      /\ invoked \in [Op -> Nat]
  BY DEF CallbackInv, CallbackTypeOK
<1>2. \A o \in Op : invoked[o] # 0 => invoked'[o] # 0
  <2>1. invoked' = invoked \/ \E o \in Op : Invoke(o) /\ invoked[o] = 0
    BY InvocationIsOwned
  <2> QED BY <1>1, <2>1 DEF Invoke
<1>3. ASSUME NEW h \in Handler, Dispatch(h)
      PROVE  /\ effected \subseteq effected'
             /\ issuedFor' = issuedFor \/ eff'[h].mop # None
             /\ opStore'[m] = opStore[m] \/ eff'[h].mop = m
  BY <1>3, DispatchGives
<1>4. ASSUME NEW h \in Handler, Disconnect(h)
      PROVE  effected \subseteq effected' /\ UNCHANGED <<opStore, issuedFor>>
  BY <1>4 DEF Disconnect
<1>5. ASSUME NEW n \in MgmtOp, ProvisionEnds(n)
      PROVE  /\ effected \subseteq effected' /\ issuedFor' = issuedFor
             /\ \/ opStore'[m] = opStore[m]
                \/ /\ opStore[m] = "running" /\ opStore'[m] \in {"completed", "failed"}
                   /\ UNCHANGED <<ledgerVars, handlerVars>>
                   /\ opStore'[m] = "completed" => issuedFor[m] \in effected'
  BY <1>1, <1>5 DEF ProvisionEnds
<1>6. ASSUME NEW n \in MgmtOp, Expire(n)
      PROVE  effected' = effected /\ issuedFor' = issuedFor /\ opStore'[m] \in {opStore[m], "absent"}
  BY <1>1, <1>6 DEF Expire
<1>7. CASE Restart
  BY <1>2, <1>7 DEF Restart
<1>8. ASSUME UNCHANGED providerVars
      PROVE  effected' = effected /\ issuedFor' = issuedFor /\ opStore'[m] = opStore[m]
  BY <1>8 DEF providerVars
<1> QED
  BY <1>2, <1>3, <1>4, <1>5, <1>6, <1>7, <1>8, CallbackCases
  DEF callbackVars, Receive, Claim, ReadRecord, Begin, Reread, Bind, Finish, Resume, Settle,
      GiveUp, Answer, GateFailure, Close

\* An operation that was issued stays issued to the same effect.
LEMMA IssuedForKept ==
  ASSUME CallbackInv, [CallbackNext]_callbackVars, NEW m \in MgmtOp, issuedFor[m] # None
  PROVE  issuedFor'[m] = issuedFor[m]
<1>1. CASE issuedFor' = issuedFor
  BY <1>1
<1>2. ASSUME NEW h \in Handler, Dispatch(h), eff'[h].mop # None
      PROVE  issuedFor'[m] = issuedFor[m]
  BY <1>2, DispatchGives DEF CallbackInv, CallbackTypeOK
<1> QED BY <1>1, <1>2, ProviderMoves

\* Effects that took place stay so.
LEMMA EffectedGrows ==
  ASSUME CallbackInv, [CallbackNext]_callbackVars
  PROVE  effected \subseteq effected'
<1>1. ASSUME NEW h \in Handler, Dispatch(h)
      PROVE  effected \subseteq effected'
  BY <1>1, DispatchGives
<1>2. ASSUME UNCHANGED providerVars
      PROVE  effected' = effected
  BY <1>2 DEF providerVars
<1> QED
  BY <1>1, <1>2, CallbackCases
  DEF callbackVars, Receive, Claim, ReadRecord, Begin, Reread, Bind, Finish, Resume, Settle,
      GiveUp, Answer, GateFailure, Close, Disconnect, ProvisionEnds, Expire, Restart

\* What a step leaves of a row that is there.
LEMMA RowKept ==
  ASSUME CallbackInv, [CallbackNext]_callbackVars, NEW o \in Op
  PROVE  /\ request[o] # None => request'[o] = request[o]
         /\ mgmtOp[o] # None => mgmtOp'[o] = mgmtOp[o]
         /\ status[o] \in TerminalStatus => status'[o] = status[o] /\ terminal'[o] = terminal[o]
         /\ status[o] \in {"dispatched", "unknown"} =>
              status'[o] \in {"dispatched", "unknown"} \cup TerminalStatus
BY LedgerCalls, StepKeepsBindings, StepKeepsOutcomes DEF CallbackInv

\* Handlers that serve one operation past the claim serve one command.
LEMMA RowIsJob ==
  ASSUME CallbackInv, NEW h \in Handler, pc[h] \in {"resume", "dispatch", "bind", "finish", "settle"}
  PROVE  /\ job[h] \in Command /\ JobOp(h) \in Op /\ request[JobOp(h)] = job[h] /\ job[h] # None
BY JobFields, NoCommandAssumption DEF CallbackInv, HandlersKnow, Knows

\* Between its dispatch and the record, nobody but the owner binds or decides
\* an effect without a management operation.
LEMMA UndecidedKept ==
  ASSUME CallbackInv, [CallbackNext]_callbackVars, NEW g \in Handler,
         pc[g] \in {"bind", "finish"}, Untouched(g), mgmtOp[JobOp(g)] = None
  PROVE  /\ mgmtOp'[JobOp(g)] = None
         /\ job[g].action # "observe" /\ status[JobOp(g)] \in {"dispatched", "unknown"} =>
              status'[JobOp(g)] \in {"dispatched", "unknown"}
<1>1. JobOp(g) \in Op /\ request[JobOp(g)] = job[g] /\ pc'[g] = pc[g]
  BY RowIsJob DEF Untouched
<1>2. \A h \in Handler : pc[h] \in {"bind", "finish"} /\ JobOp(h) = JobOp(g) => h = g
  BY DEF CallbackInv, DispatchOwned, Owning
<1>3. mgmtOp'[JobOp(g)] = None
  BY <1>1, <1>2, BoundBy
<1>4. ASSUME job[g].action # "observe", status[JobOp(g)] \in {"dispatched", "unknown"},
             status'[JobOp(g)] \in TerminalStatus
      PROVE  FALSE
  <2>1. status[JobOp(g)] \notin TerminalStatus
    BY <1>4 DEF TerminalStatus
  <2>2. PICK h \in Handler : pc[h] \in {"finish", "settle"} /\ pc'[h] = "answer" /\ JobOp(h) = JobOp(g)
    BY <1>1, <1>4, <2>1, DecidedBy
  <2>3. pc[h] = "settle"
    BY <1>1, <1>2, <2>2
  <2>4. request[JobOp(h)] = job[h]
    BY <2>3, RowIsJob
  <2>5. job[h].action = "observe" \/ mgmtOp[JobOp(h)] # None
    BY <2>3 DEF CallbackInv, UndecidedBeforeDispatch, HasAnswer
  <2> QED BY <1>1, <1>4, <2>2, <2>4, <2>5
<1> QED BY <1>1, <1>3, <1>4, RowKept

\* A dispatch creates a management operation that nobody has spoken of.
LEMMA FreshIsUnknown ==
  ASSUME CallbackInv, OutcomesTrue, NEW h \in Handler, Dispatch(h), eff'[h].mop # None
  PROVE  /\ \A g \in Handler : pc[g] \in Recording => eff[g].mop # eff'[h].mop
         /\ \A o \in Op : mgmtOp[o] # eff'[h].mop
<1>1. issuedFor[eff'[h].mop] = None
  BY DispatchGives
<1>2. ASSUME NEW g \in Handler, pc[g] \in Recording, eff[g].mop = eff'[h].mop
      PROVE  FALSE
  <2>1. JobOp(g) \in Op
    BY <1>2, RowIsJob DEF Recording
  <2>2. issuedFor[eff[g].mop] = JobOp(g)
    BY <1>2 DEF OutcomesTrue, EffectIsOwn
  <2> QED BY <1>1, <1>2, <2>1, <2>2, NoCommandAssumption
<1>3. ASSUME NEW o \in Op, mgmtOp[o] = eff'[h].mop
      PROVE  FALSE
  BY <1>1, <1>3, NoCommandAssumption DEF OutcomesTrue, OperationsNotMixed
<1> QED BY <1>2, <1>3

\* A management operation is issued by the one invocation of its operation.
LEMMA IssuedOnceKept ==
  ASSUME CallbackInv, OutcomesTrue, [CallbackNext]_callbackVars
  PROVE  IssuedOnce'
<1>0. /\ issuedFor \in [MgmtOp -> Op \cup {None}] /\ None \notin Op /\ invoked \in [Op -> Nat]
  BY NoCommandAssumption DEF CallbackInv, CallbackTypeOK
<1>1. /\ \A m \in MgmtOp : issuedFor[m] # None => invoked[issuedFor[m]] # 0
      /\ \A m, n \in MgmtOp : issuedFor[m] # None /\ issuedFor[m] = issuedFor[n] => m = n
      /\ \A m \in MgmtOp : opStore[m] = "completed" => issuedFor[m] \in effected
  BY DEF OutcomesTrue, IssuedOnce
<1>2. ASSUME NEW h \in Handler, Dispatch(h), eff'[h].mop # None
      PROVE  /\ JobOp(h) \in Op /\ invoked[JobOp(h)] = 0 /\ invoked'[JobOp(h)] # 0
             /\ \A n \in MgmtOp : issuedFor[n] # JobOp(h)
             /\ issuedFor' = [issuedFor EXCEPT ![eff'[h].mop] = JobOp(h)]
             /\ eff'[h].mop \in MgmtOp /\ issuedFor[eff'[h].mop] = None
  <2>1. JobOp(h) \in Op /\ invoked[JobOp(h)] = 0
    BY <1>2, JobFields DEF Dispatch, CallbackInv, InvocationsGranted
  <2>2. Invoke(JobOp(h))
    BY <1>2, DispatchGives
  <2>3. invoked'[JobOp(h)] # 0
    BY <1>0, <2>1, <2>2 DEF Invoke
  <2> QED BY <1>0, <1>1, <1>2, <2>1, <2>3, DispatchGives
<1>3. \A m \in MgmtOp : issuedFor'[m] # None => invoked'[issuedFor'[m]] # 0
  <2> SUFFICES ASSUME NEW m \in MgmtOp, issuedFor'[m] # None PROVE invoked'[issuedFor'[m]] # 0
    OBVIOUS
  <2>1. CASE issuedFor' = issuedFor
    BY <1>0, <1>1, <2>1, ProviderMoves
  <2>2. ASSUME NEW h \in Handler, Dispatch(h), eff'[h].mop # None
        PROVE  invoked'[issuedFor'[m]] # 0
    BY <1>0, <1>1, <1>2, <2>2, ProviderMoves
  <2> QED BY <2>1, <2>2, ProviderMoves
<1>4. ASSUME NEW m \in MgmtOp, NEW n \in MgmtOp, issuedFor'[m] # None, issuedFor'[m] = issuedFor'[n]
      PROVE  m = n
  <2>1. CASE issuedFor' = issuedFor
    BY <1>1, <1>4, <2>1
  <2>2. ASSUME NEW h \in Handler, Dispatch(h), eff'[h].mop # None
        PROVE  m = n
    BY <1>0, <1>1, <1>2, <1>4, <2>2
  <2> QED BY <2>1, <2>2, ProviderMoves
<1>5. ASSUME NEW m \in MgmtOp, opStore'[m] = "completed"
      PROVE  issuedFor'[m] \in effected'
  <2>1. CASE opStore[m] = "completed"
    <3>1. issuedFor[m] \in effected /\ issuedFor[m] \in Op
      BY <1>1, <2>1 DEF CallbackInv, StoreIsIssued
    <3> QED BY <1>0, <3>1, IssuedForKept, ProviderMoves
  <2>2. ASSUME NEW h \in Handler, Dispatch(h), eff'[h].mop = m
        PROVE  issuedFor'[m] \in effected'
    <3>1. m # None /\ issuedFor'[m] = JobOp(h)
      BY <1>0, <1>2, <2>2, NoneAssumption
    <3>2. JobOp(h) \in effected'
      BY <1>5, <2>2, <3>1, DispatchGives
    <3> QED BY <3>1, <3>2
  <2> QED BY <1>5, <2>1, <2>2, ProviderMoves
<1> QED BY <1>3, <1>4, <1>5 DEF IssuedOnce

\* Binding (set_management_operation) keeps operations of two effects apart.
LEMMA NotMixedKept ==
  ASSUME CallbackInv, OutcomesTrue, [CallbackNext]_callbackVars
  PROVE  OperationsNotMixed'
<1> SUFFICES ASSUME NEW o \in Op, mgmtOp'[o] # None PROVE issuedFor'[mgmtOp'[o]] = o
  BY DEF OperationsNotMixed
<1>0. mgmtOp \in [Op -> MgmtOp \cup {None}] /\ o # None
  BY NoCommandAssumption DEF CallbackInv, CallbackTypeOK, LedgerTypeOK
<1>1. CASE mgmtOp'[o] = mgmtOp[o]
  BY <1>0, <1>1, IssuedForKept DEF OutcomesTrue, OperationsNotMixed
<1>2. CASE mgmtOp'[o] # mgmtOp[o]
  <2>1. PICK h \in Handler : pc[h] = "bind" /\ JobOp(h) = o /\ mgmtOp'[o] = eff[h].mop
    BY <1>2, BoundBy
  <2>2. issuedFor[eff[h].mop] = o /\ eff[h].mop \in MgmtOp
    BY <2>1, RecordedTerm DEF OutcomesTrue, EffectIsOwn, Recording
  <2> QED BY <1>0, <2>1, <2>2, IssuedForKept
<1> QED BY <1>1, <1>2

\* An observe never has a management operation, and its outcome is fixed.
LEMMA ObserveKept ==
  ASSUME CallbackInv, OutcomesTrue, [CallbackNext]_callbackVars
  PROVE  ObserveIsFixed'
<1> SUFFICES ASSUME NEW o \in Op, request'[o] # None, request'[o].action = "observe"
             PROVE  /\ mgmtOp'[o] = None
                    /\ status'[o] \in TerminalStatus =>
                         /\ status'[o] = ObserveEffect.status
                         /\ terminal'[o] = ObserveEffect.term
  BY DEF ObserveIsFixed, ObserveEffect
<1>0. ObserveEffect.mop = None
  BY DEF ObserveEffect, Effect
<1>1. \A h \in Handler : pc[h] \in Recording /\ JobOp(h) = o => eff[h] = ObserveEffect
  <2> SUFFICES ASSUME NEW h \in Handler, pc[h] \in Recording, JobOp(h) = o
               PROVE  eff[h] = ObserveEffect
    OBVIOUS
  <2>1. request[o] = job[h] /\ job[h] # None
    BY RowIsJob DEF Recording
  <2>2. job[h].action = "observe"
    BY <2>1, RowKept
  <2> QED BY <2>2 DEF OutcomesTrue, EffectIsOwn
<1>2. mgmtOp[o] = None /\ (status[o] \in TerminalStatus =>
        status[o] = ObserveEffect.status /\ terminal[o] = ObserveEffect.term)
  <2>1. CASE request[o] = None
    BY <2>1 DEF CallbackInv, LedgerInv, RowsAreWhole, UnboundUntilDispatched, TerminalStatus
  <2>2. CASE request[o] # None
    <3>1. request[o].action = "observe"
      BY <2>2, RowKept
    <3> QED BY <2>2, <3>1 DEF OutcomesTrue, ObserveIsFixed
  <2> QED BY <2>1, <2>2
<1>3. mgmtOp'[o] = None
  BY <1>0, <1>1, <1>2, BoundBy DEF Recording
<1>4. ASSUME status'[o] \in TerminalStatus, status[o] \notin TerminalStatus
      PROVE  status'[o] = ObserveEffect.status /\ terminal'[o] = ObserveEffect.term
  BY <1>1, <1>4, DecidedBy DEF Recording
<1> QED BY <1>2, <1>3, <1>4, RowKept

\* A success is only ever recorded of an effect that took place.
LEMMA SuccessKept ==
  ASSUME CallbackInv, OutcomesTrue, [CallbackNext]_callbackVars
  PROVE  SuccessIsReal'
<1> SUFFICES ASSUME NEW o \in Op, status'[o] = "succeeded", request'[o].action \in Effectful
             PROVE  o \in effected'
  BY DEF SuccessIsReal
<1>0. "succeeded" \in TerminalStatus
  BY DEF TerminalStatus
<1>1. CASE status[o] \in TerminalStatus
  <2>1. request[o] # None
    BY <1>1 DEF CallbackInv, LedgerInv, RowsAreWhole, TerminalStatus
  <2>2. status[o] = "succeeded" /\ request[o].action \in Effectful
    BY <1>1, <2>1, RowKept
  <2> QED BY <2>2, EffectedGrows DEF OutcomesTrue, SuccessIsReal
<1>2. CASE status[o] \notin TerminalStatus
  <2>1. PICK h \in Handler : /\ pc[h] \in {"finish", "settle"} /\ JobOp(h) = o
                             /\ status'[o] = eff[h].status /\ request' = request
    BY <1>0, <1>2, DecidedBy
  <2>2. job[h].action \in Effectful
    BY <2>1, RowIsJob
  <2>3. o \in effected
    BY <2>1, <2>2 DEF OutcomesTrue, EffectIsOwn, Recording
  <2> QED BY <2>3, EffectedGrows
<1> QED BY <1>1, <1>2

\* The effect a handler has in hand stays its own and true.
LEMMA OwnKept ==
  ASSUME CallbackInv, OutcomesTrue, [CallbackNext]_callbackVars, NEW h \in Handler
  PROVE  EffectIsOwn(h)'
<1>0. EffectIsOwn(h) /\ None \notin Op /\ mgmtOp \in [Op -> MgmtOp \cup {None}]
  BY NoCommandAssumption DEF OutcomesTrue, CallbackInv, CallbackTypeOK, LedgerTypeOK
<1>1. CASE pc'[h] \notin {"resume", "bind", "finish", "settle"}
  BY <1>1 DEF EffectIsOwn, Recording
<1>2. CASE Untouched(h) /\ pc[h] \in {"resume", "bind", "finish", "settle"}
  <2>1. JobOp(h)' = JobOp(h) /\ job'[h] = job[h] /\ snap'[h] = snap[h] /\ eff'[h] = eff[h]
        /\ pc'[h] = pc[h]
    BY <1>2 DEF Untouched, JobOp
  <2>2. JobOp(h) \in Op
    BY <1>2, RowIsJob
  <2>3. pc[h] = "resume" /\ snap[h].mop # None => snap[h].mop = mgmtOp'[JobOp(h)]
    BY <1>0, <2>2, RowKept DEF EffectIsOwn
  <2>4. pc[h] \in Recording /\ eff[h].mop # None => issuedFor'[eff[h].mop] = JobOp(h)
    <3> SUFFICES ASSUME pc[h] \in Recording, eff[h].mop # None
                 PROVE  issuedFor'[eff[h].mop] = JobOp(h)
      OBVIOUS
    <3>1. eff[h].mop \in MgmtOp /\ issuedFor[eff[h].mop] = JobOp(h)
      BY <1>0, RecordedTerm DEF EffectIsOwn, Recording
    <3> QED BY <1>0, <2>2, <3>1, IssuedForKept
  <2>5. pc[h] \in Recording /\ eff[h].status = "succeeded" /\ job[h].action \in Effectful =>
          JobOp(h) \in effected'
    BY <1>0, EffectedGrows DEF EffectIsOwn
  <2>6. pc[h] = "bind" => mgmtOp'[JobOp(h)] = None
          /\ (job[h].action # "observe" => status'[JobOp(h)] \in {"dispatched", "unknown"})
    BY <1>0, <1>2, UndecidedKept DEF EffectIsOwn, Undispatched
  <2>7. pc[h] = "finish" => mgmtOp'[JobOp(h)] = eff[h].mop
          /\ (eff[h].mop = None /\ job[h].action # "observe" =>
                status'[JobOp(h)] \in {"dispatched", "unknown"})
    <3>1. CASE eff[h].mop = None
      BY <1>0, <1>2, <3>1, UndecidedKept DEF EffectIsOwn
    <3>2. CASE eff[h].mop # None
      BY <1>0, <2>2, <3>2, RowKept DEF EffectIsOwn
    <3> QED BY <3>1, <3>2
  <2>8. pc[h] = "settle" /\ job[h].action # "observe" =>
          eff[h].mop # None /\ eff[h].mop = mgmtOp'[JobOp(h)]
    BY <1>0, <2>2, RowKept DEF EffectIsOwn
  <2>9. pc[h] \in Recording /\ job[h].action = "observe" => eff[h] = ObserveEffect
    BY <1>0 DEF EffectIsOwn
  <2> QED BY <2>1, <2>3, <2>4, <2>5, <2>6, <2>7, <2>8, <2>9
          DEF EffectIsOwn, Undispatched, ObserveEffect
<1>3. CASE /\ pc'[h] = "resume" /\ job'[h] = job[h] /\ pc[h] \in {"read", "reread"}
           /\ snap'[h] = CurrentRecord(JobOp(h)) /\ UNCHANGED <<ledgerVars, providerVars>>
  BY <1>3 DEF EffectIsOwn, Recording, CurrentRecord, JobOp, ledgerVars
<1>4. CASE pc'[h] = "bind" /\ Dispatch(h)
  <2>1. JobOp(h)' = JobOp(h) /\ job'[h] = job[h] /\ mgmtOp' = mgmtOp /\ status' = status
    BY <1>4, DispatchGives DEF JobOp, ledgerVars
  <2>2. Undispatched(h)
    BY <1>4 DEF Dispatch, CallbackInv, UndecidedBeforeDispatch
  <2>3. Undispatched(h)'
    BY <2>1, <2>2 DEF Undispatched
  <2>4. eff'[h].mop # None => issuedFor'[eff'[h].mop] = JobOp(h)
    BY <1>4, DispatchGives DEF CallbackInv, CallbackTypeOK
  <2>5. eff'[h].status = "succeeded" /\ job[h].action \in Effectful => JobOp(h) \in effected'
    BY <1>4, DispatchGives DEF Effectful
  <2>6. job[h].action = "observe" => eff'[h] = ObserveEffect
    BY <1>4, DispatchGives
  <2> QED BY <1>4, <2>1, <2>3, <2>4, <2>5, <2>6 DEF EffectIsOwn, Recording, ObserveEffect
<1>5. CASE pc'[h] = "finish" /\ Bind(h)
  <2>1. /\ JobOp(h)' = JobOp(h) /\ job' = job /\ eff' = eff /\ status' = status /\ pc[h] = "bind"
        /\ UNCHANGED <<issuedFor, effected>>
    BY <1>5 DEF Bind, SetManagementOperation, ledgerVars, JobOp, providerVars
  <2>2. JobOp(h) \in Op /\ Undispatched(h)
    BY <1>0, <2>1, RowIsJob DEF EffectIsOwn
  <2>3. CASE eff[h].mop = None
    <3>1. mgmtOp' = mgmtOp
      BY <1>5, <2>3 DEF Bind, ledgerVars
    <3> QED BY <1>0, <1>5, <2>1, <2>2, <2>3, <3>1
            DEF EffectIsOwn, Recording, Undispatched, ObserveEffect
  <2>4. CASE eff[h].mop # None
    <3>1. job[h].action # "observe"
      BY <1>0, <2>1, <2>4 DEF EffectIsOwn, Recording, ObserveEffect, Effect
    <3>2. mgmtOp[JobOp(h)] = None /\ status[JobOp(h)] \in {"dispatched", "unknown"}
      BY <2>2, <3>1 DEF Undispatched
    <3>3. SetManagementOperation(JobOp(h), eff[h].mop)
      BY <1>5, <2>4, <3>2 DEF Bind, MgmtOpConflict
    <3>4. mgmtOp'[JobOp(h)] = eff[h].mop
      BY <1>0, <2>2, <3>2, <3>3 DEF SetManagementOperation
    <3> QED BY <1>0, <1>5, <2>1, <2>4, <3>1, <3>4 DEF EffectIsOwn, Recording, ObserveEffect
  <2> QED BY <2>3, <2>4
<1>6. CASE pc'[h] = "settle" /\ Resume(h)
  <2>1. /\ JobOp(h)' = JobOp(h) /\ job' = job /\ mgmtOp' = mgmtOp /\ pc[h] = "resume"
        /\ UNCHANGED <<issuedFor, effected>> /\ eff \in [Handler -> ProviderEffect \cup {None}]
    BY <1>6 DEF Resume, ledgerVars, JobOp, providerVars, CallbackInv, CallbackTypeOK
  <2>2. JobOp(h) \in Op /\ request[JobOp(h)] = job[h] /\ job[h] # None
    BY <2>1, RowIsJob
  <2>3. \/ eff'[h] = ObserveEffect /\ job[h].action = "observe"
        \/ snap[h].mop # None /\ Settled(snap[h].mop) /\ eff'[h] = Found(snap[h].mop)
    BY <1>6, <2>1 DEF Resume, InterruptedObserve, ObserveEffect, GoTo, CallbackInv, CallbackTypeOK
  <2>4. CASE eff'[h] = ObserveEffect /\ job[h].action = "observe"
    BY <1>6, <2>1, <2>4 DEF EffectIsOwn, Recording, ObserveEffect, Effect, Effectful
  <2>5. CASE snap[h].mop # None /\ Settled(snap[h].mop) /\ eff'[h] = Found(snap[h].mop)
    <3>1. snap[h].mop = mgmtOp[JobOp(h)] /\ mgmtOp[JobOp(h)] \in MgmtOp
      BY <1>0, <2>1, <2>2, <2>5 DEF EffectIsOwn
    <3>2. issuedFor[snap[h].mop] = JobOp(h)
      BY <2>2, <2>5, <3>1 DEF OutcomesTrue, OperationsNotMixed
    <3>3. eff'[h].mop = snap[h].mop
      BY <2>5 DEF Found, Effect
    <3>4. eff'[h].status = "succeeded" => JobOp(h) \in effected
      BY <2>5, <3>1, <3>2 DEF Found, Effect, OutcomesTrue, IssuedOnce
    <3>5. job[h].action # "observe"
      BY <2>2, <2>5, <3>1 DEF OutcomesTrue, ObserveIsFixed
    <3> QED BY <1>6, <2>1, <2>5, <3>1, <3>2, <3>3, <3>4, <3>5 DEF EffectIsOwn, Recording
  <2> QED BY <2>3, <2>4, <2>5
<1> QED BY <1>1, <1>2, <1>3, <1>4, <1>5, <1>6, HandlerMoves DEF Untouched

\* What lookup_celld_management_effect reports of an operation in state st.
FoundIn(st, m) ==
  IF st = "completed"
  THEN Effect("succeeded", m, Code("none", m))
  ELSE Effect("failed", m, Code("operation.failed", None))

Ended == {"completed", "failed"}

\* Who has the end of a management operation in hand: who had it, who has
\* just dispatched it, and who has just found it in the store.
LEMMA SaysMoves ==
  ASSUME CallbackInv, OutcomesTrue, [CallbackNext]_callbackVars, NEW h \in Handler, Says(h)'
  PROVE  \/ Says(h) /\ eff'[h] = eff[h] /\ job'[h] = job[h]
         \/ /\ Dispatch(h) /\ opStore'[eff'[h].mop] = "completed"
            /\ eff'[h] = FoundIn("completed", eff'[h].mop)
         \/ /\ Resume(h) /\ opStore[eff'[h].mop] \in Ended
            /\ eff'[h] = FoundIn(opStore[eff'[h].mop], eff'[h].mop)
            /\ eff'[h].mop = mgmtOp[JobOp(h)] /\ JobOp(h) \in Op
            /\ job' = job /\ UNCHANGED <<ledgerVars, providerVars>>
            /\ pc[h] = "resume" /\ pc'[h] = "settle"
<1>1. CASE Untouched(h)
  BY <1>1 DEF Untouched, Says
<1>2. CASE pc'[h] \notin {"resume", "bind", "finish", "settle"} \/ pc'[h] = "resume"
  BY <1>2 DEF Says, Recording
<1>3. CASE Dispatch(h)
  <2>1. opStore'[eff'[h].mop] = "completed"
        /\ eff'[h] = Effect("succeeded", eff'[h].mop, Code("none", eff'[h].mop))
    BY <1>3, DispatchGives DEF Says, TerminalStatus
  <2> QED BY <1>3, <2>1 DEF FoundIn
<1>4. CASE Bind(h)
  BY <1>4 DEF Bind, Says, Recording
<1>5. CASE Resume(h) /\ pc'[h] = "settle"
  <2>1. pc[h] = "resume" /\ eff \in [Handler -> ProviderEffect \cup {None}] /\ JobOp(h) \in Op
    BY <1>5, RowIsJob DEF Resume, CallbackInv, CallbackTypeOK
  <2>2. \/ eff'[h] = ObserveEffect
        \/ /\ snap[h].mop # None /\ opStore[snap[h].mop] \in Ended
           /\ eff'[h] = FoundIn(opStore[snap[h].mop], snap[h].mop)
    BY <1>5, <2>1 DEF Resume, ObserveEffect, Found, FoundIn, Settled, Ended, GoTo, CallbackInv, CallbackTypeOK
  <2>3. eff'[h] # ObserveEffect
    BY DEF Says, ObserveEffect, Effect
  <2>4. eff'[h].mop = snap[h].mop /\ snap[h].mop = mgmtOp[JobOp(h)]
    BY <2>1, <2>2, <2>3 DEF FoundIn, Effect, OutcomesTrue, EffectIsOwn
  <2>5. job' = job /\ UNCHANGED <<ledgerVars, providerVars>>
    BY <1>5 DEF Resume
  <2> QED BY <1>5, <2>1, <2>2, <2>3, <2>4, <2>5
<1> QED BY <1>1, <1>2, <1>3, <1>4, <1>5, HandlerMoves

\* The store does not change its mind about what a handler has in hand or
\* the ledger has on record.
LEMMA StoreKeepsWord ==
  ASSUME CallbackInv, OutcomesTrue, [CallbackNext]_callbackVars, NEW m \in MgmtOp,
         opStore[m] # "absent" => opStore[m] \in Ended,
         \/ \E h \in Handler : pc[h] \in Recording /\ eff[h].mop = m
         \/ \E o \in Op : mgmtOp[o] = m,
         opStore'[m] # "absent"
  PROVE  opStore'[m] = opStore[m]
<1>1. ASSUME NEW h \in Handler, Dispatch(h), eff'[h].mop = m
      PROVE  FALSE
  BY <1>1, FreshIsUnknown, NoneAssumption
<1> QED BY <1>1, ProviderMoves DEF Ended

\* All that handlers hold, the store and the ledger say of one management
\* operation is one verdict.
LEMMA VerdictKept ==
  ASSUME CallbackInv, OutcomesTrue, [CallbackNext]_callbackVars
  PROVE  OneVerdict'
<1>0. /\ None \notin Op /\ None \notin MgmtOp /\ mgmtOp \in [Op -> MgmtOp \cup {None}]
  BY NoCommandAssumption, NoneAssumption DEF CallbackInv, CallbackTypeOK, LedgerTypeOK
<1>1. /\ \A h, g \in Handler : Says(h) /\ Says(g) /\ eff[h].mop = eff[g].mop => eff[h] = eff[g]
      /\ \A h \in Handler : Says(h) /\ opStore[eff[h].mop] # "absent" =>
           opStore[eff[h].mop] \in Ended /\ eff[h] = FoundIn(opStore[eff[h].mop], eff[h].mop)
  BY DEF OutcomesTrue, OneVerdict, Found, FoundIn, Settled, Ended
<1>2. ASSUME NEW o \in Op, status[o] \in TerminalStatus, mgmtOp[o] # None
      PROVE  /\ opStore[mgmtOp[o]] # "absent" =>
                  /\ opStore[mgmtOp[o]] \in Ended
                  /\ status[o] = FoundIn(opStore[mgmtOp[o]], mgmtOp[o]).status
                  /\ terminal[o] = FoundIn(opStore[mgmtOp[o]], mgmtOp[o]).term
             /\ \A h \in Handler : Says(h) /\ JobOp(h) = o =>
                  status[o] = eff[h].status /\ terminal[o] = eff[h].term
  BY <1>2 DEF OutcomesTrue, OneVerdict, Found, FoundIn, Settled, Ended
<1>3. \A h \in Handler : Says(h) => pc[h] \in Recording /\ eff[h].mop \in MgmtOp
        /\ eff[h].status \in TerminalStatus /\ eff[h].mop # None
  BY RecordedTerm DEF Says, Recording
<1>4. ASSUME NEW h \in Handler, Dispatch(h)
      PROVE  \A g \in Handler : g # h => ~Dispatch(g) /\ ~(Resume(g) /\ pc'[g] = "settle")
  BY <1>4, DispatchGives DEF Untouched, Dispatch, Resume
<1>5. ASSUME NEW h \in Handler, NEW g \in Handler, Says(h)', Says(g)', eff'[h].mop = eff'[g].mop,
             h # g, ~Dispatch(g)
      PROVE  eff'[h] = eff'[g]
  <2>0. eff'[h].mop # None
    BY <1>5 DEF Says
  <2>1. CASE Dispatch(h)
    <3>1. Says(g) /\ eff'[g] = eff[g]
      BY <1>4, <1>5, <2>1, SaysMoves
    <3> QED BY <1>3, <1>5, <2>0, <2>1, <3>1, FreshIsUnknown
  <2>2. CASE ~Dispatch(h)
    <3>1. \/ Says(h) /\ eff'[h] = eff[h]
          \/ /\ opStore[eff'[h].mop] \in Ended
             /\ eff'[h] = FoundIn(opStore[eff'[h].mop], eff'[h].mop)
      BY <1>5, <2>2, SaysMoves
    <3>2. \/ Says(g) /\ eff'[g] = eff[g]
          \/ /\ opStore[eff'[g].mop] \in Ended
             /\ eff'[g] = FoundIn(opStore[eff'[g].mop], eff'[g].mop)
      BY <1>5, SaysMoves
    <3> QED BY <1>1, <1>5, <3>1, <3>2 DEF Ended
  <2> QED BY <2>1, <2>2
<1>6. ASSUME NEW h \in Handler, NEW g \in Handler, Says(h)', Says(g)', eff'[h].mop = eff'[g].mop
      PROVE  eff'[h] = eff'[g]
  <2>1. CASE ~Dispatch(g) \/ h = g
    BY <1>5, <1>6, <2>1
  <2>2. CASE ~Dispatch(h)
    BY <1>5, <1>6, <2>2
  <2>3. Dispatch(g) /\ Dispatch(h) => h = g
    BY <1>4
  <2> QED BY <2>1, <2>2, <2>3
<1>7. ASSUME NEW h \in Handler, Says(h)', opStore'[eff'[h].mop] # "absent"
      PROVE  /\ opStore'[eff'[h].mop] \in Ended
             /\ eff'[h] = FoundIn(opStore'[eff'[h].mop], eff'[h].mop)
  <2>1. CASE Dispatch(h)
    <3>1. opStore'[eff'[h].mop] = "completed" /\ eff'[h] = FoundIn("completed", eff'[h].mop)
      BY <1>3, <1>7, <2>1, SaysMoves DEF Says, Dispatch, Resume, Recording
    <3> QED BY <3>1 DEF Ended
  <2>2. CASE ~Dispatch(h) /\ Says(h) /\ eff'[h] = eff[h]
    <3>1. opStore'[eff[h].mop] = opStore[eff[h].mop]
      BY <1>1, <1>3, <1>7, <2>2, StoreKeepsWord
    <3> QED BY <1>1, <1>7, <2>2, <3>1
  <2>3. CASE /\ opStore[eff'[h].mop] \in Ended
             /\ eff'[h] = FoundIn(opStore[eff'[h].mop], eff'[h].mop)
             /\ UNCHANGED <<ledgerVars, providerVars>>
    BY <2>3 DEF providerVars
  <2> QED BY <1>7, <2>1, <2>2, <2>3, SaysMoves
<1>8. ASSUME NEW o \in Op, status'[o] \in TerminalStatus, mgmtOp'[o] # None
      PROVE  /\ opStore'[mgmtOp'[o]] # "absent" =>
                  /\ opStore'[mgmtOp'[o]] \in Ended
                  /\ status'[o] = FoundIn(opStore'[mgmtOp'[o]], mgmtOp'[o]).status
                  /\ terminal'[o] = FoundIn(opStore'[mgmtOp'[o]], mgmtOp'[o]).term
             /\ \A h \in Handler : Says(h)' /\ JobOp(h)' = o =>
                  status'[o] = eff'[h].status /\ terminal'[o] = eff'[h].term
  <2>1. CASE status[o] \in TerminalStatus
    <3>1. mgmtOp'[o] = mgmtOp[o]
      <4> SUFFICES ASSUME mgmtOp'[o] # mgmtOp[o] PROVE FALSE
        OBVIOUS
      <4>1. PICK h \in Handler : pc[h] = "bind" /\ JobOp(h) = o /\ mgmtOp'[o] = eff[h].mop
        BY BoundBy
      <4>2. EffectIsOwn(h)
        BY DEF OutcomesTrue
      <4>3. job[h].action = "observe"
        BY <2>1, <4>1, <4>2 DEF EffectIsOwn, Undispatched, TerminalStatus
      <4>4. eff[h].mop = None
        BY <4>1, <4>2, <4>3 DEF EffectIsOwn, Recording, ObserveEffect, Effect
      <4> QED BY <1>8, <4>1, <4>4
    <3>2. /\ mgmtOp[o] \in MgmtOp /\ mgmtOp[o] # None
          /\ status'[o] = status[o] /\ terminal'[o] = terminal[o]
      BY <1>0, <1>8, <2>1, <3>1, RowKept
    <3>3. ASSUME opStore'[mgmtOp[o]] # "absent"
          PROVE  opStore'[mgmtOp[o]] = opStore[mgmtOp[o]]
      <4>1. opStore[mgmtOp[o]] # "absent" => opStore[mgmtOp[o]] \in Ended
        BY <1>2, <2>1, <3>2
      <4> QED BY <3>2, <3>3, <4>1, StoreKeepsWord
    <3>4. ASSUME NEW h \in Handler, Says(h)', JobOp(h)' = o
          PROVE  status'[o] = eff'[h].status /\ terminal'[o] = eff'[h].term
      <4>1. CASE Says(h) /\ eff'[h] = eff[h] /\ job'[h] = job[h]
        <5>1. JobOp(h) = o
          BY <3>4, <4>1 DEF JobOp
        <5> QED BY <1>2, <2>1, <3>2, <4>1, <5>1
      <4>2. CASE Dispatch(h)
        <5>1. JobOp(h) = o
          BY <3>4, <4>2, DispatchGives DEF JobOp
        <5>2. mgmtOp[JobOp(h)] = None
          BY <4>2 DEF Dispatch, CallbackInv, UndecidedBeforeDispatch, Undispatched
        <5> QED BY <3>2, <5>1, <5>2
      <4>3. CASE /\ opStore[eff'[h].mop] \in Ended
                 /\ eff'[h] = FoundIn(opStore[eff'[h].mop], eff'[h].mop)
                 /\ eff'[h].mop = mgmtOp[JobOp(h)] /\ job' = job
        <5>1. JobOp(h) = o
          BY <3>4, <4>3 DEF JobOp
        <5> QED BY <1>2, <2>1, <3>2, <4>3, <5>1 DEF Ended
      <4> QED BY <3>4, <4>1, <4>2, <4>3, SaysMoves
    <3> QED BY <1>2, <2>1, <3>1, <3>2, <3>3, <3>4
  <2>2. CASE status[o] \notin TerminalStatus
    <3>1. PICK k \in Handler : /\ pc[k] \in {"finish", "settle"} /\ pc'[k] = "answer"
                            /\ JobOp(k) = o /\ eff[k].status \in TerminalStatus
                            /\ status'[o] = eff[k].status /\ terminal'[o] = eff[k].term
                            /\ UNCHANGED <<request, mgmtOp, providerVars, eff, job>>
                            /\ \A g \in Handler : g # k => pc'[g] = pc[g]
      BY <1>8, <2>2, DecidedBy
    <3>2. EffectIsOwn(k) /\ request[o] = job[k] /\ job[k] # None /\ mgmtOp[o] \in MgmtOp
          /\ mgmtOp[o] # None
      BY <1>0, <1>8, <3>1, RowIsJob DEF OutcomesTrue
    <3>3. job[k].action # "observe"
      BY <3>2 DEF OutcomesTrue, ObserveIsFixed
    <3>4. eff[k].mop = mgmtOp[o]
      BY <3>1, <3>2, <3>3 DEF EffectIsOwn
    <3>5. Says(k)
      BY <3>1, <3>2, <3>4 DEF Says, Recording
    <3>6. opStore' = opStore /\ eff' = eff /\ mgmtOp' = mgmtOp
      BY <3>1 DEF providerVars
    <3>7. ASSUME opStore'[mgmtOp'[o]] # "absent"
          PROVE  /\ opStore'[mgmtOp'[o]] \in Ended
                 /\ status'[o] = FoundIn(opStore'[mgmtOp'[o]], mgmtOp'[o]).status
                 /\ terminal'[o] = FoundIn(opStore'[mgmtOp'[o]], mgmtOp'[o]).term
      <4>1. opStore[mgmtOp[o]] \in Ended /\ eff[k] = FoundIn(opStore[mgmtOp[o]], mgmtOp[o])
        BY <1>1, <3>4, <3>5, <3>6, <3>7
      <4> QED BY <3>1, <3>6, <4>1
    <3>8. ASSUME NEW h \in Handler, Says(h)', JobOp(h)' = o
          PROVE  status'[o] = eff'[h].status /\ terminal'[o] = eff'[h].term
      <4>1. h # k
        BY <3>1, <3>8 DEF Says, Recording
      <4>2. Says(h) /\ JobOp(h) = o
        BY <3>1, <3>8, <4>1 DEF Says, JobOp
      <4>3. issuedFor[eff[h].mop] = o /\ issuedFor[mgmtOp[o]] = o
        BY <1>3, <3>2, <4>2 DEF OutcomesTrue, EffectIsOwn, OperationsNotMixed
      <4>4. eff[h].mop = mgmtOp[o]
        BY <1>0, <1>3, <3>2, <4>2, <4>3 DEF OutcomesTrue, IssuedOnce
      <4>5. eff[h] = eff[k]
        BY <1>1, <3>4, <3>5, <4>2, <4>4
      <4> QED BY <3>1, <3>6, <4>5
    <3> QED BY <3>7, <3>8
  <2> QED BY <2>1, <2>2
<1> QED
  BY <1>6, <1>7, <1>8 DEF OneVerdict, Found, FoundIn, Settled, Ended

\* The invariant of the outcomes is kept by every step, and holds at first.
LEMMA OutcomesStepInv ==
  CallbackInv /\ OutcomesTrue /\ [CallbackNext]_callbackVars => OutcomesTrue'
<1> SUFFICES ASSUME CallbackInv, OutcomesTrue, [CallbackNext]_callbackVars PROVE OutcomesTrue'
  OBVIOUS
<1>1. \A h \in Handler : EffectIsOwn(h)'
  BY OwnKept
<1> QED BY <1>1, NotMixedKept, IssuedOnceKept, VerdictKept, ObserveKept, SuccessKept DEF OutcomesTrue

\* Nothing is recorded, held or issued at first.
LEMMA OutcomesInitInv == CallbackInit => OutcomesTrue
<1> SUFFICES ASSUME CallbackInit PROVE OutcomesTrue
  OBVIOUS
<1>1. /\ \A h \in Handler : pc[h] = "idle"
      /\ \A o \in Op : request[o] = None /\ status[o] = "absent" /\ mgmtOp[o] = None
      /\ \A m \in MgmtOp : opStore[m] = "absent" /\ issuedFor[m] = None
  BY DEF CallbackInit, HandlersIdle, LedgerInit
<1> QED BY <1>1 DEF OutcomesTrue, OperationsNotMixed, IssuedOnce, EffectIsOwn, Recording, OneVerdict,
    Says, ObserveIsFixed, SuccessIsReal, TerminalStatus

-----------------------------------------------------------------------------
(* Theorems about outcomes.                                                *)

\* What is said of an effect in flight, in the store and on record is one
\* and the same, for any number of handlers, deliveries, disconnects,
\* expiries and restarts (effect_callback, resume_effect,
\* lookup_celld_management_effect).
THEOREM OutcomesInvariant == CallbackSpec => [](CallbackInv /\ OutcomesTrue)
BY CallbackInitInv, CallbackStepInv, OutcomesInitInv, OutcomesStepInv, PTL DEF CallbackSpec

\* A recorded success of an effectful operation happened at the provider.
THEOREM RecordedSuccessIsReal == CallbackSpec => []SuccessIsReal
<1>1. OutcomesTrue => SuccessIsReal BY DEF OutcomesTrue
<1> QED BY <1>1, OutcomesInvariant, PTL

\* A management operation on record was created for that effect.
THEOREM BoundOperationsNotMixed == CallbackSpec => []OperationsNotMixed
<1>1. OutcomesTrue => OperationsNotMixed BY DEF OutcomesTrue
<1> QED BY <1>1, OutcomesInvariant, PTL

\* Racing completions of one operation agree, so that neither conflict error
\* is ever the answer to a legitimate delivery.
THEOREM RacingCompletionsAgree == CallbackSpec => []CompletionsAgree
<1>1. CallbackInv /\ OutcomesTrue => CompletionsAgree
  <2> SUFFICES ASSUME CallbackInv, OutcomesTrue, NEW h \in Handler
               PROVE  /\ pc[h] \in {"finish", "settle"} /\ eff[h].status \in TerminalStatus =>
                           ~CompletionConflict(JobOp(h), eff[h].status, eff[h].term)
                      /\ pc[h] = "bind" /\ eff[h].mop # None =>
                           ~MgmtOpConflict(JobOp(h), eff[h].mop)
    BY DEF CompletionsAgree
  <2>0. EffectIsOwn(h)
    BY DEF OutcomesTrue
  <2>1. ASSUME pc[h] = "bind" PROVE ~MgmtOpConflict(JobOp(h), eff[h].mop)
    BY <2>0, <2>1 DEF EffectIsOwn, Undispatched, MgmtOpConflict
  <2>2. ASSUME pc[h] \in {"finish", "settle"}, eff[h].status \in TerminalStatus,
               status[JobOp(h)] \in TerminalStatus
        PROVE  status[JobOp(h)] = eff[h].status /\ terminal[JobOp(h)] = eff[h].term
    <3>1. JobOp(h) \in Op /\ request[JobOp(h)] = job[h] /\ job[h] # None
      BY <2>2, RowIsJob
    <3>2. CASE job[h].action = "observe"
      <4>1. eff[h] = ObserveEffect
        BY <2>0, <2>2, <3>2 DEF EffectIsOwn, Recording
      <4>2. status[JobOp(h)] = ObserveEffect.status /\ terminal[JobOp(h)] = ObserveEffect.term
        BY <2>2, <3>1, <3>2 DEF OutcomesTrue, ObserveIsFixed
      <4> QED BY <4>1, <4>2
    <3>3. CASE job[h].action # "observe"
      <4>1. eff[h].mop # None /\ mgmtOp[JobOp(h)] # None
        BY <2>0, <2>2, <3>3 DEF EffectIsOwn, TerminalStatus
      <4>2. Says(h)
        BY <2>2, <4>1 DEF Says, Recording
      <4> QED BY <2>2, <3>1, <4>1, <4>2 DEF OutcomesTrue, OneVerdict
    <3> QED BY <3>2, <3>3
  <2> QED BY <2>1, <2>2 DEF CompletionConflict
<1> QED BY <1>1, OutcomesInvariant, PTL
=============================================================================
