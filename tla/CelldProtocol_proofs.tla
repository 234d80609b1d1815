------------------------- MODULE CelldProtocol_proofs -------------------------
(***************************************************************************)
(* Proofs about the composed effect protocol: the worker and management    *)
(* are used as their own specifications say, so that the theorems of both  *)
(* hold of the composition, and the two never contradict each other, for   *)
(* any commands of one instance, any number of handlers and any faults.    *)
(* End to end, what the cell reports to its clients and what the provider  *)
(* does implement the contract of AtMostOnceEffect.                        *)
(***************************************************************************)
EXTENDS CelldProtocol, InstanceCell_proofs, EffectCallback_proofs

\* The whole inductive invariant.
ComposedInv == CellInv /\ CallbackInv /\ OutcomesTrue /\ ProtocolInv

\* The steps of the composition, by whom they touch.
LEMMA ProtocolCases ==
  ASSUME [ProtocolNext]_protocolVars
  PROVE  \/ UNCHANGED protocolVars
         \/ \E c \in Command : Issued(c) \/ Reissued(c) \/ AckLost(c)
         \/ Send \/ ExchangeFails \/ LinkFails \/ CellOwnerLost \/ ManagementRestart
         \/ \E h \in Handler : \/ Deliver(h) \/ Serve(h) \/ ReplyArrives(h) \/ ReplyUnread(h)
                               \/ ServerDisconnect(h) \/ GateFails(h)
         \/ \E m \in MgmtOp : WorkerEnds(m) \/ OperationExpires(m)
BY DEF ProtocolNext, SystemNext, FaultNext

\* managementCallbackOutcome always yields one of the callback outcomes.
LEMMA OutcomeIsOne == ASSUME NEW r PROVE OutcomeOf(r) \in CallbackOutcome
BY DEF OutcomeOf, CallbackOutcome

\* The worker makes its own steps only.
LEMMA WorkerSteps ==
  ASSUME [ProtocolNext]_protocolVars
  PROVE  [CellNext]_cellVars
BY ProtocolCases, OutcomeIsOne
DEF protocolVars, cellVars, Issued, Reissued, AckLost, Send, ExchangeFails, LinkFails, CellOwnerLost,
    ManagementRestart, Deliver, Serve, ReplyArrives, ReplyUnread, ServerDisconnect, GateFails,
    WorkerEnds, OperationExpires, CellNext, CallbackOutcome

\* Management makes its own steps only: a callback names a generation that
\* some command has.
LEMMA ManagementSteps ==
  ASSUME ComposedInv, [ProtocolNext]_protocolVars
  PROVE  [CallbackNext]_callbackVars
<1>1. ASSUME NEW h \in Handler, Deliver(h)
      PROVE  CallbackNext
  <2>1. run # None /\ JoinedWith(run.copy) /\ run.copy \in Cell /\ run.at \in DOMAIN run.copy.effects
    BY <1>1 DEF Deliver, ComposedInv, ProtocolInv, ProtocolTypeOK, CellInv, CellTypeOK, CellRun
  <2>2. \E k \in DOMAIN run.copy.effects :
          run.copy.effects[k].cmd.generation = run.copy.generation
    BY <2>1 DEF JoinedWith, GenerationsOrdered
  <2>3. run.copy.generation \in {d.generation : d \in Command} /\ Carried \in Command
    BY <2>1, <2>2, CellFields DEF Carried
  <2> QED BY <1>1, <2>3 DEF Deliver, CallbackNext
<1>2. \/ UNCHANGED callbackVars
      \/ \E h \in Handler : HandlerStep(h) \/ GateFailure(h) \/ Disconnect(h) \/ Close(h) \/ Deliver(h)
      \/ \E m \in MgmtOp : ProvisionEnds(m) \/ Expire(m)
      \/ Restart
  BY ProtocolCases
  DEF protocolVars, Issued, Reissued, AckLost, Send, ExchangeFails, LinkFails, CellOwnerLost,
      ManagementRestart, Serve, ReplyArrives, ReplyUnread, ServerDisconnect, GateFails,
      WorkerEnds, OperationExpires
<1> QED BY <1>1, <1>2 DEF CallbackNext

\* An entry of the cell whose operation has a row is what the row is for.
LEMMA EntryIsRow ==
  ASSUME NEW e \in Cell, LedgerInv, OneEntryPerOperation(e), KnownToCell(e),
         NEW k \in DOMAIN e.effects, status[e.effects[k].cmd.op] # "absent"
  PROVE  request[e.effects[k].cmd.op] = e.effects[k].cmd
<1>1. e.effects[k].cmd \in Command /\ e.effects[k].cmd.op \in Op
  BY CellFields, CommandFields
<1>2. request[e.effects[k].cmd.op] # None
  BY <1>1 DEF LedgerInv, RowsAreWhole
<1>3. PICK j \in DOMAIN e.effects : /\ e.effects[j].cmd = request[e.effects[k].cmd.op]
                                    /\ e.effects[j].cmd.op = e.effects[k].cmd.op
  BY <1>1, <1>2 DEF KnownToCell
<1>4. j = k
  BY <1>3 DEF OneEntryPerOperation
<1> QED BY <1>3, <1>4

\* A cell that says destroyed is at management's generation.
LEMMA DestroyedIsCurrent ==
  ASSUME NEW e \in Cell, LedgerInv, OneEntryPerOperation(e), JoinedWith(e), e.desired = "destroyed",
         NEW c \in Command
  PROVE  instGen[c.instance] = e.generation
<1>1. PICK k \in DOMAIN e.effects : DestroyedAt(e, k)
  BY DEF JoinedWith, DestroyIsRecorded
<1>2. e.effects[k].cmd \in Command /\ e.effects[k].cmd.op \in Op /\ e.effects[k].cmd # None
  BY <1>1, CellFields, CommandFields
<1>3. status[e.effects[k].cmd.op] = "succeeded"
  BY <1>1 DEF JoinedWith, AgreesWithLedger, DestroyedAt, TerminalStatus
<1>4. request[e.effects[k].cmd.op] = e.effects[k].cmd
  BY <1>3, EntryIsRow DEF JoinedWith
<1>5. e.generation <= instGen[c.instance]
  BY <1>1, <1>2, <1>4, ProtocolAssumption DEF LedgerInv, NoFutureEffect, DestroyedAt
<1>6. instGen[c.instance] <= e.generation
  BY DEF JoinedWith, GenerationsInStep
<1>7. instGen[c.instance] \in Nat /\ e.generation \in Nat
  BY CommandFields, CellFields DEF LedgerInv, LedgerTypeOK
<1> QED BY <1>5, <1>6, <1>7

\* command(): the cell with one pending effect more is joined as before.
LEMMA RecordingJoins ==
  ASSUME LedgerInv, NEW e \in Cell, NEW f \in Cell, NEW c \in Command, JoinedWith(e),
         OneEntryPerOperation(e),
         Len(f.effects) = Len(e.effects) + 1,
         \A k \in DOMAIN e.effects : k \in DOMAIN f.effects /\ f.effects[k] = e.effects[k],
         f.effects[Len(f.effects)] = [cmd |-> c, status |-> "pending"],
         f.generation = c.generation,
         \/ /\ c.generation = e.generation
            /\ f.desired = NextDesired(e.desired, c.action) /\ Permitted(e.desired, c.action)
         \/ /\ c.generation = e.generation + 1 /\ e.desired = "destroyed" /\ f.desired # "destroyed"
  PROVE  JoinedWith(f)
<1> DEFINE n == Len(f.effects)
<1>0. /\ Len(e.effects) \in Nat /\ n \in Nat /\ DOMAIN e.effects = 1..Len(e.effects)
      /\ DOMAIN f.effects = 1..n /\ n \in DOMAIN f.effects
      /\ e.generation \in Nat /\ f.generation \in Nat /\ c.generation \in Nat
      /\ \A k \in DOMAIN e.effects : e.effects[k].cmd.generation \in Nat
  BY CellFields, CommandFields
<1>1. /\ f.effects[n].cmd = c /\ f.effects[n].status = "pending"
      /\ \A k \in DOMAIN f.effects : k # n => k \in DOMAIN e.effects /\ f.effects[k] = e.effects[k]
      /\ \A k \in DOMAIN e.effects : k < n /\ k \in DOMAIN f.effects /\ f.effects[k] = e.effects[k]
  BY <1>0
<1>2. "pending" \notin TerminalStatus /\ "pending" # "succeeded"
  BY DEF TerminalStatus
<1> HIDE DEF n
<1>3. AgreesWithLedger(f)
  BY <1>1, <1>2 DEF AgreesWithLedger, JoinedWith
<1>4. e.desired = "destroyed" => \A d \in Command : instGen[d.instance] = e.generation
  BY DestroyedIsCurrent
<1>5. GenerationsInStep(f)
  <2>1. \A d \in Command : instGen[d.instance] \in Nat
    BY CommandFields DEF LedgerInv, LedgerTypeOK
  <2> QED BY <1>0, <1>4, <2>1 DEF GenerationsInStep, JoinedWith
<1>6. ASSUME f.desired = "destroyed"
      PROVE  c.generation = e.generation /\ e.desired = "destroyed" /\ c.action = "observe"
  BY <1>6, CommandFields DEF NextDesired, Action, Permitted
<1>7. DestroyIsRecorded(f)
  BY <1>1, <1>6 DEF DestroyIsRecorded, DestroyedAt, JoinedWith
<1>8. GenerationsOrdered(f)
  <2>1. \A k \in DOMAIN e.effects : e.effects[k].cmd.generation <= e.generation
    BY DEF JoinedWith, GenerationsOrdered
  <2>2. \A j, k \in DOMAIN f.effects :
          j < k => f.effects[j].cmd.generation <= f.effects[k].cmd.generation
    <3> SUFFICES ASSUME NEW j \in DOMAIN f.effects, NEW k \in DOMAIN f.effects, j < k
                 PROVE  f.effects[j].cmd.generation <= f.effects[k].cmd.generation
      OBVIOUS
    <3>1. j # n
      BY <1>0
    <3>2. CASE k = n
      <4>1. f.effects[j] = e.effects[j] /\ j \in DOMAIN e.effects
        BY <1>1, <3>1
      <4>2. e.effects[j].cmd.generation <= c.generation
        BY <1>0, <2>1, <4>1
      <4> QED BY <1>1, <3>2, <4>1, <4>2
    <3>3. CASE k # n
      BY <1>1, <3>1, <3>3 DEF JoinedWith, GenerationsOrdered
    <3> QED BY <3>2, <3>3
  <2>3. \A k \in DOMAIN f.effects : f.effects[k].cmd.generation <= f.generation
    BY <1>0, <1>1, <2>1
  <2>4. ASSUME NEW k \in DOMAIN f.effects, f.effects[k].cmd.generation # f.generation
        PROVE  \E j \in DOMAIN f.effects : f.effects[j].status \in TerminalStatus
    <3>1. k \in DOMAIN e.effects /\ f.effects[k] = e.effects[k]
      BY <1>1, <2>4
    <3>2. CASE c.generation = e.generation
      BY <1>1, <2>4, <3>1, <3>2 DEF JoinedWith, GenerationsOrdered
    <3>3. CASE e.desired = "destroyed"
      BY <1>1, <3>3 DEF JoinedWith, DestroyIsRecorded, DestroyedAt, TerminalStatus
    <3> QED BY <3>2, <3>3
  <2> QED BY <1>0, <1>1, <2>2, <2>3, <2>4 DEF GenerationsOrdered
<1>9. KnownToCell(f)
  <2>1. ASSUME NEW d, CarriedInOrder(e, d)
        PROVE  CarriedInOrder(f, d)
    <3>1. PICK k \in DOMAIN e.effects :
            /\ e.effects[k].cmd = d
            /\ \A j \in DOMAIN e.effects : j < k => e.effects[j].status \in TerminalStatus
      BY <2>1 DEF CarriedInOrder
    <3>2. \A j \in DOMAIN f.effects : j < k => j # n
      BY <1>0, <1>1
    <3> QED BY <1>1, <3>1, <3>2 DEF CarriedInOrder
  <2> QED BY <1>1, <2>1 DEF KnownToCell, JoinedWith
<1> QED BY <1>3, <1>5, <1>7, <1>8, <1>9 DEF JoinedWith

\* alarm(): the copy with a true outcome in it is joined as before.
LEMMA ConcludingJoins ==
  ASSUME ComposedInv, run # None, NEW s \in CallbackOutcome,
         s \in TerminalStatus => status[Carried.op] = s /\ Carried.generation = run.copy.generation
  PROVE  JoinedWith(Concluded(s))
<1> DEFINE e == run.copy
           f == Concluded(s)
<1>0. /\ e \in Cell /\ f \in Cell /\ JoinedWith(e) /\ EffectsSound(e) /\ run.at \in DOMAIN e.effects
      /\ e.effects[run.at].status \in OpenStatus /\ LedgerInv
      /\ \A j \in OpenEffects(e) : run.at <= j
  BY ConcludedFields
  DEF ComposedInv, CellInv, CellTypeOK, CellRun, CopyIsBehind, ProtocolInv, CallbackInv
<1>1. /\ DOMAIN f.effects = DOMAIN e.effects
      /\ \A k \in DOMAIN e.effects : /\ f.effects[k].cmd = e.effects[k].cmd
                                     /\ k # run.at => f.effects[k] = e.effects[k]
      /\ f.effects[run.at].status = s
      /\ f.generation = e.generation
      /\ f.desired = IF s \in TerminalStatus
                     THEN TerminalDesired(Carried, s, e.desired) ELSE e.desired
  <2>1. CellInv
    BY DEF ComposedInv
  <2> HIDE DEF f
  <2>2. f = Concluded(s)
    BY DEF f
  <2> QED BY <2>1, <2>2, ConcludedFields
<1>2. Carried = e.effects[run.at].cmd /\ Carried \in Command
  BY <1>0, CellFields DEF Carried
<1>3. \A x \in OpenStatus : x \notin TerminalStatus
  BY DEF OpenStatus, TerminalStatus
<1>4. /\ Len(e.effects) \in Nat /\ DOMAIN e.effects = 1..Len(e.effects)
      /\ \A k \in DOMAIN e.effects : e.effects[k].status \in OpenStatus \cup TerminalStatus
  BY <1>0, CellFields
<1>5. /\ AgreesWithLedger(e) /\ GenerationsInStep(e) /\ DestroyIsRecorded(e)
      /\ GenerationsOrdered(e) /\ KnownToCell(e)
      /\ OneEntryPerOperation(e) /\ OldestFirst(e)
  BY <1>0 DEF JoinedWith, EffectsSound
<1> HIDE DEF e, f
<1>6. AgreesWithLedger(f)
  BY <1>0, <1>1, <1>2, <1>5 DEF AgreesWithLedger
<1>7. GenerationsInStep(f)
  BY <1>1, <1>5 DEF GenerationsInStep
<1>8. \A k \in DOMAIN e.effects : DestroyedAt(e, k) => k # run.at /\ DestroyedAt(f, k)
  BY <1>0, <1>1, <1>3 DEF DestroyedAt, TerminalStatus
<1>9. DestroyIsRecorded(f)
  <2> SUFFICES ASSUME f.desired = "destroyed" PROVE \E k \in DOMAIN f.effects : DestroyedAt(f, k)
    BY DEF DestroyIsRecorded
  <2>1. CASE e.desired = "destroyed"
    BY <1>1, <1>5, <1>8, <2>1 DEF DestroyIsRecorded
  <2>2. CASE e.desired # "destroyed"
    <3>1. s = "succeeded" /\ Carried.action = "destroy" /\ s \in TerminalStatus
      BY <1>1, <2>2 DEF TerminalDesired, TerminalStatus
    <3>2. DestroyedAt(f, run.at)
      BY <1>0, <1>1, <1>2, <3>1 DEF DestroyedAt, e
    <3> QED BY <1>0, <1>1, <3>2
  <2> QED BY <2>1, <2>2
<1>10. GenerationsOrdered(f)
  <2>1. \A j \in DOMAIN e.effects : e.effects[j].status \in TerminalStatus =>
          f.effects[j].status \in TerminalStatus
    BY <1>0, <1>1, <1>3
  <2> QED BY <1>1, <1>5, <2>1 DEF GenerationsOrdered
<1>11. KnownToCell(f)
  <2>1. ASSUME NEW d, CarriedInOrder(e, d)
        PROVE  CarriedInOrder(f, d)
    <3>1. PICK k \in DOMAIN e.effects :
            /\ e.effects[k].cmd = d
            /\ \A j \in DOMAIN e.effects : j < k => e.effects[j].status \in TerminalStatus
      BY <2>1 DEF CarriedInOrder
    <3>2. \A j \in DOMAIN e.effects : j < k => f.effects[j].status \in TerminalStatus
      BY <1>0, <1>1, <1>3, <3>1
    <3> QED BY <1>1, <3>1, <3>2 DEF CarriedInOrder
  <2> QED BY <1>1, <1>5, <2>1 DEF KnownToCell
<1> QED BY <1>6, <1>7, <1>9, <1>10, <1>11 DEF JoinedWith, f

-----------------------------------------------------------------------------
(* Steps of management, against a cell that stays as it is.                *)

\* Rows are inserted and generations moved by a claim only.
LEMMA ClaimedBy ==
  ASSUME CallbackInv, [CallbackNext]_callbackVars, <<request, instGen>>' # <<request, instGen>>
  PROVE  \E h \in Handler : /\ pc[h] = "claim" /\ ClaimManaged(job[h]) /\ pc'[h] = "read"
                            /\ job[h] \in Command /\ JobOp(h) \in Op /\ job'[h] = job[h]
                            /\ \A g \in Handler : g # h => Untouched(g)
<1>1. PICK h \in Handler : Claim(h)
  BY CallbackCases DEF callbackVars, ledgerVars, Receive, ReadRecord, Begin, BeginDispatch, Reread, Dispatch,
     Finish, Bind, SetManagementOperation, CompleteOrConflict, Complete, MarkUnknown, Resume, Settle,
     GiveUp, Answer, GateFailure, Disconnect, Close, ProvisionEnds, Expire, Restart, instCols
<1>2. pc[h] = "claim" /\ job[h] \in Command /\ JobOp(h) \in Op
  BY <1>1, JobFields DEF Claim
<1>3. ClaimManaged(job[h]) /\ GoTo(h, "read") /\ UNCHANGED <<job, snap, eff>>
  BY <1>1 DEF Claim, ledgerVars
<1>4. pc'[h] = "read" /\ \A g \in Handler : g # h => Untouched(g)
  BY <1>3 DEF GoTo, Untouched, CallbackInv, CallbackTypeOK
<1> QED BY <1>2, <1>3, <1>4

\* What a claim does to the generations and rows.
LEMMA ClaimDoes ==
  ASSUME LedgerInv, NEW c \in Command, ClaimManaged(c)
  PROVE  /\ instGen'[c.instance] = c.generation
         /\ \A o \in Op : request'[o] # request[o] => o = c.op /\ request'[o] = c
         /\ instGen[c.instance] \notin {0, c.generation} =>
              c.generation = instGen[c.instance] + 1
<1>1. /\ c.instance \in Instance /\ c.op \in Op /\ instGen \in [Instance -> Nat]
      /\ request \in [Op -> Command \cup {None}]
  BY CommandFields DEF LedgerInv, LedgerTypeOK
<1> QED BY <1>1 DEF ClaimManaged, Admitted, Registers, IsCurrent, Advances, BindGeneration, instCols,
                    InsertPending, effectCols

\* A handler that serves a callback keeps its command or is new.
LEMMA ManagementJoins ==
  ASSUME CallbackInv, [CallbackNext]_callbackVars, NEW e \in Cell, JoinedWith(e),
         \A h \in Handler : pc'[h] # "idle" =>
           CarriedInOrder(e, job'[h])
  PROVE  JoinedWith(e)'
<1>0. LedgerInv /\ LedgerInv'
  BY LedgerInvKept DEF CallbackInv
<1>1. \A k \in DOMAIN e.effects : e.effects[k].cmd \in Command /\ e.effects[k].cmd.op \in Op
                                 /\ e.effects[k].cmd.generation \in Nat
  BY CellFields, CommandFields
<1>2. AgreesWithLedger(e)'
  BY <1>1, RowKept DEF AgreesWithLedger, JoinedWith
<1>3. GenerationsInStep(e)' /\ \A o \in Op : request'[o] # None =>
        request'[o].op = o /\ \E k \in DOMAIN e.effects : e.effects[k].cmd = request'[o]
  <2>1. CASE <<request, instGen>>' = <<request, instGen>>
    BY <2>1 DEF JoinedWith, GenerationsInStep, KnownToCell
  <2>2. CASE <<request, instGen>>' # <<request, instGen>>
    <3>1. PICK h \in Handler : /\ pc[h] = "claim" /\ ClaimManaged(job[h])
                               /\ job[h] \in Command /\ JobOp(h) \in Op
                               /\ pc'[h] = "read" /\ job'[h] = job[h]
      BY <2>2, ClaimedBy
    <3>2. CarriedInOrder(e, job[h])
      BY <3>1
    <3>3. PICK k \in DOMAIN e.effects : e.effects[k].cmd = job[h]
      BY <3>2 DEF CarriedInOrder
    <3>4. /\ e.generation \in Nat /\ job[h].generation \in Nat /\ job[h].generation <= e.generation
          /\ instGen[job[h].instance] \in Nat /\ job[h].instance \in Instance
      BY <1>0, <1>1, <3>1, <3>3, CellFields, CommandFields
      DEF JoinedWith, GenerationsOrdered, LedgerInv, LedgerTypeOK
    <3>5. /\ instGen'[job[h].instance] = job[h].generation
          /\ \A o \in Op : request'[o] # request[o] => o = job[h].op /\ request'[o] = job[h]
          /\ instGen[job[h].instance] \notin {0, job[h].generation} =>
               job[h].generation = instGen[job[h].instance] + 1
      BY <1>0, <3>1, ClaimDoes
    <3>6. ASSUME instGen[job[h].instance] = 0
          PROVE  job[h].generation = e.generation
      <4>1. \A o \in Op : request[o] = None /\ status[o] = "absent"
        BY <1>0, <3>1, <3>6, ProtocolAssumption
        DEF LedgerInv, InstancesRegistered, LedgerTypeOK, RowsAreWhole
      <4>2. \A j \in DOMAIN e.effects : e.effects[j].status \notin TerminalStatus
        BY <1>1, <4>1 DEF JoinedWith, AgreesWithLedger, TerminalStatus
      <4> QED BY <3>3, <4>2 DEF JoinedWith, GenerationsOrdered
    <3>7. GenerationsInStep(e)'
      <4> SUFFICES ASSUME NEW c \in Command
                   PROVE  /\ instGen'[c.instance] <= e.generation
                          /\ instGen'[c.instance] # 0 => e.generation <= instGen'[c.instance] + 1
        BY DEF GenerationsInStep
      <4>1. c.instance = job[h].instance
        BY <3>1, ProtocolAssumption
      <4>2. instGen[c.instance] # 0 => e.generation <= instGen[c.instance] + 1
        BY DEF JoinedWith, GenerationsInStep
      <4> QED BY <3>4, <3>5, <3>6, <4>1, <4>2
    <3> QED BY <3>3, <3>5, <3>7 DEF JoinedWith, KnownToCell
  <2> QED BY <2>1, <2>2
<1>4. KnownToCell(e)'
  BY <1>3 DEF KnownToCell, CarriedInOrder
<1>5. (DestroyIsRecorded(e) /\ GenerationsOrdered(e))'
  BY DEF JoinedWith, DestroyIsRecorded, DestroyedAt, GenerationsOrdered
<1> QED BY <1>2, <1>3, <1>4, <1>5 DEF JoinedWith

\* A terminal answer stays what is on record.
LEMMA AnswersKept ==
  ASSUME CallbackInv, AnswersTrue, [CallbackNext]_callbackVars
  PROVE  AnswersTrue'
<1> SUFFICES ASSUME NEW h \in Handler, pc'[h] = "done", reply'[h] \in TerminalStatus
             PROVE  status'[JobOp(h)'] = reply'[h]
  BY DEF AnswersTrue
<1>1. /\ pc \in [Handler -> Step] /\ job \in [Handler -> Command \cup {None}]
      /\ reply \in [Handler -> OpenStatus \cup TerminalStatus \cup {"error", None}]
  BY DEF CallbackInv, CallbackTypeOK
<1>2. "error" \notin TerminalStatus
  BY DEF TerminalStatus
<1>3. \/ /\ pc[h] = "done" /\ job'[h] = job[h] /\ reply'[h] = reply[h]
      \/ /\ pc[h] \in {"read", "answer"} /\ job'[h] = job[h] /\ reply'[h] = status[JobOp(h)]
         /\ status' = status
  <2>1. CASE UNCHANGED callbackVars \/ \E m \in MgmtOp : ProvisionEnds(m) \/ Expire(m)
    BY <2>1 DEF callbackVars, handlerVars, ProvisionEnds, Expire
  <2>2. ~Restart
    BY DEF Restart
  <2>3. ASSUME NEW k \in Handler,
               \E c \in Command, g \in {d.generation : d \in Command} : Receive(k, c, g)
        PROVE  pc[h] = "done" /\ job'[h] = job[h] /\ reply'[h] = reply[h]
    BY <1>1, <1>2, <2>3 DEF Receive, GoTo, Respond
  <2>4. ASSUME NEW k \in Handler,
               \/ Claim(k) \/ Begin(k) \/ Reread(k) \/ Dispatch(k) \/ Bind(k) \/ Finish(k)
               \/ Resume(k) \/ Settle(k) \/ GiveUp(k) \/ GateFailure(k) \/ Disconnect(k) \/ Close(k)
        PROVE  pc[h] = "done" /\ job'[h] = job[h] /\ reply'[h] = reply[h]
    BY <1>1, <1>2, <2>4 DEF Claim, Begin, Reread, Dispatch, Bind, Finish, Resume, Settle, GiveUp,
       CompleteOrConflict, GateFailure, Disconnect, Close, Forget, GoTo, Respond
  <2>5. ASSUME NEW k \in Handler, ReadRecord(k) \/ Answer(k)
        PROVE  \/ /\ pc[h] = "done" /\ job'[h] = job[h] /\ reply'[h] = reply[h]
               \/ /\ pc[h] \in {"read", "answer"} /\ job'[h] = job[h] /\ reply'[h] = status[JobOp(h)]
                  /\ status' = status
    BY <1>1, <2>5 DEF ReadRecord, Answer, GoTo, Respond, ledgerVars
  <2> QED BY <2>1, <2>2, <2>3, <2>4, <2>5, CallbackCases
<1>4. JobOp(h)' = JobOp(h) /\ JobOp(h) \in Op
  BY <1>3, JobFields DEF JobOp
<1>5. CASE pc[h] = "done" /\ job'[h] = job[h] /\ reply'[h] = reply[h]
  BY <1>4, <1>5, RowKept DEF AnswersTrue
<1> QED BY <1>3, <1>4, <1>5

\* Between claim and dispatch the generation stays: the operation that would
\* move it was carried only after everything before it was settled.
LEMMA ClaimKept ==
  ASSUME ComposedInv, [CallbackNext]_callbackVars
  PROVE  ClaimIsCurrent'
<1> SUFFICES ASSUME NEW h \in Handler, pc'[h] \in {"read", "begin", "dispatch"},
                    job'[h].action # "observe", status'[JobOp(h)'] \notin TerminalStatus
             PROVE  job'[h].generation = instGen'[job'[h].instance]
  BY DEF ClaimIsCurrent
<1>0. CallbackInv /\ LedgerInv /\ pc \in [Handler -> Step] /\ job \in [Handler -> Command \cup {None}]
  BY DEF ComposedInv, CallbackInv, CallbackTypeOK
<1>1. \/ Claim(h) /\ pc'[h] = "read"
      \/ pc[h] \in {"read", "begin", "dispatch"} /\ job'[h] = job[h]
  <2>1. CASE UNCHANGED callbackVars \/ \E m \in MgmtOp : ProvisionEnds(m) \/ Expire(m)
    BY <2>1 DEF callbackVars, handlerVars, ProvisionEnds, Expire
  <2>2. ~Restart
    BY DEF Restart
  <2>3. ASSUME NEW k \in Handler,
               \/ \E c \in Command, g \in {d.generation : d \in Command} : Receive(k, c, g)
               \/ Dispatch(k) \/ Bind(k) \/ Finish(k) \/ Reread(k)
               \/ Resume(k) \/ Settle(k) \/ GiveUp(k) \/ Answer(k) \/ GateFailure(k) \/ Disconnect(k) \/ Close(k)
        PROVE  pc[h] \in {"read", "begin", "dispatch"} /\ job'[h] = job[h]
    BY <1>0, <2>3 DEF Receive, Dispatch, Bind, Finish, Reread, Resume, Settle, GiveUp, Answer,
       CompleteOrConflict, GateFailure, Disconnect, Close, Forget, GoTo, Respond
  <2>4. ASSUME NEW k \in Handler, Claim(k) \/ ReadRecord(k) \/ Begin(k)
        PROVE  \/ Claim(h) /\ pc'[h] = "read"
               \/ pc[h] \in {"read", "begin", "dispatch"} /\ job'[h] = job[h]
    BY <1>0, <2>4 DEF Claim, ReadRecord, Begin, GoTo, Respond
  <2> QED BY <2>1, <2>2, <2>3, <2>4, CallbackCases
<1>2. CASE Claim(h) /\ pc'[h] = "read"
  <2>1. job[h] \in Command /\ job' = job
    BY <1>0, <1>2, JobFields DEF Claim
  <2>2. ClaimManaged(job[h])
    BY <1>0, <1>2 DEF Claim, Respond, GoTo
  <2> QED BY <1>0, <2>1, <2>2, ClaimDoes
<1>3. CASE pc[h] \in {"read", "begin", "dispatch"} /\ job'[h] = job[h]
  <2>1. /\ job[h] \in Command /\ JobOp(h) \in Op /\ JobOp(h)' = JobOp(h) /\ job[h] # None
        /\ request[JobOp(h)] = job[h]
    BY <1>0, <1>3, JobFields, NoCommandAssumption DEF CallbackInv, HandlersKnow, Knows, JobOp
  <2>2. status[JobOp(h)] \notin TerminalStatus
    BY <1>0, <2>1, RowKept
  <2>3. job[h].generation = instGen[job[h].instance]
    BY <1>3, <2>2 DEF ComposedInv, ProtocolInv, ClaimIsCurrent
  <2>4. CASE instGen' = instGen
    BY <1>3, <2>3, <2>4
  <2>5. CASE instGen' # instGen
    <3>1. PICK k \in Handler : /\ pc[k] = "claim" /\ ClaimManaged(job[k]) /\ job[k] \in Command
      BY <1>0, <2>5, ClaimedBy
    <3>2. /\ instGen'[job[k].instance] = job[k].generation
          /\ instGen[job[k].instance] \notin {0, job[k].generation} =>
               job[k].generation = instGen[job[k].instance] + 1
      BY <1>0, <3>1, ClaimDoes
    <3>3. job[k].instance = job[h].instance
      BY <2>1, <3>1, ProtocolAssumption
    <3>4. instGen[job[h].instance] # 0 /\ job[h].generation \in Nat /\ job[k].generation \in Nat
      BY <2>1, <2>3, <3>1, CommandFields
    <3>5. CASE job[k].generation = job[h].generation
      BY <1>3, <3>2, <3>3, <3>5
    <3>6. CASE job[k].generation = job[h].generation + 1
      <4>1. cell # None /\ cell \in Cell /\ JoinedWith(cell)
        BY <1>3 DEF ComposedInv, ProtocolInv, CellInv, CellTypeOK
      <4>2. PICK i \in DOMAIN cell.effects : cell.effects[i].cmd = job[h]
        BY <1>3, <4>1 DEF JoinedWith, KnownToCell, CarriedInOrder
      <4>3. PICK j \in DOMAIN cell.effects :
              /\ cell.effects[j].cmd = job[k]
              /\ \A x \in DOMAIN cell.effects : x < j => cell.effects[x].status \in TerminalStatus
        BY <3>1, <4>1 DEF JoinedWith, KnownToCell, CarriedInOrder
      <4>4. i # j
        BY <3>4, <3>6, <4>2, <4>3
      <4>5. ~(i < j)
        <5>1. cell.effects[i].status \in TerminalStatus =>
                cell.effects[i].status = status[cell.effects[i].cmd.op]
          BY <4>1 DEF JoinedWith, AgreesWithLedger
        <5> QED BY <2>2, <4>2, <4>3, <5>1 DEF JobOp
      <4>6. ~(j < i)
        <5>1. j < i => job[k].generation <= job[h].generation
          BY <4>1, <4>2, <4>3 DEF JoinedWith, GenerationsOrdered
        <5> QED BY <3>4, <3>6, <5>1
      <4>7. i \in Nat /\ j \in Nat
        BY <4>1, CellFields
      <4> QED BY <4>4, <4>5, <4>6, <4>7
    <3> QED BY <2>3, <3>2, <3>3, <3>4, <3>5, <3>6
  <2> QED BY <2>4, <2>5
<1> QED BY <1>1, <1>2, <1>3

\* A destroyed instance stays quiet: follows from the rest.
LEMMA QuietFollows ==
  ASSUME CellInv, CallbackInv, cell # None, JoinedWith(cell)
  PROVE  DestroyedStaysQuiet
<1> SUFFICES ASSUME cell.desired = "destroyed", NEW h \in Handler, pc[h] = "dispatch",
                    job[h].generation = cell.generation, job[h].action # "observe"
             PROVE  \E j, k \in DOMAIN cell.effects :
                      j < k /\ DestroyedAt(cell, j) /\ cell.effects[k].cmd = job[h]
  BY DEF DestroyedStaysQuiet
<1>1. cell \in Cell /\ EffectsSound(cell)
  BY DEF CellInv, CellTypeOK
<1>2. /\ Len(cell.effects) \in Nat /\ DOMAIN cell.effects = 1..Len(cell.effects)
      /\ \A k \in DOMAIN cell.effects : cell.effects[k].status \in OpenStatus \cup TerminalStatus
  BY <1>1, CellFields
<1>3. PICK j \in DOMAIN cell.effects : DestroyedAt(cell, j)
  BY DEF JoinedWith, DestroyIsRecorded
<1>4. PICK k \in DOMAIN cell.effects : cell.effects[k].cmd = job[h]
  BY DEF JoinedWith, KnownToCell, CarriedInOrder
<1>5. status[JobOp(h)] \in {"dispatched", "unknown"}
  BY DEF CallbackInv, UndecidedBeforeDispatch, Undispatched
<1>6. cell.effects[k].status \in OpenStatus
  BY <1>2, <1>4, <1>5 DEF JoinedWith, AgreesWithLedger, TerminalStatus, JobOp
<1>7. ~(k < j) /\ k # j
  BY <1>1, <1>3, <1>6 DEF EffectsSound, OldestFirst, DestroyedAt, OpenStatus
<1>8. j < k
  BY <1>2, <1>3, <1>4, <1>7
<1> QED BY <1>3, <1>4, <1>8

-----------------------------------------------------------------------------
(* The steps of the composition.                                           *)

\* A cell that is joined stays so when nothing is recorded and no handler
\* starts to serve.
LEMMA StaysJoined ==
  ASSUME NEW e \in Cell, JoinedWith(e), UNCHANGED ledgerVars,
         \A h \in Handler : pc'[h] # "idle" => pc[h] # "idle" /\ job'[h] = job[h]
  PROVE  JoinedWith(e)'
<1>1. status' = status /\ request' = request /\ instGen' = instGen
  BY DEF ledgerVars
<1>2. (AgreesWithLedger(e) /\ GenerationsInStep(e))'
  BY <1>1 DEF JoinedWith, AgreesWithLedger, GenerationsInStep
<1>3. KnownToCell(e)'
  BY <1>1 DEF JoinedWith, KnownToCell, CarriedInOrder
<1>4. (DestroyIsRecorded(e) /\ GenerationsOrdered(e))'
  BY DEF JoinedWith, DestroyIsRecorded, DestroyedAt, GenerationsOrdered
<1> QED BY <1>2, <1>3, <1>4 DEF JoinedWith

\* JoinedWith of the state after a step, for the stored cell: e is its value,
\* and only management's variables are primed in the hypothesis.
LEMMA StoredIsJoined ==
  ASSUME NEW e, JoinedWith(e)', cell' = e
  PROVE  JoinedWith(cell)'
BY DEF JoinedWith, AgreesWithLedger, GenerationsInStep, DestroyIsRecorded, DestroyedAt,
       GenerationsOrdered, KnownToCell, CarriedInOrder

\* The same for the copy of the running alarm() call.
LEMMA CopyIsJoined ==
  ASSUME NEW e, JoinedWith(e)', run'.copy = e
  PROVE  JoinedWith(run.copy)'
BY DEF JoinedWith, AgreesWithLedger, GenerationsInStep, DestroyIsRecorded, DestroyedAt,
       GenerationsOrdered, KnownToCell, CarriedInOrder

\* No step of management gives a handler that is serving another command.
LEMMA JobsKept ==
  ASSUME CallbackInv, NEW h \in Handler, pc'[h] # "idle",
         \/ UNCHANGED callbackVars
         \/ \E k \in Handler : HandlerStep(k) \/ GateFailure(k) \/ Disconnect(k) \/ Close(k)
         \/ \E m \in MgmtOp : ProvisionEnds(m) \/ Expire(m)
         \/ Restart
  PROVE  pc[h] # "idle" /\ job'[h] = job[h]
<1>1. pc \in [Handler -> Step] /\ job \in [Handler -> Command \cup {None}]
  BY DEF CallbackInv, CallbackTypeOK
<1>2. CASE UNCHANGED callbackVars \/ \E m \in MgmtOp : ProvisionEnds(m) \/ Expire(m)
  BY <1>2 DEF callbackVars, handlerVars, ProvisionEnds, Expire
<1>3. ~Restart
  BY DEF Restart
<1>4. ASSUME NEW k \in Handler, GateFailure(k) \/ Disconnect(k) \/ Close(k)
      PROVE  pc[h] # "idle" /\ job'[h] = job[h]
  BY <1>1, <1>4 DEF GateFailure, Disconnect, Close, Forget, GoTo, Respond
<1>5. ASSUME NEW k \in Handler, HandlerStep(k)
      PROVE  pc[h] # "idle" /\ job'[h] = job[h]
  BY <1>1, <1>5 DEF HandlerStep, Claim, ReadRecord, Begin, Reread, Dispatch, Bind, Finish, Resume, Settle,
     GiveUp, Answer, CompleteOrConflict, GoTo, Respond
<1> QED BY <1>2, <1>3, <1>4, <1>5

\* What alarm() carries was the first open effect, in its copy and in what
\* is stored.
LEMMA CarriedIsFirst ==
  ASSUME CellInv, run # None
  PROVE  CarriedInOrder(cell, Carried) /\ CarriedInOrder(run.copy, Carried)
<1>1. /\ cell \in Cell /\ run.copy \in Cell /\ run.at \in DOMAIN run.copy.effects /\ CopyIsBehind
  BY DEF CellInv, CellTypeOK, CellRun
<1>2. /\ Len(run.copy.effects) \in Nat /\ DOMAIN run.copy.effects = 1..Len(run.copy.effects)
      /\ Len(cell.effects) \in Nat /\ DOMAIN cell.effects = 1..Len(cell.effects)
      /\ \A k \in DOMAIN run.copy.effects :
           run.copy.effects[k].status \in OpenStatus \cup TerminalStatus
  BY <1>1, CellFields
<1>3. \A j \in DOMAIN run.copy.effects : j < run.at => run.copy.effects[j].status \in TerminalStatus
  BY <1>1, <1>2 DEF CopyIsBehind, OpenEffects
<1>4. /\ \A k \in DOMAIN run.copy.effects : k \in DOMAIN cell.effects /\ cell.effects[k] = run.copy.effects[k]
      /\ \A j \in DOMAIN cell.effects : j < run.at => j \in DOMAIN run.copy.effects
  BY <1>1, <1>2 DEF CopyIsBehind
<1> QED BY <1>1, <1>3, <1>4 DEF CarriedInOrder, Carried

\* A step of management alone.
LEMMA ManagementKeepsJoined ==
  ASSUME ComposedInv, [CallbackNext]_callbackVars, UNCHANGED <<cell, run>>,
         \A h \in Handler : pc'[h] # "idle" =>
           \/ pc[h] # "idle" /\ job'[h] = job[h]
           \/ run # None /\ job'[h] = Carried
  PROVE  /\ cell' # None => JoinedWith(cell)'
         /\ run' # None => JoinedWith(run.copy)'
<1>0. CallbackInv /\ CellInv
  BY DEF ComposedInv
<1>1. ASSUME cell # None
      PROVE  JoinedWith(cell)'
  <2>1. cell \in Cell /\ JoinedWith(cell)
    BY <1>1 DEF ComposedInv, ProtocolInv, CellInv, CellTypeOK
  <2>2. \A h \in Handler : pc'[h] # "idle" => CarriedInOrder(cell, job'[h])
    BY <1>0, <2>1, CarriedIsFirst DEF JoinedWith, KnownToCell
  <2>3. PICK e \in Cell : e = cell
    BY <2>1
  <2>4. JoinedWith(e) /\ \A h \in Handler : pc'[h] # "idle" => CarriedInOrder(e, job'[h])
    BY <2>1, <2>2, <2>3
  <2>5. JoinedWith(e)'
    BY <1>0, <2>4, ManagementJoins
  <2> QED BY <2>3, <2>5, StoredIsJoined
<1>2. ASSUME run # None
      PROVE  JoinedWith(run.copy)'
  <2>1. run.copy \in Cell /\ JoinedWith(run.copy)
    BY <1>2 DEF ComposedInv, ProtocolInv, CellInv, CellTypeOK, CellRun
  <2>2. \A h \in Handler : pc'[h] # "idle" => CarriedInOrder(run.copy, job'[h])
    BY <1>0, <1>2, <2>1, CarriedIsFirst DEF JoinedWith, KnownToCell
  <2>3. PICK e \in Cell : e = run.copy
    BY <2>1
  <2>4. JoinedWith(e) /\ \A h \in Handler : pc'[h] # "idle" => CarriedInOrder(e, job'[h])
    BY <2>1, <2>2, <2>3
  <2>5. JoinedWith(e)'
    BY <1>0, <2>4, ManagementJoins
  <2> QED BY <2>3, <2>5, CopyIsJoined
<1> QED BY <1>1, <1>2

\* The first command of an instance meets an empty ledger.
LEMMA FirstCommandJoins ==
  ASSUME ComposedInv, cell = None, NEW f \in Cell, NEW c \in Command,
         Len(f.effects) = 1, f.effects[1] = [cmd |-> c, status |-> "pending"],
         f.generation = c.generation, f.desired # "destroyed"
  PROVE  JoinedWith(f)
<1>1. DOMAIN f.effects = {1} /\ f.effects[1].cmd = c /\ f.effects[1].status = "pending"
  BY CellFields
<1>2. c.generation \in Nat /\ "pending" \notin TerminalStatus
  BY CommandFields DEF TerminalStatus
<1>3. /\ \A o \in Op : request[o] = None
      /\ \A d \in Command : instGen[d.instance] = 0
      /\ \A h \in Handler : pc[h] = "idle"
  BY DEF ComposedInv, ProtocolInv
<1>4. AgreesWithLedger(f) /\ DestroyIsRecorded(f) /\ KnownToCell(f)
  BY <1>1, <1>2, <1>3 DEF AgreesWithLedger, DestroyIsRecorded, KnownToCell
<1>5. GenerationsInStep(f) /\ GenerationsOrdered(f)
  BY <1>1, <1>2, <1>3 DEF GenerationsInStep, GenerationsOrdered
<1> QED BY <1>4, <1>5 DEF JoinedWith

\* What command() stores, whole.
LEMMA AcceptedCell ==
  ASSUME CellInv, NEW c \in Command, NEW seen \in BOOLEAN, Accept(c, seen)
  PROVE  /\ cell' \in Cell /\ cell'.generation = c.generation
         /\ cell'.desired = NextDesired(Target(c).desired, c.action)
         /\ cell # None /\ c.generation = cell.generation => Target(c) = cell
         /\ cell # None /\ c.generation # cell.generation =>
              /\ c.generation = cell.generation + 1 /\ cell.desired = "destroyed"
              /\ c.action = "provision" /\ Target(c).desired = "requested"
         /\ cell # None => Target(c).effects = cell.effects
         /\ cell = None => Target(c).effects = << >> /\ Target(c).desired = "requested"
<1>1. Target(c) \in Cell /\ cell' \in Cell
  BY AcceptStores, TargetIsSound
<1>2. cell \in Cell \cup {None} /\ FreshCell(c.generation) \in Cell
  BY CommandFields DEF CellInv, CellTypeOK, FreshCell, Cell, Desired
<1>3. /\ cell = None => Target(c) = FreshCell(c.generation)
      /\ cell # None /\ c.generation = cell.generation => Target(c) = cell
      /\ cell # None /\ c.generation # cell.generation =>
           Target(c) = [FreshCell(c.generation) EXCEPT !.effects = cell.effects]
  BY DEF Target
<1>4. /\ cell # None /\ c.generation # cell.generation =>
           /\ Target(c).effects = cell.effects /\ Target(c).desired = "requested"
           /\ Target(c).generation = c.generation
      /\ cell = None => /\ Target(c).effects = << >> /\ Target(c).desired = "requested"
                        /\ Target(c).generation = c.generation
  BY <1>3 DEF FreshCell
<1>5. cell # None /\ c.generation # cell.generation => AdvancesDestroyed(c)
  BY DEF Accept, Fenced
<1>6. cell' = [Target(c) EXCEPT !.effects = Append(@, [cmd |-> c, status |-> "pending"]),
                                !.desired = NextDesired(@, c.action)]
  BY DEF Accept
<1>7. cell'.generation = Target(c).generation /\ cell'.desired = NextDesired(Target(c).desired, c.action)
  BY <1>1, <1>6 DEF Cell
<1> QED BY <1>1, <1>3, <1>4, <1>5, <1>7 DEF AdvancesDestroyed

\* command() keeps worker and management joined.
LEMMA AcceptJoins ==
  ASSUME ComposedInv, NEW c \in Command, NEW seen \in BOOLEAN, Accept(c, seen),
         UNCHANGED callbackVars
  PROVE  JoinedWith(cell)'
<1>0. CellInv /\ LedgerInv
  BY DEF ComposedInv, CallbackInv
<1>1. /\ cell' \in Cell /\ cell'.generation = c.generation
      /\ cell'.desired = NextDesired(Target(c).desired, c.action)
      /\ Len(cell'.effects) = Len(Target(c).effects) + 1
      /\ cell'.effects[Len(cell'.effects)] = [cmd |-> c, status |-> "pending"]
      /\ \A k \in DOMAIN Target(c).effects :
              k \in DOMAIN cell'.effects /\ cell'.effects[k] = Target(c).effects[k]
      /\ Permitted(Target(c).desired, c.action)
  BY <1>0, AcceptedCell, AcceptStores DEF Accept
<1>2. PICK f \in Cell : f = cell'
  BY <1>1
<1>3. JoinedWith(f)
  <2>1. CASE cell = None
    <3>1. Target(c).effects = << >> /\ Target(c).desired = "requested"
      BY <1>0, <2>1, AcceptedCell
    <3>2. Len(f.effects) = 1 /\ f.effects[1] = [cmd |-> c, status |-> "pending"]
      BY <1>1, <1>2, <3>1
    <3>3. f.desired # "destroyed"
      BY <1>1, <1>2, <3>1, CommandFields DEF NextDesired, Action
    <3> QED BY <1>1, <1>2, <2>1, <3>2, <3>3, FirstCommandJoins
  <2>2. CASE cell # None
    <3>1. cell \in Cell /\ JoinedWith(cell) /\ OneEntryPerOperation(cell)
      BY <1>0, <2>2 DEF ComposedInv, ProtocolInv, CellInv, CellTypeOK, EffectsSound
    <3>2. Target(c).effects = cell.effects
      BY <1>0, <2>2, AcceptedCell
    <3>4. PICK e \in Cell : e = cell
      BY <3>1
    <3>5. \/ /\ c.generation = e.generation
             /\ f.desired = NextDesired(e.desired, c.action) /\ Permitted(e.desired, c.action)
          \/ /\ c.generation = e.generation + 1 /\ e.desired = "destroyed" /\ f.desired # "destroyed"
      <4>1. CASE c.generation = cell.generation
        <5>1. Target(c) = cell
          BY <1>0, <2>2, <4>1, AcceptedCell
        <5> QED BY <1>1, <1>2, <3>4, <4>1, <5>1
      <4>2. CASE c.generation # cell.generation
        <5>1. /\ c.generation = cell.generation + 1 /\ cell.desired = "destroyed"
              /\ c.action = "provision"
          BY <1>0, <2>2, <4>2, AcceptedCell
        <5>2. f.desired # "destroyed"
          BY <1>1, <1>2, <5>1 DEF NextDesired
        <5> QED BY <3>4, <5>1, <5>2
      <4> QED BY <4>1, <4>2
    <3>6. /\ JoinedWith(e) /\ OneEntryPerOperation(e)
          /\ Len(f.effects) = Len(e.effects) + 1
          /\ \A k \in DOMAIN e.effects : k \in DOMAIN f.effects /\ f.effects[k] = e.effects[k]
          /\ f.effects[Len(f.effects)] = [cmd |-> c, status |-> "pending"]
          /\ f.generation = c.generation
      BY <1>1, <1>2, <3>1, <3>2, <3>4
    <3> QED BY <1>0, <3>5, <3>6, RecordingJoins
  <2> QED BY <2>1, <2>2
<1>4. JoinedWith(f)'
  BY <1>3, StaysJoined DEF callbackVars, handlerVars
<1> QED BY <1>2, <1>4, StoredIsJoined

\* alarm() ends with a true outcome.
LEMMA AlarmEndsJoins ==
  ASSUME ComposedInv, NEW s \in CallbackOutcome, AlarmEnds(s),
         s \in TerminalStatus => status[Carried.op] = s /\ Carried.generation = run.copy.generation,
         UNCHANGED ledgerVars,
         \A h \in Handler : pc'[h] # "idle" => pc[h] # "idle" /\ job'[h] = job[h]
  PROVE  JoinedWith(cell)'
<1>1. run # None /\ cell' = Concluded(s)
  BY DEF AlarmEnds
<1>2. Concluded(s) \in Cell /\ JoinedWith(Concluded(s))
  BY <1>1, ConcludingJoins, ConcludedFields DEF ComposedInv
<1>3. PICK e \in Cell : e = Concluded(s)
  BY <1>2
<1>4. JoinedWith(e)'
  BY <1>2, <1>3, StaysJoined
<1> QED BY <1>1, <1>3, <1>4, StoredIsJoined

\* What is left alone while management does nothing stays joined.
LEMMA IdleKeepsJoined ==
  ASSUME ComposedInv, UNCHANGED callbackVars
  PROVE  /\ cell # None /\ cell' = cell => JoinedWith(cell)'
         /\ run # None /\ run' = run => JoinedWith(run.copy)'
         /\ cell # None /\ run'.copy = cell => JoinedWith(run.copy)'
<1>1. /\ cell # None => cell \in Cell /\ JoinedWith(cell)
      /\ run # None => run.copy \in Cell /\ JoinedWith(run.copy)
  BY DEF ComposedInv, ProtocolInv, CellInv, CellTypeOK, CellRun
<1>2. UNCHANGED ledgerVars /\ pc' = pc /\ job' = job
  BY DEF callbackVars, handlerVars
<1>3. ASSUME NEW e \in Cell, JoinedWith(e)
      PROVE  JoinedWith(e)'
  BY <1>2, <1>3, StaysJoined
<1>4. ASSUME cell # None, cell' = cell \/ run'.copy = cell
      PROVE  (cell' = cell => JoinedWith(cell)') /\ (run'.copy = cell => JoinedWith(run.copy)')
  <2>1. PICK e \in Cell : e = cell
    BY <1>1, <1>4
  <2>2. JoinedWith(e)'
    BY <1>1, <1>3, <1>4, <2>1
  <2> QED BY <2>1, <2>2, StoredIsJoined, CopyIsJoined
<1>5. ASSUME run # None, run' = run
      PROVE  JoinedWith(run.copy)'
  <2>1. PICK e \in Cell : e = run.copy
    BY <1>1, <1>5
  <2>2. JoinedWith(e)'
    BY <1>1, <1>3, <1>5, <2>1
  <2>3. run'.copy = e
    BY <1>5, <2>1
  <2> QED BY <2>2, <2>3, CopyIsJoined
<1> QED BY <1>4, <1>5

\* The answer the cell takes for an outcome is on record.
LEMMA AnswerIsOutcome ==
  ASSUME ComposedInv, NEW h \in Handler, ReplyArrives(h), OutcomeOf(reply[h]) \in TerminalStatus
  PROVE  status[Carried.op] = OutcomeOf(reply[h]) /\ Carried.generation = run.copy.generation
<1>1. link = h /\ pc[h] = "done"
  BY DEF ReplyArrives, Close
<1>2. reply[h] \in TerminalStatus /\ OutcomeOf(reply[h]) = reply[h] /\ reply[h] # "error"
  BY DEF OutcomeOf, CallbackOutcome, TerminalStatus
<1>3. job[h] = Carried /\ Carried.generation = run.copy.generation
  BY <1>1, <1>2 DEF ComposedInv, ProtocolInv, LinkServes
<1>4. status[JobOp(h)] = reply[h]
  BY <1>1, <1>2 DEF ComposedInv, ProtocolInv, AnswersTrue
<1> QED BY <1>2, <1>3, <1>4 DEF JobOp

\* After every step both the stored cell and the copy agree with management;
\* one case per step of the worker, of management and of the exchange.
LEMMA JoinedStep ==
  ASSUME ComposedInv, [ProtocolNext]_protocolVars
  PROVE  /\ cell' # None => JoinedWith(cell)'
         /\ run' # None => JoinedWith(run.copy)'
<1>0. CellInv /\ CallbackInv /\ [CallbackNext]_callbackVars
  BY ManagementSteps DEF ComposedInv
<1>1. ASSUME UNCHANGED callbackVars, cell' = cell, run' \in {run, None}
      PROVE  /\ cell' # None => JoinedWith(cell)'
             /\ run' # None => JoinedWith(run.copy)'
  BY <1>1, IdleKeepsJoined
<1>2. ASSUME NEW c \in Command, Issued(c) \/ AckLost(c)
      PROVE  /\ cell' # None => JoinedWith(cell)'
             /\ run' # None => JoinedWith(run.copy)'
  <2>1. PICK seen \in BOOLEAN : Accept(c, seen) /\ UNCHANGED callbackVars
    BY <1>2 DEF Issued, AckLost
  <2>2. run' = run
    BY <2>1 DEF Accept
  <2> QED BY <2>1, <2>2, AcceptJoins, IdleKeepsJoined
<1>3. CASE Send
  <2>1. cell' = cell /\ UNCHANGED callbackVars /\ cell # None
    BY <1>0, <1>3 DEF Send, AlarmFires, CellInv
  <2>2. run' # None => run'.copy = cell
    BY <1>3 DEF Send, AlarmFires
  <2> QED BY <2>1, <2>2, IdleKeepsJoined
<1>4. CASE ExchangeFails
  <2>1. AlarmEnds("unknown") /\ UNCHANGED callbackVars
    BY <1>4 DEF ExchangeFails
  <2>2. UNCHANGED ledgerVars /\ pc' = pc /\ job' = job /\ run' = None
    BY <2>1 DEF callbackVars, handlerVars, AlarmEnds
  <2>3. "unknown" \in CallbackOutcome /\ "unknown" \notin TerminalStatus
    BY DEF CallbackOutcome, TerminalStatus
  <2>4. JoinedWith(cell)'
    BY <2>1, <2>2, <2>3, AlarmEndsJoins
  <2> QED BY <2>2, <2>4
<1>5. ASSUME NEW h \in Handler, ReplyArrives(h)
      PROVE  /\ cell' # None => JoinedWith(cell)'
             /\ run' # None => JoinedWith(run.copy)'
  <2>1. AlarmEnds(OutcomeOf(reply[h])) /\ Close(h)
    BY <1>5 DEF ReplyArrives
  <2>2. UNCHANGED ledgerVars /\ run' = None
    BY <2>1 DEF Close, AlarmEnds
  <2>3. \A k \in Handler : pc'[k] # "idle" => pc[k] # "idle" /\ job'[k] = job[k]
    BY <1>0, <2>1, JobsKept
  <2>4. JoinedWith(cell)'
    BY <1>5, <2>1, <2>2, <2>3, AnswerIsOutcome, AlarmEndsJoins, OutcomeIsOne
  <2> QED BY <2>2, <2>4
<1>6. ASSUME UNCHANGED <<cell, run>>,
             \/ \E k \in Handler : HandlerStep(k) \/ GateFailure(k) \/ Disconnect(k) \/ Close(k)
             \/ \E m \in MgmtOp : ProvisionEnds(m) \/ Expire(m)
             \/ Restart
      PROVE  /\ cell' # None => JoinedWith(cell)'
             /\ run' # None => JoinedWith(run.copy)'
  <2>1. \A h \in Handler : pc'[h] # "idle" => pc[h] # "idle" /\ job'[h] = job[h]
    BY <1>0, <1>6, JobsKept
  <2> QED BY <1>0, <1>6, <2>1, ManagementKeepsJoined
<1>7. ASSUME NEW h \in Handler, Deliver(h)
      PROVE  /\ cell' # None => JoinedWith(cell)'
             /\ run' # None => JoinedWith(run.copy)'
  <2>1. UNCHANGED <<cell, run>> /\ run # None
    BY <1>7 DEF Deliver, cellVars, ComposedInv, ProtocolInv, ProtocolTypeOK
  <2>2. \A k \in Handler : pc'[k] # "idle" =>
          \/ pc[k] # "idle" /\ job'[k] = job[k]
          \/ run # None /\ job'[k] = Carried
    BY <1>0, <1>7, <2>1 DEF Deliver, Receive, GoTo, Respond, CallbackInv, CallbackTypeOK
  <2> QED BY <1>0, <2>1, <2>2, ManagementKeepsJoined
<1>8. CASE UNCHANGED protocolVars \/ LinkFails \/ CellOwnerLost \/ \E c \in Command : Reissued(c)
  BY <1>1, <1>8 DEF protocolVars, cellVars, LinkFails, CellOwnerLost, OwnerLost, Reissued, Replay
<1>9. CASE \/ ManagementRestart
           \/ \E h \in Handler : Serve(h) \/ ReplyUnread(h) \/ ServerDisconnect(h) \/ GateFails(h)
           \/ \E m \in MgmtOp : WorkerEnds(m) \/ OperationExpires(m)
  BY <1>6, <1>9 DEF cellVars, ManagementRestart, Serve, ReplyUnread, ServerDisconnect, GateFails,
     WorkerEnds, OperationExpires
<1> QED BY <1>2, <1>3, <1>4, <1>5, <1>7, <1>8, <1>9, ProtocolCases

\* Before the first command there is nothing on either side.
LEMMA NothingBeforeFirst ==
  ASSUME ComposedInv, [ProtocolNext]_protocolVars, cell' = None
  PROVE  /\ \A o \in Op : request'[o] = None
         /\ \A c \in Command : instGen'[c.instance] = 0
         /\ \A h \in Handler : pc'[h] = "idle"
<1>0. CellInv /\ CallbackInv /\ [CallbackNext]_callbackVars
  BY ManagementSteps DEF ComposedInv
<1>1. cell = None /\ run = None
  <2>1. ASSUME NEW c \in Command, NEW seen \in BOOLEAN, Accept(c, seen)
        PROVE  FALSE
    BY <1>0, <2>1, AcceptedCell, NoCellAssumption
  <2>2. ASSUME NEW s \in CallbackOutcome, AlarmEnds(s)
        PROVE  FALSE
    BY <1>0, <2>2, ConcludedFields, NoCellAssumption DEF AlarmEnds
  <2>3. cell = None
    BY <2>1, <2>2, WorkerSteps DEF CellNext, cellVars, Replay, AlarmFires, OwnerLost
  <2> QED BY <1>0, <2>3 DEF CellInv
<1>2. /\ \A o \in Op : request[o] = None
      /\ \A c \in Command : instGen[c.instance] = 0
      /\ \A h \in Handler : pc[h] = "idle"
  BY <1>1 DEF ComposedInv, ProtocolInv
<1>3. request' = request /\ instGen' = instGen
  BY <1>0, <1>2, ClaimedBy
<1>4. \A h \in Handler : pc'[h] = "idle"
  <2>1. ASSUME NEW h \in Handler, Deliver(h)
        PROVE  FALSE
    BY <1>1, <2>1 DEF Deliver, ComposedInv, ProtocolInv, ProtocolTypeOK
  <2>2. \/ UNCHANGED callbackVars
        \/ \E k \in Handler : HandlerStep(k) \/ GateFailure(k) \/ Disconnect(k) \/ Close(k)
        \/ \E m \in MgmtOp : ProvisionEnds(m) \/ Expire(m)
        \/ Restart
    BY <2>1, ProtocolCases
    DEF protocolVars, Issued, Reissued, AckLost, Send, ExchangeFails, LinkFails, CellOwnerLost,
        ManagementRestart, Serve, ReplyArrives, ReplyUnread, ServerDisconnect, GateFails,
        WorkerEnds, OperationExpires
  <2> QED BY <1>0, <1>2, <2>2, JobsKept
<1> QED BY <1>2, <1>3, <1>4

\* The exchange and its handler, and the types.
LEMMA LinkStep ==
  ASSUME ComposedInv, [ProtocolNext]_protocolVars
  PROVE  /\ link' \in {"none", "sent", "lost"} \cup Handler
         /\ (link' = "none") = (run' = None)
         /\ faults' \in 0..MaxFaults
         /\ LinkServes'
<1>0. /\ link \in {"none", "sent", "lost"} \cup Handler /\ (link = "none") = (run = None)
      /\ faults \in 0..MaxFaults /\ LinkServes /\ CellInv /\ CallbackInv
      /\ pc \in [Handler -> Step] /\ job \in [Handler -> Command \cup {None}]
      /\ MaxFaults \in Nat /\ \A h \in Handler : h \notin {"none", "sent", "lost"}
      /\ reply \in [Handler -> OpenStatus \cup TerminalStatus \cup {"error", None}]
  BY FaultAssumption, ProtocolAssumption
  DEF ComposedInv, ProtocolInv, ProtocolTypeOK, CallbackInv, CallbackTypeOK
<1>1. \A k : Fault(k) => faults' \in 0..MaxFaults
  BY <1>0 DEF Fault
<1>2. ASSUME run' = run, link' = link,
             link \in Handler => pc'[link] # "idle" /\ job'[link] = job[link],
             link \in Handler /\ pc[link] = "done" => pc'[link] = "done" /\ reply'[link] = reply[link]
      PROVE  LinkServes'
  <2>1. Carried' = Carried
    BY <1>2 DEF Carried
  <2>2. CASE link \in Handler
    <3>1. /\ pc[link] # "idle" /\ job[link] = Carried
          /\ Carried.generation = run.copy.generation \/ (pc[link] = "done" /\ reply[link] = "error")
      BY <1>0, <2>2 DEF LinkServes
    <3>2. pc'[link'] # "idle" /\ job'[link'] = Carried'
      BY <1>2, <2>1, <2>2, <3>1
    <3>3. Carried'.generation = run'.copy.generation \/ (pc'[link'] = "done" /\ reply'[link'] = "error")
      BY <1>2, <2>1, <2>2, <3>1
    <3> QED BY <3>2, <3>3 DEF LinkServes
  <2> QED BY <1>2, <2>2 DEF LinkServes
<1>3. ASSUME link' \notin Handler
      PROVE  LinkServes'
  BY <1>3 DEF LinkServes
<1>4. CASE UNCHANGED protocolVars
  BY <1>0, <1>2, <1>4 DEF protocolVars, cellVars, callbackVars, handlerVars, LinkServes
<1>5. ASSUME NEW c \in Command, Issued(c) \/ Reissued(c) \/ AckLost(c)
      PROVE  link' = link /\ run' = run /\ UNCHANGED handlerVars /\ faults' \in 0..MaxFaults
  BY <1>0, <1>1, <1>5 DEF Issued, Reissued, AckLost, Accept, Replay, callbackVars
<1>6. CASE \E c \in Command : Issued(c) \/ Reissued(c) \/ AckLost(c)
  BY <1>0, <1>2, <1>5, <1>6 DEF handlerVars, LinkServes
<1>7. CASE Send
  BY <1>0, <1>3, <1>7 DEF Send
<1>8. CASE ExchangeFails \/ CellOwnerLost
  BY <1>0, <1>1, <1>3, <1>8 DEF ExchangeFails, CellOwnerLost, AlarmEnds, OwnerLost
<1>9. CASE LinkFails
  BY <1>0, <1>1, <1>3, <1>9 DEF LinkFails, cellVars
<1>10. CASE ManagementRestart
  <2>1. link' \in {"none", "sent", "lost"} /\ run' = run /\ faults' \in 0..MaxFaults
        /\ (link' = "none") = (link = "none")
    BY <1>0, <1>1, <1>10 DEF ManagementRestart, cellVars
  <2> QED BY <1>0, <1>3, <2>1
<1>11. ASSUME NEW h \in Handler, Deliver(h)
       PROVE  /\ link' = h /\ run' = run /\ run # None /\ faults' = faults /\ LinkServes'
  <2>1. link' = h /\ run' = run /\ run # None /\ faults' = faults
    BY <1>0, <1>11 DEF Deliver, cellVars
  <2>2. /\ job'[h] = Carried /\ pc'[h] # "idle"
        /\ run.copy.generation = Carried.generation \/ (pc'[h] = "done" /\ reply'[h] = "error")
    BY <1>0, <1>11 DEF Deliver, Receive, GoTo, Respond
  <2>3. Carried' = Carried
    BY <2>1 DEF Carried
  <2> QED BY <2>1, <2>2, <2>3 DEF LinkServes
<1>12. ASSUME NEW h \in Handler, Serve(h) \/ GateFails(h)
       PROVE  /\ link' = link /\ run' = run /\ faults' \in 0..MaxFaults /\ LinkServes'
  <2>1. link' = link /\ run' = run /\ faults' \in 0..MaxFaults
    BY <1>0, <1>1, <1>12 DEF Serve, GateFails, cellVars
  <2>2. \A k \in Handler : pc[k] # "idle" =>
          pc'[k] # "idle" /\ job'[k] = job[k] /\ (pc[k] = "done" => pc'[k] = "done" /\ reply'[k] = reply[k])
    BY <1>0, <1>12 DEF Serve, GateFails, GateFailure, HandlerStep, Claim, ReadRecord, Begin, Reread,
       Dispatch, Bind, Finish, Resume, Settle, GiveUp, Answer, CompleteOrConflict, GoTo, Respond
  <2> QED BY <1>0, <1>2, <2>1, <2>2 DEF LinkServes
<1>13. ASSUME NEW h \in Handler, ReplyUnread(h) \/ ServerDisconnect(h)
       PROVE  /\ link' = link /\ run' = run /\ faults' \in 0..MaxFaults /\ LinkServes'
  <2>1. link' = link /\ run' = run /\ faults' \in 0..MaxFaults /\ link # h
    BY <1>0, <1>1, <1>13 DEF ReplyUnread, ServerDisconnect, cellVars
  <2>2. \A k \in Handler : k # h => pc'[k] = pc[k] /\ job'[k] = job[k] /\ reply'[k] = reply[k]
    BY <1>0, <1>13 DEF ReplyUnread, ServerDisconnect, Close, Disconnect, Forget, GoTo
  <2> QED BY <1>0, <1>2, <2>1, <2>2 DEF LinkServes
<1>14. ASSUME NEW h \in Handler, ReplyArrives(h)
       PROVE  /\ link' = "none" /\ run' = None /\ faults' = faults
  BY <1>14 DEF ReplyArrives, AlarmEnds
<1>15. ASSUME NEW m \in MgmtOp, WorkerEnds(m) \/ OperationExpires(m)
       PROVE  /\ link' = link /\ run' = run /\ faults' \in 0..MaxFaults /\ LinkServes'
  <2>1. link' = link /\ run' = run /\ faults' \in 0..MaxFaults /\ UNCHANGED handlerVars
    BY <1>0, <1>1, <1>15 DEF WorkerEnds, OperationExpires, cellVars, ProvisionEnds, Expire
  <2> QED BY <1>0, <1>2, <2>1 DEF handlerVars, LinkServes
<1> QED BY <1>0, <1>3, <1>4, <1>6, <1>7, <1>8, <1>9, <1>10, <1>11, <1>12, <1>13, <1>14, <1>15, ProtocolCases

\* A destroyed instance stays quiet in every joined state, before and after
\* a step.
LEMMA QuietHolds ==
  CellInv /\ CallbackInv /\ (cell # None => JoinedWith(cell)) => DestroyedStaysQuiet
BY QuietFollows DEF DestroyedStaysQuiet

\* The same of the state after a step.
LEMMA QuietHoldsNext ==
  CellInv' /\ CallbackInv' /\ (cell # None => JoinedWith(cell))' => DestroyedStaysQuiet'
BY QuietHolds, PTL

\* Every step of the composition preserves the invariant.
LEMMA ComposedStepInv == ComposedInv /\ [ProtocolNext]_protocolVars => ComposedInv'
<1> SUFFICES ASSUME ComposedInv, [ProtocolNext]_protocolVars PROVE ComposedInv'
  OBVIOUS
<1>0. CellInv /\ CallbackInv /\ OutcomesTrue /\ AnswersTrue /\ [CallbackNext]_callbackVars
  BY ManagementSteps DEF ComposedInv, ProtocolInv
<1>1. CellInv'
  <2>1. CASE CellNext
    BY <1>0, <2>1, CellStepInv
  <2>2. CASE UNCHANGED cellVars
    BY <1>0, <2>2, NothingStoredInv DEF cellVars, CellInv, CellTypeOK
  <2> QED BY <2>1, <2>2, WorkerSteps
<1>2. CallbackInv' /\ OutcomesTrue'
  BY <1>0, CallbackStepInv, OutcomesStepInv
<1>3. ProtocolTypeOK' /\ LinkServes'
  BY <1>1, <1>2, LinkStep DEF ProtocolTypeOK, CellInv, CallbackInv
<1>4. /\ cell' # None => JoinedWith(cell)'
      /\ run' # None => JoinedWith(run.copy)'
  BY JoinedStep
<1>5. DestroyedStaysQuiet'
  <2>1. (cell # None => JoinedWith(cell))'
    BY <1>4
  <2> QED BY <1>1, <1>2, <2>1, QuietHoldsNext
<1>6. AnswersTrue' /\ ClaimIsCurrent'
  BY <1>0, AnswersKept, ClaimKept
<1> QED BY <1>1, <1>2, <1>3, <1>4, <1>5, <1>6, NothingBeforeFirst
        DEF ComposedInv, ProtocolInv

\* No cell, no copy, no request and no exchange: the invariant holds at first.
LEMMA ComposedInitInv == ProtocolInit => ComposedInv
<1> SUFFICES ASSUME ProtocolInit PROVE ComposedInv
  OBVIOUS
<1>1. CellInv /\ CallbackInv /\ OutcomesTrue
  BY CellInitInv, CallbackInitInv, OutcomesInitInv DEF ProtocolInit
<1>2. ProtocolTypeOK
  BY <1>1, FaultAssumption DEF ProtocolInit, CellInit, ProtocolTypeOK, CellInv, CallbackInv
<1>3. \A h \in Handler : pc[h] = "idle"
  BY DEF ProtocolInit, CallbackInit, HandlersIdle
<1>4. /\ \A o \in Op : request[o] = None
      /\ \A c \in Command : instGen[c.instance] = 0
  BY CommandFields DEF ProtocolInit, CallbackInit, LedgerInit
<1>5. cell = None /\ run = None /\ link \notin Handler
  BY ProtocolAssumption DEF ProtocolInit, CellInit
<1> QED BY <1>1, <1>2, <1>3, <1>4, <1>5 DEF ComposedInv, ProtocolInv, LinkServes, AnswersTrue, ClaimIsCurrent,
    DestroyedStaysQuiet

-----------------------------------------------------------------------------
(* The theorems.                                                           *)

\* The inductive invariant of the composition: the invariants of the worker
\* and of management, and what joins them (ProtocolInv).
THEOREM ComposedInvariant == ProtocolSpec => []ComposedInv
BY ComposedInitInv, ComposedStepInv, PTL DEF ProtocolSpec

\* Worker and management never contradict each other, for any commands of
\* one instance, any number of handlers, and any number of lost
\* acknowledgements, links, owners, connections and restarts.
THEOREM NeverContradict == ProtocolSpec => []ProtocolInv
<1>1. ComposedInv => ProtocolInv BY DEF ComposedInv
<1> QED BY <1>1, ComposedInvariant, PTL

\* The worker in the composition is the worker of CellSpec: every theorem
\* about it holds here, whatever its management does.
THEOREM WorkerAsSpecified == ProtocolSpec => CellSpec
<1>1. ProtocolInit => CellInit BY DEF ProtocolInit
<1>2. [ProtocolNext]_protocolVars => [CellNext]_cellVars
  BY WorkerSteps
<1> QED BY <1>1, <1>2, PTL DEF ProtocolSpec, CellSpec

\* Management in the composition is the management of CallbackSpec: at most
\* one invocation, true and agreed outcomes and the contract hold here.
THEOREM ManagementAsSpecified == ProtocolSpec => CallbackSpec
<1>1. ProtocolInit => CallbackInit BY DEF ProtocolInit
<1>2. ComposedInv /\ [ProtocolNext]_protocolVars => [CallbackNext]_callbackVars
  BY ManagementSteps
<1> QED BY <1>1, <1>2, ComposedInvariant, PTL DEF ProtocolSpec, CallbackSpec

\* The whole protocol implements the at-most-once contract.
THEOREM ProtocolRefinesAtMostOnce == ProtocolSpec => ImplementsAtMostOnce
BY ManagementAsSpecified, CallbackRefinesAtMostOnce, PTL

\* The provider is only invoked for the generation the instance is at.
THEOREM InvokedForCurrentGeneration == ProtocolSpec => OnlyCurrentGenerationInvoked
<1>1. ComposedInv /\ [ProtocolNext]_protocolVars =>
        [\A c \in Command :
           invoked'[c.op] # invoked[c.op] /\ request[c.op] = c =>
             c.generation = instGen[c.instance]]_protocolVars
  <2> SUFFICES ASSUME ComposedInv, [ProtocolNext]_protocolVars, NEW c \in Command,
                      invoked'[c.op] # invoked[c.op], request[c.op] = c
               PROVE  c.generation = instGen[c.instance]
    OBVIOUS
  <2>0. CallbackInv /\ [CallbackNext]_callbackVars /\ invoked' # invoked
    BY ManagementSteps DEF ComposedInv
  <2>1. PICK h \in Handler :
          /\ Dispatch(h) \/ Disconnect(h)
          /\ job[h].action \in {"provision", "start", "stop", "destroy"}
          /\ Invoke(JobOp(h))
    BY <2>0, CallbackCases DEF callbackVars, providerVars, Receive, Claim, ReadRecord,
       Begin, Reread, Bind, Finish, Resume, Settle, GiveUp, Answer, GateFailure, Close,
       ProvisionEnds, Expire, Restart, Dispatch, Disconnect, Refused, ProvisionStarted,
       RuntimeActed
  <2>2. pc[h] = "dispatch" /\ JobOp(h) \in Op /\ request[JobOp(h)] = job[h]
    BY <2>0, <2>1, RowIsJob DEF Dispatch, Disconnect
  <2>3. c.op = JobOp(h)
    BY <2>0, <2>1, <2>2 DEF Invoke, CallbackInv, CallbackTypeOK
  <2>4. c = job[h] /\ status[JobOp(h)] \notin TerminalStatus
    BY <2>0, <2>1, <2>2, <2>3
    DEF CallbackInv, UndecidedBeforeDispatch, Undispatched, TerminalStatus
  <2> QED BY <2>1, <2>2, <2>4 DEF ComposedInv, ProtocolInv, ClaimIsCurrent
<1> QED BY <1>1, ComposedInvariant, PTL DEF ProtocolSpec, OnlyCurrentGenerationInvoked

-----------------------------------------------------------------------------
(* The contract, as a client of the cell sees it.                          *)

\* What is reported of an operation is its outcome.
ReportsOne == \A o \in Op : \A s \in TerminalStatus : Reports(o, s) => CellOutcome(o) = s

\* An operation has one entry in the cell, so the cell reports one outcome.
LEMMA ReportedOutcome == CellInv => ReportsOne
<1> SUFFICES ASSUME CellInv, NEW o \in Op, NEW s \in TerminalStatus, Reports(o, s)
             PROVE  CellOutcome(o) = s
  BY DEF ReportsOne
<1>1. \A t \in TerminalStatus : Reports(o, t) => t = s
  BY DEF Reports, CellInv, EffectsSound, OneEntryPerOperation
<1>2. (CHOOSE t \in TerminalStatus : Reports(o, t)) = s
  BY <1>1
<1> QED BY <1>2 DEF CellOutcome

\* The same after a step.
LEMMA ReportedOutcomeNext == CellInv' => ReportsOne'
BY ReportedOutcome, PTL

\* Nothing reported, and no outcome.
LEMMA NothingReported ==
  ASSUME NEW o \in Op
  PROVE  /\ (\A s \in TerminalStatus : ~Reports(o, s)) => CellOutcome(o) = "open"
         /\ (\A s \in TerminalStatus : ~Reports(o, s)') => CellOutcome(o)' = "open"
BY DEF CellOutcome

\* What is reported of an operation decides its outcome.
LEMMA SameReports ==
  ASSUME CellInv, CellInv', NEW o \in Op,
         \A s \in TerminalStatus : Reports(o, s)' <=> Reports(o, s)
  PROVE  CellOutcome(o)' = CellOutcome(o)
<1>1. CASE \A s \in TerminalStatus : ~Reports(o, s)
  BY <1>1, NothingReported
<1>2. ASSUME NEW s \in TerminalStatus, Reports(o, s) PROVE CellOutcome(o)' = CellOutcome(o)
  <2>1. CellOutcome(o) = s
    BY <1>2, ReportedOutcome DEF ReportsOne
  <2>2. CellOutcome(o)' = s
    BY <1>2, ReportedOutcomeNext DEF ReportsOne
  <2> QED BY <2>1, <2>2
<1> QED BY <1>1, <1>2

\* A new command reports nothing.
LEMMA AcceptReportsNothing ==
  ASSUME CellInv, NEW c \in Command, NEW seen \in BOOLEAN, Accept(c, seen),
         NEW o \in Op, NEW s \in TerminalStatus
  PROVE  Reports(o, s)' <=> Reports(o, s)
<1>1. /\ cell' \in Cell /\ Len(cell'.effects) = Len(Target(c).effects) + 1
      /\ \A k \in DOMAIN Target(c).effects :
           k \in DOMAIN cell'.effects /\ cell'.effects[k] = Target(c).effects[k]
      /\ cell'.effects[Len(cell'.effects)] = [cmd |-> c, status |-> "pending"]
  BY AcceptStores
<1>2. Target(c) \in Cell
  BY TargetIsSound
<1>3. /\ DOMAIN Target(c).effects = 1..Len(Target(c).effects) /\ Len(Target(c).effects) \in Nat
      /\ DOMAIN cell'.effects = 1..Len(cell'.effects)
  BY <1>1, <1>2, CellFields
<1>4. Target(c).effects = IF cell = None THEN <<>> ELSE cell.effects
  BY DEF Target, FreshCell, CellInv, CellTypeOK, Cell
<1>5. cell' # None
  BY <1>1, NoCellAssumption
<1>6. cell'.effects[Len(cell'.effects)].status # s
  BY <1>1 DEF TerminalStatus
<1>7. \A k \in DOMAIN cell'.effects : k \in DOMAIN Target(c).effects \/ k = Len(cell'.effects)
  BY <1>1, <1>3
<1>8. Reports(o, s)' <=> \E k \in DOMAIN Target(c).effects :
                           Target(c).effects[k].cmd.op = o /\ Target(c).effects[k].status = s
  BY <1>1, <1>5, <1>6, <1>7 DEF Reports
<1> QED BY <1>4, <1>8 DEF Reports

\* alarm() reports an outcome for the operation it carries, which had none, and
\* none of the others' changes.
LEMMA AlarmReports ==
  ASSUME CellInv, NEW s \in CallbackOutcome, AlarmEnds(s), NEW o \in Op, NEW t \in TerminalStatus
  PROVE  /\ Reports(o, t)' <=> Reports(o, t) \/ (o = Carried.op /\ t = s)
         /\ ~Reports(Carried.op, t)
<1>1. /\ run # None /\ cell' = Concluded(s) /\ CopyIsBehind /\ run.copy \in Cell /\ cell \in Cell
      /\ run.at \in DOMAIN run.copy.effects
  BY DEF AlarmEnds, CellInv, CellTypeOK, CellRun
<1>2. /\ cell' \in Cell /\ DOMAIN cell'.effects = DOMAIN run.copy.effects
      /\ \A k \in DOMAIN run.copy.effects :
           /\ cell'.effects[k].cmd = run.copy.effects[k].cmd
           /\ k # run.at => cell'.effects[k] = run.copy.effects[k]
      /\ cell'.effects[run.at].status = s
  BY <1>1, ConcludedFields
<1>3. /\ \A k \in DOMAIN run.copy.effects : k \in DOMAIN cell.effects /\ cell.effects[k] = run.copy.effects[k]
      /\ \A k \in DOMAIN cell.effects : k \in DOMAIN run.copy.effects \/ cell.effects[k].status = "pending"
      /\ cell.effects[run.at].status \in OpenStatus
  BY <1>1, CellFields DEF CopyIsBehind
<1>4. cell # None /\ cell' # None /\ EffectsSound(cell)
  BY <1>1, <1>2, NoCellAssumption DEF CellInv
<1>5. Carried = cell.effects[run.at].cmd /\ Carried = cell'.effects[run.at].cmd
  BY <1>1, <1>2, <1>3 DEF Carried
<1>6. ~Reports(Carried.op, t)
  <2> SUFFICES ASSUME NEW k \in DOMAIN cell.effects, cell.effects[k].cmd.op = Carried.op,
                      cell.effects[k].status = t
               PROVE  FALSE
    BY DEF Reports
  <2>1. k = run.at
    BY <1>1, <1>3, <1>4, <1>5 DEF EffectsSound, OneEntryPerOperation
  <2> QED BY <1>3, <2>1 DEF OpenStatus, TerminalStatus
<1>7. ASSUME Reports(o, t)' PROVE Reports(o, t) \/ (o = Carried.op /\ t = s)
  <2>1. PICK k \in DOMAIN cell'.effects : cell'.effects[k].cmd.op = o /\ cell'.effects[k].status = t
    BY <1>7 DEF Reports
  <2> QED BY <1>2, <1>3, <1>4, <1>5, <2>1 DEF Reports
<1>8. ASSUME Reports(o, t) PROVE Reports(o, t)'
  <2>1. PICK k \in DOMAIN cell.effects : cell.effects[k].cmd.op = o /\ cell.effects[k].status = t
    BY <1>8 DEF Reports
  <2>2. k \in DOMAIN run.copy.effects /\ k # run.at
    BY <1>3, <2>1 DEF OpenStatus, TerminalStatus
  <2> QED BY <1>2, <1>3, <1>4, <2>1, <2>2 DEF Reports
<1>9. ASSUME o = Carried.op, t = s PROVE Reports(o, t)'
  BY <1>1, <1>2, <1>4, <1>5, <1>9 DEF Reports
<1> QED BY <1>6, <1>7, <1>8, <1>9

\* What the worker does to the cell is invisible to the contract, or decides
\* the operation that alarm() carried as the ledger has it.
LEMMA WorkerIsAbstract ==
  ASSUME ComposedInv, CellInv', [ProtocolNext]_protocolVars, cell' # cell
  PROVE  [EndToEnd!AmoNext]_(EndToEnd!amoVars)
<1> DEFINE Out == [o \in Op |-> CellOutcome(o)]
<1>0. CellInv /\ CallbackInv
  BY DEF ComposedInv
<1>1. ASSUME NEW c \in Command, NEW seen \in BOOLEAN, Accept(c, seen)
      PROVE  \A o \in Op : CellOutcome(o)' = CellOutcome(o)
  BY <1>0, <1>1, AcceptReportsNothing, SameReports
<1>2. ASSUME NEW s \in CallbackOutcome, AlarmEnds(s), s \notin TerminalStatus
      PROVE  \A o \in Op : CellOutcome(o)' = CellOutcome(o)
  BY <1>0, <1>2, AlarmReports, SameReports
<1>3. ASSUME NEW s \in TerminalStatus, AlarmEnds(s), status[Carried.op] = s,
             status' = status, invoked' = invoked
      PROVE  EndToEnd!AmoNext
  <2>1. s \in CallbackOutcome
    BY DEF CallbackOutcome
  <2>2. PICK p \in Op : p = Carried.op
    BY <1>0, <1>3, CellFields, CommandFields DEF AlarmEnds, Carried, CellInv, CellTypeOK, CellRun
  <2>3. \A o \in Op, t \in TerminalStatus :
          /\ Reports(o, t)' <=> Reports(o, t) \/ (o = p /\ t = s)
          /\ ~Reports(p, t)
    BY <1>0, <1>3, <2>1, <2>2, AlarmReports
  <2>4. CellOutcome(p) = "open"
    BY <2>3, NothingReported
  <2>5. CellOutcome(p)' = s
    BY <2>3, ReportedOutcomeNext DEF ReportsOne
  <2>6. \A o \in Op : o # p => CellOutcome(o)' = CellOutcome(o)
    BY <1>0, <2>3, SameReports
  <2>7. Out' = [Out EXCEPT ![p] = s] /\ Out[p] = "open"
    BY <2>4, <2>5, <2>6
  <2>8. status[p] # "absent"
    BY <1>3, <2>2 DEF TerminalStatus
  <2>9. EndToEnd!AmoDecide(p, s)
    BY <1>3, <2>7, <2>8 DEF EndToEnd!AmoDecide
  <2> QED BY <2>9 DEF EndToEnd!AmoNext, EndToEnd!Outcome, TerminalStatus
<1>4. ASSUME \A o \in Op : CellOutcome(o)' = CellOutcome(o), status' = status, invoked' = invoked
      PROVE  UNCHANGED EndToEnd!amoVars
  BY <1>4 DEF EndToEnd!amoVars
<1>5. ASSUME NEW c \in Command, Issued(c) \/ AckLost(c)
      PROVE  UNCHANGED EndToEnd!amoVars
  <2>1. (\E seen \in BOOLEAN : Accept(c, seen)) /\ status' = status /\ invoked' = invoked
    BY <1>5 DEF Issued, AckLost, callbackVars, ledgerVars, providerVars
  <2> QED BY <1>1, <1>4, <2>1
<1>6. CASE ExchangeFails
  <2>1. AlarmEnds("unknown") /\ status' = status /\ invoked' = invoked
    BY <1>6 DEF ExchangeFails, callbackVars, ledgerVars, providerVars
  <2>2. "unknown" \in CallbackOutcome /\ "unknown" \notin TerminalStatus
    BY DEF CallbackOutcome, TerminalStatus
  <2> QED BY <1>2, <1>4, <2>1, <2>2
<1>7. ASSUME NEW h \in Handler, ReplyArrives(h)
      PROVE  [EndToEnd!AmoNext]_(EndToEnd!amoVars)
  <2>1. PICK s \in CallbackOutcome : s = OutcomeOf(reply[h])
    BY OutcomeIsOne
  <2>2. AlarmEnds(s) /\ status' = status /\ invoked' = invoked
    BY <1>7, <2>1 DEF ReplyArrives, Close, ledgerVars, providerVars
  <2>3. CASE s \in TerminalStatus
    <3>1. status[Carried.op] = s
      BY <1>7, <2>1, <2>3, AnswerIsOutcome
    <3> QED BY <1>3, <2>2, <2>3, <3>1
  <2>4. CASE s \notin TerminalStatus
    BY <1>2, <1>4, <2>2, <2>4
  <2> QED BY <2>3, <2>4
<1>8. \/ \E c \in Command : Issued(c) \/ AckLost(c)
      \/ ExchangeFails
      \/ \E h \in Handler : ReplyArrives(h)
  BY ProtocolCases
  DEF protocolVars, cellVars, Reissued, Replay, Send, AlarmFires, LinkFails, CellOwnerLost, OwnerLost,
      ManagementRestart, Deliver, Serve, ReplyUnread, ServerDisconnect, GateFails, WorkerEnds,
      OperationExpires
<1> QED BY <1>5, <1>6, <1>7, <1>8

\* Management accepts an operation, invokes the provider for one whose outcome
\* the cell cannot have, or does what the contract does not see.
LEMMA ManagementIsAbstract ==
  ASSUME ComposedInv, [ProtocolNext]_protocolVars, cell' = cell
  PROVE  [EndToEnd!AmoNext]_(EndToEnd!amoVars)
<1> DEFINE Out == [o \in Op |-> CellOutcome(o)]
<1>0. CellInv /\ CallbackInv /\ LedgerInv /\ [CallbackNext]_callbackVars
  BY ManagementSteps DEF ComposedInv, CallbackInv
<1>1. Out' = Out
  BY DEF CellOutcome, Reports
<1>2. CASE invoked' # invoked
  <2>1. PICK o \in Op : Invoke(o) /\ invoked[o] = 0 /\ status[o] \in {"dispatched", "unknown"}
    BY <1>0, <1>2, InvocationIsOwned
  <2>2. status' = status
    BY <1>0, <1>2, InvocationIsOwned DEF ledgerVars
  <2>3. invoked' = [invoked EXCEPT ![o] = 1]
    BY <2>1 DEF Invoke
  <2>4. \A s \in TerminalStatus : ~Reports(o, s)
    BY <2>1 DEF Reports, ComposedInv, ProtocolInv, JoinedWith, AgreesWithLedger, TerminalStatus
  <2>5. Out[o] = "open"
    BY <2>4, NothingReported
  <2> HIDE DEF Out
  <2>6. EndToEnd!AmoInvoke(o)
    BY <1>1, <2>1, <2>2, <2>3, <2>5 DEF EndToEnd!AmoInvoke, Out
  <2> QED BY <2>6 DEF EndToEnd!AmoNext
<1>3. CASE invoked' = invoked
  <2>1. [Amo!AmoNext]_(Amo!amoVars)
    <3>1. CASE LedgerNext
      BY <1>0, <1>3, <3>1, LedgerCallIsAbstract
    <3>2. CASE UNCHANGED ledgerVars
      BY <1>3, <3>2 DEF ledgerVars, Amo!amoVars
    <3> QED BY <1>0, <3>1, <3>2, LedgerCalls
  <2> DEFINE Accepted == {o \in Op : status[o] # "absent"}
  <2>2. invoked \in [Op -> Nat]
    BY <1>0 DEF CallbackInv, CallbackTypeOK
  <2>3. Accepted' = Accepted \/ \E o \in Op : o \notin Accepted /\ Accepted' = Accepted \cup {o}
    <3>1. CASE \E o \in Op : Amo!AmoAccept(o)
      BY <3>1 DEF Amo!AmoAccept
    <3>2. CASE \E o \in Op : Amo!AmoInvoke(o) \/ \E s \in Amo!Outcome : Amo!AmoDecide(o, s)
      BY <3>2 DEF Amo!AmoInvoke, Amo!AmoDecide
    <3>3. CASE UNCHANGED Amo!amoVars
      BY <3>3 DEF Amo!amoVars
    <3> QED BY <2>1, <3>1, <3>2, <3>3 DEF Amo!AmoNext
  <2>4. CASE Accepted' = Accepted
    BY <1>1, <1>3, <2>4 DEF EndToEnd!amoVars
  <2>5. ASSUME NEW o \in Op, o \notin Accepted, Accepted' = Accepted \cup {o}
        PROVE  EndToEnd!AmoNext
    <3>1. EndToEnd!AmoAccept(o)
      BY <1>1, <1>3, <2>5 DEF EndToEnd!AmoAccept
    <3> QED BY <3>1 DEF EndToEnd!AmoNext
  <2> QED BY <2>3, <2>4, <2>5
<1> QED BY <1>2, <1>3

\* The contract holds end to end, from the client's view of the cell to the
\* provider, for any commands of one instance, any handlers and
\* any faults (alarm(), effect_callback and the ledger).
THEOREM CellRefinesAtMostOnce == ProtocolSpec => CellImplementsAtMostOnce
<1>1. ProtocolInit => EndToEnd!AmoInit
  <2> SUFFICES ASSUME ProtocolInit PROVE EndToEnd!AmoInit
    OBVIOUS
  <2>1. \A o \in Op : CellOutcome(o) = "open"
    BY NothingReported DEF ProtocolInit, CellInit, Reports
  <2>2. status = [o \in Op |-> "absent"] /\ invoked = [o \in Op |-> 0]
    BY DEF ProtocolInit, CallbackInit, LedgerInit
  <2> QED BY <2>1, <2>2 DEF EndToEnd!AmoInit
<1>2. ComposedInv /\ ComposedInv' /\ [ProtocolNext]_protocolVars
        => [EndToEnd!AmoNext]_(EndToEnd!amoVars)
  BY WorkerIsAbstract, ManagementIsAbstract DEF ComposedInv
<1> QED BY <1>1, <1>2, ComposedInvariant, PTL
        DEF ProtocolSpec, CellImplementsAtMostOnce, EndToEnd!AmoSpec

\* A client that reads a success from the cell can rely on the provider's
\* effect (alarm() against complete_with_code and the provider).
THEOREM ReportedSuccessHolds == ProtocolSpec => []ReportedSuccessIsReal
<1>1. ComposedInv => ReportedSuccessIsReal
  <2> SUFFICES ASSUME ComposedInv, cell # None, NEW k \in DOMAIN cell.effects,
                      cell.effects[k].status = "succeeded", cell.effects[k].cmd.action \in Effectful
               PROVE  cell.effects[k].cmd.op \in effected
    BY DEF ReportedSuccessIsReal
  <2> DEFINE c == cell.effects[k].cmd
  <2>1. c \in Command /\ c.op \in Op
    BY CellFields, CommandFields DEF ComposedInv, CellInv, CellTypeOK
  <2>2. status[c.op] = "succeeded"
    BY DEF ComposedInv, ProtocolInv, JoinedWith, AgreesWithLedger, TerminalStatus
  <2>3. /\ cell \in Cell /\ LedgerInv
        /\ OneEntryPerOperation(cell) /\ KnownToCell(cell)
    BY DEF ComposedInv, CellInv, CellTypeOK, EffectsSound, CallbackInv, ProtocolInv, JoinedWith
  <2>4. request[c.op] = c
    BY <2>2, <2>3, EntryIsRow
  <2> HIDE DEF c
  <2>5. c.action \in Effectful
    BY DEF c
  <2>6. c.op \in effected
    BY <2>1, <2>2, <2>4, <2>5 DEF ComposedInv, OutcomesTrue, SuccessIsReal
  <2> QED BY <2>6 DEF c
<1> QED BY <1>1, ComposedInvariant, PTL

=============================================================================
