----------------------------- MODULE EffectLedger -----------------------------
(***************************************************************************)
(* The durable ledger of Celld lifecycle effects                           *)
(* (management/src/celld/effect_ledger.rs).                                *)
(*                                                                         *)
(* The ledger is two SQLite tables behind one mutex; every public method   *)
(* runs under that mutex, the ones that write two tables in one IMMEDIATE  *)
(* transaction, so each method is one atomic action here.  The table       *)
(* celld_effects is modelled column by column, as functions of the         *)
(* operation id; celld_instance_generations as two functions of the        *)
(* instance.  A method that returns an error rolls back and changes        *)
(* nothing: it is a stuttering step of this module, and the modules that   *)
(* call the ledger test the conditions below to see which case they are in.*)
(***************************************************************************)
EXTENDS CelldTypes, FiniteSets

CONSTANTS
  MgmtOp,      \* ids of management operations (UUIDs of the OperationStore)
  Terminal     \* terminal codes with their result payloads

ASSUME NoneAssumption == None \notin MgmtOp /\ None \notin Terminal

InstanceState  == {"absent", "provisioning", "active", "stopped", "destroyed"}

VARIABLES
  request,        \* request[o]: the command claimed under o (request_hash,
                  \*   instance_id, generation and action columns), or None
  status,         \* status[o]: status column, "absent" when there is no row
  dispatchCount,  \* dispatchCount[o]: provider_dispatch_count column
  mgmtOp,         \* mgmtOp[o]: management_operation_id column, or None
  terminal,       \* terminal[o]: terminal_code and result_json, or None
  instGen,        \* instGen[i]: generation of the instance, 0 without a row
  instState       \* instState[i]: state column, "absent" without a row

effectCols == <<request, status, dispatchCount, mgmtOp, terminal>>
instCols   == <<instGen, instState>>
ledgerVars == <<request, status, dispatchCount, mgmtOp, terminal,
                instGen, instState>>

LedgerTypeOK ==
  /\ request \in [Op -> Command \cup {None}]
  /\ status \in [Op -> OpenStatus \cup TerminalStatus \cup {"absent"}]
  /\ dispatchCount \in [Op -> Nat]
  /\ mgmtOp \in [Op -> MgmtOp \cup {None}]
  /\ terminal \in [Op -> Terminal \cup {None}]
  /\ instGen \in [Instance -> Nat]
  /\ instState \in [Instance -> InstanceState]

\* EffectLedger::open on a new file: both tables are created empty.
LedgerInit ==
  /\ request = [o \in Op |-> None]
  /\ status = [o \in Op |-> "absent"]
  /\ dispatchCount = [o \in Op |-> 0]
  /\ mgmtOp = [o \in Op |-> None]
  /\ terminal = [o \in Op |-> None]
  /\ instGen = [i \in Instance |-> 0]
  /\ instState = [i \in Instance |-> "absent"]

-----------------------------------------------------------------------------
(* claim_managed: the generation binding, then the insert of the effect.   *)

\* The first provision of an instance registers whatever generation it names.
Registers(c) == instGen[c.instance] = 0 /\ c.action = "provision"

\* The command names the generation the instance is at, in any state.
IsCurrent(c) == instGen[c.instance] = c.generation

\* A provision of the following generation revives a destroyed instance.
AdvancesAnyState(c) ==
  /\ instGen[c.instance] # 0
  /\ c.action = "provision"
  /\ c.generation = instGen[c.instance] + 1

Advances(c) ==
  /\ instGen[c.instance] # 0
  /\ c.action = "provision"
  /\ instState[c.instance] = "destroyed"
  /\ c.generation = instGen[c.instance] + 1

\* The remaining arms of the match are the errors UnknownInstance,
\* StaleGeneration, FutureGeneration and GenerationAdvanceNotAllowed.
Admitted(c) == Registers(c) \/ IsCurrent(c) \/ Advances(c)

\* The operation id is already bound to another request hash.
Collides(c) == request[c.op] \notin {None, c}

\* INSERT OR REPLACE of a pending row.
InsertPendingReplaces(c) ==
  /\ request' = [request EXCEPT ![c.op] = c]
  /\ status' = [status EXCEPT ![c.op] = "pending"]
  /\ mgmtOp' = [mgmtOp EXCEPT ![c.op] = None]
  /\ UNCHANGED <<dispatchCount, terminal>>

\* INSERT ... ON CONFLICT DO NOTHING of a pending row.
InsertPending(c) ==
  IF status[c.op] = "absent"
  THEN /\ request' = [request EXCEPT ![c.op] = c]
       /\ status' = [status EXCEPT ![c.op] = "pending"]
       /\ UNCHANGED <<dispatchCount, mgmtOp, terminal>>
  ELSE UNCHANGED effectCols

BindGeneration(c) ==
  IF IsCurrent(c)
  THEN UNCHANGED instCols
  ELSE /\ instGen' = [instGen EXCEPT ![c.instance] = c.generation]
       /\ instState' = [instState EXCEPT ![c.instance] = "provisioning"]

ClaimManaged(c) ==
  /\ Admitted(c)
  /\ ~Collides(c)
  /\ BindGeneration(c)
  /\ InsertPending(c)

-----------------------------------------------------------------------------
(* begin_dispatch grants the dispatch to one caller: TRUE in the code when *)
(* the conditional UPDATE changed the row.                                 *)

GrantsDispatch(o) == status[o] = "pending"

BeginDispatch(o) ==
  /\ GrantsDispatch(o)
  /\ status' = [status EXCEPT ![o] = "dispatched"]
  /\ dispatchCount' = [dispatchCount EXCEPT ![o] = @ + 1]
  /\ UNCHANGED <<request, mgmtOp, terminal, instCols>>

(* set_management_operation: an id already there must be the same one.     *)
MgmtOpConflict(o, m) == mgmtOp[o] \notin {None, m}

SetManagementOperation(o, m) ==
  /\ ~MgmtOpConflict(o, m)
  /\ IF status[o] \in {"dispatched", "unknown"}
     THEN mgmtOp' = [mgmtOp EXCEPT ![o] = m]
     ELSE UNCHANGED mgmtOp
  /\ UNCHANGED <<request, status, dispatchCount, terminal, instCols>>

(* mark_unknown: only a dispatched effect becomes unknown.                 *)
MarkUnknown(o) ==
  /\ IF status[o] = "dispatched"
     THEN status' = [status EXCEPT ![o] = "unknown"]
     ELSE UNCHANGED status
  /\ UNCHANGED <<request, dispatchCount, mgmtOp, terminal, instCols>>

-----------------------------------------------------------------------------
(* complete_with_code.  The first completion wins; a repetition must carry *)
(* the same status, code and result.  In both cases the transaction ends   *)
(* with update_instance_state.                                             *)

CompletionConflict(o, s, t) ==
  status[o] \in TerminalStatus /\ <<status[o], terminal[o]>> # <<s, t>>

\* The state that a succeeded action leaves its instance in.
StateAfter(act) ==
  CASE act = "destroy" -> "destroyed"
    [] act = "stop"    -> "stopped"
    [] OTHER           -> "active"

\* update_instance_state that does not look at the outcome.
UpdateInstanceStateAnyOutcome(o, s) ==
  LET c == request[o] IN
  IF c.action \in {"provision", "start", "stop", "destroy"}
     /\ instGen[c.instance] = c.generation
  THEN instState' = [instState EXCEPT ![c.instance] = StateAfter(c.action)]
  ELSE UNCHANGED instState

\* update_instance_state: only a success, and only of the generation the
\* instance is at, moves the instance's state.
UpdateInstanceState(o, s) ==
  LET c == request[o] IN
  IF /\ s = "succeeded"
     /\ c.action \in {"provision", "start", "stop", "destroy"}
     /\ instGen[c.instance] = c.generation
  THEN instState' = [instState EXCEPT ![c.instance] = StateAfter(c.action)]
  ELSE UNCHANGED instState

Complete(o, s, t) ==
  /\ status[o] # "absent"
  /\ ~CompletionConflict(o, s, t)
  /\ status' = [status EXCEPT ![o] = s]
  /\ terminal' = [terminal EXCEPT ![o] = t]
  /\ UpdateInstanceState(o, s)
  /\ UNCHANGED <<request, dispatchCount, mgmtOp, instGen>>

-----------------------------------------------------------------------------
(* The ledger as a component: any caller may make any call at any time.    *)

LedgerNext ==
  \/ \E c \in Command : ClaimManaged(c)
  \/ \E o \in Op : BeginDispatch(o) \/ MarkUnknown(o)
  \/ \E o \in Op, m \in MgmtOp : SetManagementOperation(o, m)
  \/ \E o \in Op, s \in TerminalStatus, t \in Terminal : Complete(o, s, t)

LedgerSpec == LedgerInit /\ [][LedgerNext]_ledgerVars

-----------------------------------------------------------------------------
(* The inductive invariant behind the promises below.                      *)

\* A row has a request exactly when it has a status: the columns of a row are
\* inserted together (claim_on_connection) and no method removes one.
RowsAreWhole == \A o \in Op : request[o] = None <=> status[o] = "absent"

\* No management operation is bound before the dispatch was granted.
UnboundUntilDispatched ==
  \A o \in Op : status[o] \in {"absent", "pending"} => mgmtOp[o] = None

\* A registered instance has a generation, an unregistered one neither
\* generation nor effects.
InstancesRegistered ==
  /\ \A i \in Instance : instGen[i] = 0 <=> instState[i] = "absent"
  /\ \A o \in Op : request[o] # None => instGen[request[o].instance] # 0

-----------------------------------------------------------------------------
(* What the ledger promises, whoever calls it and in whatever order.       *)

\* The provider dispatch of an operation is granted at most once, and an
\* operation is dispatched or unknown only after that one grant
\* (begin_dispatch's conditional UPDATE against claim, mark_unknown,
\* complete and repeated claims in any order).
SingleDispatchOwner ==
  \A o \in Op :
    /\ dispatchCount[o] <= 1
    /\ status[o] \in {"dispatched", "unknown"} => dispatchCount[o] = 1
    /\ status[o] \in {"absent", "pending"} => dispatchCount[o] = 0

\* No effect is ever on record for a generation its instance has not
\* reached: claim_managed's fence holds for every row, including those
\* claimed long before the current generation.
NoFutureEffect ==
  \A o \in Op : request[o] # None =>
    request[o].generation <= instGen[request[o].instance]

DestroySucceeded(i) ==
  \E o \in Op :
    /\ request[o] # None
    /\ request[o].instance = i
    /\ request[o].action = "destroy"
    /\ request[o].generation = instGen[i]
    /\ status[o] = "succeeded"

\* The row of an instance says destroyed only if a destroy effect of its
\* current generation is on record as succeeded (update_instance_state runs
\* on every completion, of any action, generation and outcome).
DestroyedIsWitnessed ==
  \A i \in Instance : instState[i] = "destroyed" => DestroySucceeded(i)

\* The three together with types and row shape are inductive: no ledger call,
\* from any state that satisfies LedgerInv, leads out of it.
LedgerInv ==
  /\ LedgerTypeOK
  /\ RowsAreWhole
  /\ UnboundUntilDispatched
  /\ InstancesRegistered
  /\ SingleDispatchOwner
  /\ NoFutureEffect
  /\ DestroyedIsWitnessed

\* The first terminal outcome of an operation, its code and its result are
\* never replaced (complete_with_code against every later call).
OutcomeIsFinal ==
  [][\A o \in Op : status[o] \in TerminalStatus =>
       status'[o] = status[o] /\ terminal'[o] = terminal[o]]_ledgerVars

\* An operation id is bound to one request and to one management operation
\* for ever (claim_on_connection and set_management_operation).
BindingIsFinal ==
  [][\A o \in Op :
       /\ request[o] # None => request'[o] = request[o]
       /\ mgmtOp[o] # None => mgmtOp'[o] = mgmtOp[o]]_ledgerVars

\* A generation is left only for the next one, and only once a destroy of
\* the generation being left has succeeded (claim_managed).
AdvanceOnlyAfterDestroy ==
  [][\A i \in Instance : instGen[i] # 0 /\ instGen'[i] # instGen[i] =>
       instGen'[i] = instGen[i] + 1 /\ DestroySucceeded(i)]_ledgerVars
=============================================================================
