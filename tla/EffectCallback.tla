---------------------------- MODULE EffectCallback ----------------------------
(***************************************************************************)
(* Management's side of the Celld effect protocol: the handler of          *)
(* POST /api/v2/celld/effects (management/src/http/celld.rs,               *)
(* effect_callback and resume_effect), the dispatch of an effect to the    *)
(* runtime provider and the lookup of its management operation             *)
(* (management/src/http/admin_v2.rs), and the in-memory OperationStore     *)
(* (management/src/http/operations.rs).                                    *)
(*                                                                         *)
(* Several handlers run at once (tokio tasks): a retry of an operation may *)
(* arrive while an earlier delivery is still being served.  Every call of  *)
(* a handler on the ledger or the store is one step; between two of them   *)
(* any other handler, the provisioning workers, the expiry of finished     *)
(* operations, a dropped connection or a restart may come.                 *)
(***************************************************************************)
EXTENDS EffectLedger

CONSTANT Handler       \* concurrently running callback handlers

Effectful == {"provision", "start", "stop", "destroy"}

\* Terminal codes and results a completion can carry: "none" with the
\* operation's result, "operation.failed", the codes of HTTP errors, of
\* refusals and of observe.
CallbackTerminal ==
  [code   : {"none", "operation.failed", "management_http", "refused",
             "observe_no_effect"},
   result : MgmtOp \cup {None}]

Code(c, r) == [code |-> c, result |-> r]

ASSUME TerminalAssumption == CallbackTerminal \subseteq Terminal

\* A CelldProviderEffect: what dispatch or lookup reports to the handler.
ProviderEffect ==
  [status : {"dispatched", "unknown"} \cup TerminalStatus,
   mop : MgmtOp \cup {None},
   term : CallbackTerminal \cup {None}]

Effect(s, m, t) == [status |-> s, mop |-> m, term |-> t]

Step == {"idle", "claim", "read", "begin", "reread", "dispatch", "bind",
         "finish", "resume", "settle", "giveup", "answer", "done"}

VARIABLES
  pc,         \* pc[h]: the next call handler h makes
  job,        \* job[h]: the command of the effect being served, or None
  snap,       \* snap[h]: the ledger record resume_effect was called with
  eff,        \* eff[h]: the provider effect being recorded, or None
  reply,      \* reply[h]: status in the response body, "error", or None
  opStore,    \* opStore[m]: state of a management operation in memory
  issuedFor,  \* issuedFor[m]: the operation m was created for (history)
  invoked,    \* invoked[o]: provider invocations made for o (history)
  effected    \* effected: operations whose provider effect is complete
              \*   (the provider's own truth)

handlerVars  == <<pc, job, snap, eff, reply>>
providerVars == <<opStore, issuedFor, invoked, effected>>
callbackVars == <<ledgerVars, handlerVars, providerVars>>

Snapshot == [status : OpenStatus \cup TerminalStatus, mop : MgmtOp \cup {None}]

CallbackTypeOK ==
  /\ LedgerTypeOK
  /\ pc \in [Handler -> Step]
  /\ job \in [Handler -> Command \cup {None}]
  /\ snap \in [Handler -> Snapshot \cup {None}]
  /\ eff \in [Handler -> ProviderEffect \cup {None}]
  /\ reply \in [Handler -> OpenStatus \cup TerminalStatus \cup {"error", None}]
  /\ opStore \in [MgmtOp -> {"absent", "running", "completed", "failed"}]
  /\ issuedFor \in [MgmtOp -> Op \cup {None}]
  /\ invoked \in [Op -> Nat]
  /\ effected \in SUBSET Op

HandlersIdle ==
  /\ pc = [h \in Handler |-> "idle"]
  /\ job = [h \in Handler |-> None]
  /\ snap = [h \in Handler |-> None]
  /\ eff = [h \in Handler |-> None]
  /\ reply = [h \in Handler |-> None]

CallbackInit ==
  /\ LedgerInit
  /\ HandlersIdle
  /\ opStore = [m \in MgmtOp |-> "absent"]
  /\ issuedFor = [m \in MgmtOp |-> None]
  /\ invoked = [o \in Op |-> 0]
  /\ effected = {}

-----------------------------------------------------------------------------
(* Moves of a handler from one call to the next.                           *)

GoTo(h, p) == pc' = [pc EXCEPT ![h] = p]

Respond(h, r) ==
  /\ GoTo(h, "done")
  /\ reply' = [reply EXCEPT ![h] = r]

JobOp(h) == job[h].op

\* effect_callback up to claim_managed: the signature is verified, the hash
\* of the effect binds its fields (so the command is the one the client
\* signed), and the generation in the callback must be the effect's.
Receive(h, c, g) ==
  /\ pc[h] = "idle"
  /\ job' = [job EXCEPT ![h] = c]
  /\ IF g = c.generation
     THEN GoTo(h, "claim") /\ UNCHANGED reply
     ELSE Respond(h, "error")
  /\ UNCHANGED <<snap, eff, ledgerVars, providerVars>>

Claim(h) ==
  /\ pc[h] = "claim"
  /\ IF Admitted(job[h]) /\ ~Collides(job[h])
     THEN ClaimManaged(job[h]) /\ GoTo(h, "read") /\ UNCHANGED reply
     ELSE Respond(h, "error") /\ UNCHANGED ledgerVars
  /\ UNCHANGED <<job, snap, eff, providerVars>>

CurrentRecord(o) == [status |-> status[o], mop |-> mgmtOp[o]]

\* The record right after the claim decides: terminal is the answer,
\* dispatched or unknown is resumed, pending may be dispatched.
ReadRecord(h) ==
  /\ pc[h] = "read"
  /\ \/ /\ status[JobOp(h)] \in TerminalStatus
        /\ Respond(h, status[JobOp(h)])
        /\ UNCHANGED snap
     \/ /\ status[JobOp(h)] \in {"dispatched", "unknown"}
        /\ GoTo(h, "resume")
        /\ snap' = [snap EXCEPT ![h] = CurrentRecord(JobOp(h))]
        /\ UNCHANGED reply
     \/ /\ status[JobOp(h)] = "pending"
        /\ GoTo(h, "begin")
        /\ UNCHANGED <<snap, reply>>
  /\ UNCHANGED <<job, eff, ledgerVars, providerVars>>

\* Dispatching on the record that was read, whoever else was granted it.
BeginFromSnapshot(h) ==
  /\ pc[h] = "begin"
  /\ status' = [status EXCEPT ![JobOp(h)] = "dispatched"]
  /\ GoTo(h, "dispatch")
  /\ UNCHANGED <<request, dispatchCount, mgmtOp, terminal, instCols,
                 job, snap, eff, reply, providerVars>>

Begin(h) ==
  /\ pc[h] = "begin"
  /\ IF GrantsDispatch(JobOp(h))
     THEN BeginDispatch(JobOp(h)) /\ GoTo(h, "dispatch")
     ELSE GoTo(h, "reread") /\ UNCHANGED ledgerVars
  /\ UNCHANGED <<job, snap, eff, reply, providerVars>>

\* begin_dispatch returned false: resume with whatever the record is now.
Reread(h) ==
  /\ pc[h] = "reread"
  /\ GoTo(h, "resume")
  /\ snap' = [snap EXCEPT ![h] = CurrentRecord(JobOp(h))]
  /\ UNCHANGED <<job, eff, reply, ledgerVars, providerVars>>

-----------------------------------------------------------------------------
(* dispatch_celld_effect and normalize_celld_provider_response.            *)

\* Without the early return for Celld: an active provision of the same
\* target is taken over, whatever operation it was created for.
FreshOrActiveOps == { m \in MgmtOp : issuedFor[m] = None \/ opStore[m] = "running" }

\* A provision that meets an active one for its target is refused, so the id
\* an effect gets is always a new one.
FreshOps == { m \in MgmtOp : issuedFor[m] = None }

Issue(m, o, st) ==
  /\ opStore' = [opStore EXCEPT ![m] = st]
  /\ issuedFor' = [issuedFor EXCEPT ![m] = o]

Invoke(o) == invoked' = [invoked EXCEPT ![o] = @ + 1]

\* The provider is not reached: a refused payload or target (4xx), an
\* internal error before the provider (5xx), repair, or observe.
Refused(h, e) ==
  /\ \/ e = Effect("rejected", None, Code("refused", None))
        /\ job[h].action # "observe"
     \/ e = Effect("failed", None, Code("management_http", None))
        /\ job[h].action \in Effectful
     \/ e = Effect("succeeded", None, Code("observe_no_effect", None))
        /\ job[h].action = "observe"
  /\ UNCHANGED providerVars

\* provision_instance_inner records a running operation, spawns its worker
\* and answers with the pending snapshot.
ProvisionStarted(h, e) ==
  /\ job[h].action = "provision"
  /\ \E m \in FreshOps :
       /\ e = Effect("dispatched", m, None)
       /\ Issue(m, JobOp(h), "running")
  /\ Invoke(JobOp(h))
  /\ UNCHANGED effected

\* start, stop and destroy act before they answer.  A success is put in the
\* store as a completed operation (synth_succeeded_op); its body may be
\* unreadable, and the outcome is then unknown with the id of the Location
\* header.  A provider error (5xx) says nothing of what was done.
RuntimeActed(h, e) ==
  /\ job[h].action \in {"start", "stop", "destroy"}
  /\ Invoke(JobOp(h))
  /\ \/ /\ \E m \in FreshOps :
             /\ e \in {Effect("succeeded", m, Code("none", m)),
                       Effect("unknown", m, None)}
             /\ Issue(m, JobOp(h), "completed")
        /\ effected' = effected \cup {JobOp(h)}
     \/ /\ e = Effect("failed", None, Code("management_http", None))
        /\ effected' \in {effected, effected \cup {JobOp(h)}}
        /\ UNCHANGED <<opStore, issuedFor>>

Dispatch(h) ==
  /\ pc[h] = "dispatch"
  /\ \E e \in ProviderEffect :
       /\ Refused(h, e) \/ ProvisionStarted(h, e) \/ RuntimeActed(h, e)
       /\ eff' = [eff EXCEPT ![h] = e]
  /\ GoTo(h, "bind")
  /\ UNCHANGED <<job, snap, reply, ledgerVars>>

\* The qualification gate fails and the answer is an error: before the
\* dispatch, which is then not made, or after its effect was recorded.  (The
\* path through resume_effect, which has a snapshot, has no gate.)
GateFailure(h) ==
  /\ \/ pc[h] = "dispatch"
     \/ pc[h] = "answer" /\ snap[h] = None
  /\ Respond(h, "error")
  /\ UNCHANGED <<job, snap, eff, ledgerVars, providerVars>>

-----------------------------------------------------------------------------
(* Recording the effect, and resuming one that was dispatched before.      *)

Bind(h) ==
  /\ pc[h] = "bind"
  /\ \/ /\ eff[h].mop = None
        /\ GoTo(h, "finish")
        /\ UNCHANGED <<reply, ledgerVars>>
     \/ /\ eff[h].mop # None
        /\ SetManagementOperation(JobOp(h), eff[h].mop)
        /\ GoTo(h, "finish")
        /\ UNCHANGED reply
     \/ /\ eff[h].mop # None
        /\ MgmtOpConflict(JobOp(h), eff[h].mop)
        /\ Respond(h, "error")
        /\ UNCHANGED ledgerVars
  /\ UNCHANGED <<job, snap, eff, providerVars>>

\* complete_with_code with the effect at hand, or its TerminalConflict.
CompleteOrConflict(h) ==
  IF CompletionConflict(JobOp(h), eff[h].status, eff[h].term)
  THEN Respond(h, "error") /\ UNCHANGED ledgerVars
  ELSE /\ Complete(JobOp(h), eff[h].status, eff[h].term)
       /\ GoTo(h, "answer")
       /\ UNCHANGED reply

Finish(h) ==
  /\ pc[h] = "finish"
  /\ \/ /\ eff[h].status \in TerminalStatus
        /\ CompleteOrConflict(h)
     \/ /\ eff[h].status = "unknown"
        /\ MarkUnknown(JobOp(h))
        /\ GoTo(h, "answer")
        /\ UNCHANGED reply
     \/ /\ eff[h].status = "dispatched"
        /\ GoTo(h, "answer")
        /\ UNCHANGED <<reply, ledgerVars>>
  /\ UNCHANGED <<job, snap, eff, providerVars>>

\* A lookup that takes every finished operation for a completed one.
FoundIgnoresFailure(m) == Effect("succeeded", m, Code("none", m))

\* A lookup that reports success with a code of its own.
FoundWithCode(m) ==
  IF opStore[m] = "completed"
  THEN Effect("succeeded", m, Code("management_http", m))
  ELSE Effect("failed", m, Code("operation.failed", None))

\* lookup_celld_management_effect for a finished operation.
Found(m) ==
  IF opStore[m] = "completed"
  THEN Effect("succeeded", m, Code("none", m))
  ELSE Effect("failed", m, Code("operation.failed", None))

Settled(m) == opStore[m] \in {"completed", "failed"}

\* The lookup finds no operation, or there is no id to look up.
NotFound(m) == m # None => opStore[m] = "absent"

InterruptedObserve(h) ==
  /\ snap[h].status = "dispatched"
  /\ snap[h].mop = None
  /\ job[h].action = "observe"

\* resume_effect: an interrupted observe succeeds, a finished management
\* operation is recorded, and a dispatched effect whose operation is not
\* found becomes unknown.
Resume(h) ==
  /\ pc[h] = "resume"
  /\ LET m == snap[h].mop IN
     \/ /\ InterruptedObserve(h)
        /\ eff' = [eff EXCEPT ![h] =
             Effect("succeeded", None, Code("observe_no_effect", None))]
        /\ GoTo(h, "settle")
     \/ /\ m # None
        /\ Settled(m)
        /\ eff' = [eff EXCEPT ![h] = Found(m)]
        /\ GoTo(h, "settle")
     \/ /\ NotFound(m)
        /\ snap[h].status = "dispatched"
        /\ ~InterruptedObserve(h)
        /\ GoTo(h, "giveup")
        /\ UNCHANGED eff
     \/ /\ \/ m # None /\ opStore[m] = "running"
           \/ NotFound(m) /\ snap[h].status # "dispatched"
        /\ GoTo(h, "answer")
        /\ UNCHANGED eff
  /\ UNCHANGED <<job, snap, reply, ledgerVars, providerVars>>

Settle(h) ==
  /\ pc[h] = "settle"
  /\ CompleteOrConflict(h)
  /\ UNCHANGED <<job, snap, eff, providerVars>>

GiveUp(h) ==
  /\ pc[h] = "giveup"
  /\ MarkUnknown(JobOp(h))
  /\ GoTo(h, "answer")
  /\ UNCHANGED <<job, snap, eff, reply, providerVars>>

\* The response carries the record as it is now.
Answer(h) ==
  /\ pc[h] = "answer"
  /\ Respond(h, status[JobOp(h)])
  /\ UNCHANGED <<job, snap, eff, ledgerVars, providerVars>>

HandlerStep(h) ==
  \/ Claim(h) \/ ReadRecord(h) \/ Begin(h) \/ Reread(h) \/ Dispatch(h)
  \/ Bind(h) \/ Finish(h) \/ Resume(h) \/ Settle(h) \/ GiveUp(h) \/ Answer(h)

Forget(h) ==
  /\ GoTo(h, "idle")
  /\ job' = [job EXCEPT ![h] = None]
  /\ snap' = [snap EXCEPT ![h] = None]
  /\ eff' = [eff EXCEPT ![h] = None]
  /\ reply' = [reply EXCEPT ![h] = None]

\* The response leaves the handler; whether it arrives is the caller's part.
Close(h) ==
  /\ pc[h] = "done"
  /\ Forget(h)
  /\ UNCHANGED <<ledgerVars, providerVars>>

-----------------------------------------------------------------------------
(* What happens around the handlers.                                       *)

\* The connection breaks while the handler awaits the provider: the server
\* drops the handler's future.  A start, stop or destroy already handed to
\* the runtime may still take effect, but no operation is recorded for it.
Disconnect(h) ==
  /\ pc[h] = "dispatch"
  /\ \/ UNCHANGED <<invoked, effected>>
     \/ /\ job[h].action \in {"start", "stop", "destroy"}
        /\ Invoke(JobOp(h))
        /\ effected' \in {effected, effected \cup {JobOp(h)}}
  /\ Forget(h)
  /\ UNCHANGED <<ledgerVars, opStore, issuedFor>>

\* The spawned provisioning worker ends: mark_completed or mark_failed.
ProvisionEnds(m) ==
  /\ opStore[m] = "running"
  /\ \/ /\ opStore' = [opStore EXCEPT ![m] = "completed"]
        /\ effected' = effected \cup {issuedFor[m]}
     \/ /\ opStore' = [opStore EXCEPT ![m] = "failed"]
        /\ effected' \in {effected, effected \cup {issuedFor[m]}}
  /\ UNCHANGED <<ledgerVars, handlerVars, issuedFor, invoked>>

\* cleanup_expired: a finished operation leaves the store after one hour.
Expire(m) ==
  /\ Settled(m)
  /\ opStore' = [opStore EXCEPT ![m] = "absent"]
  /\ UNCHANGED <<ledgerVars, handlerVars, issuedFor, invoked, effected>>

\* Management stops and starts again: handlers, workers and the operation
\* store are gone, the ledger file is reopened as it was.  A worker that was
\* running may have finished its provider call.
Restart ==
  /\ pc' = [h \in Handler |-> "idle"]
  /\ job' = [h \in Handler |-> None]
  /\ snap' = [h \in Handler |-> None]
  /\ eff' = [h \in Handler |-> None]
  /\ reply' = [h \in Handler |-> None]
  /\ opStore' = [m \in MgmtOp |-> "absent"]
  /\ \E done \in SUBSET { issuedFor[m] : m \in { n \in MgmtOp : opStore[n] = "running" } } :
       effected' = effected \cup done
  /\ UNCHANGED <<ledgerVars, issuedFor, invoked>>

-----------------------------------------------------------------------------
(* Management on its own: callers deliver any callback at any time.        *)

CallbackNext ==
  \/ \E h \in Handler, c \in Command :
       \E g \in {d.generation : d \in Command} : Receive(h, c, g)
  \/ \E h \in Handler :
       HandlerStep(h) \/ GateFailure(h) \/ Disconnect(h) \/ Close(h)
  \/ \E m \in MgmtOp : ProvisionEnds(m) \/ Expire(m)
  \/ Restart

CallbackSpec == CallbackInit /\ [][CallbackNext]_callbackVars

-----------------------------------------------------------------------------
(* The inductive invariant behind the at-most-once contract.               *)

\* What a handler knows at each call: its command from the start, its row
\* once claimed, the snapshot it resumes from, the effect it records.
Knows(h) ==
  /\ pc[h] # "idle" => job[h] # None
  /\ pc[h] \notin {"idle", "claim", "done"} => request[JobOp(h)] = job[h]
  /\ pc[h] = "resume" => snap[h] \in Snapshot
  /\ pc[h] \in {"bind", "finish", "settle"} =>
       /\ eff[h] \in ProviderEffect
       /\ eff[h].status \in TerminalStatus => eff[h].term \in CallbackTerminal
  /\ pc[h] = "settle" => eff[h].status \in TerminalStatus

HandlersKnow == \A h \in Handler : Knows(h)

\* A management operation in the store was created for some effect.
StoreIsIssued == \A m \in MgmtOp : opStore[m] # "absent" => issuedFor[m] \in Op

\* The calls made by the handler that begin_dispatch has chosen.
Owning == {"dispatch", "bind", "finish"}

\* One handler at a time owns the dispatch of an operation.
DispatchOwned ==
  \A h \in Handler : pc[h] \in Owning =>
    /\ dispatchCount[JobOp(h)] = 1
    /\ \A g \in Handler : pc[g] \in Owning /\ JobOp(g) = JobOp(h) => g = h

\* Every invocation was granted, and the owner has not made its own yet.
InvocationsGranted ==
  /\ \A o \in Op : invoked[o] <= dispatchCount[o]
  /\ \A h \in Handler : pc[h] = "dispatch" => invoked[JobOp(h)] = 0

\* Nobody decides an effect that is still to be dispatched: the others need
\* a management operation, which only the dispatch creates, or an observe.
Undispatched(h) ==
  /\ mgmtOp[JobOp(h)] = None
  /\ job[h].action # "observe" => status[JobOp(h)] \in {"dispatched", "unknown"}

HasAnswer(h) ==
  /\ pc[h] = "resume" /\ snap[h].mop # None => mgmtOp[JobOp(h)] # None
  /\ pc[h] = "settle" => job[h].action = "observe" \/ mgmtOp[JobOp(h)] # None

UndecidedBeforeDispatch ==
  \A h \in Handler : (pc[h] = "dispatch" => Undispatched(h)) /\ HasAnswer(h)

-----------------------------------------------------------------------------
(* Properties.                                                             *)

\* The provider is invoked at most once for an operation, however often its
\* callback is delivered, whichever handlers race, and across disconnects
\* and restarts (effect_callback, begin_dispatch, resume_effect).
AtMostOneInvocation == \A o \in Op : invoked[o] <= 1

\* The handlers' invariant, whole: inductive under every handler step, worker,
\* disconnect, expiry and restart.
CallbackInv ==
  /\ LedgerInv
  /\ CallbackTypeOK
  /\ HandlersKnow
  /\ StoreIsIssued
  /\ DispatchOwned
  /\ InvocationsGranted
  /\ UndecidedBeforeDispatch

\* An operation the ledger reports as succeeded took effect at the provider,
\* unless it is an observe, which has none (complete_with_code reached from
\* the dispatch, from a lookup and from an interrupted observe).
SuccessIsReal ==
  \A o \in Op : status[o] = "succeeded" /\ request[o].action \in Effectful =>
    o \in effected

\* Racing completions of one operation never disagree: a completion that is
\* about to be recorded carries the outcome already on record, if there is
\* one, so that TerminalConflict and ManagementOperationConflict are never
\* answers to a legitimate delivery (dispatch result against lookup).
CompletionsAgree ==
  \A h \in Handler :
    /\ pc[h] \in {"finish", "settle"} /\ eff[h].status \in TerminalStatus =>
         ~CompletionConflict(JobOp(h), eff[h].status, eff[h].term)
    /\ pc[h] = "bind" /\ eff[h].mop # None =>
         ~MgmtOpConflict(JobOp(h), eff[h].mop)

\* A management operation recorded for an effect was created for that effect
\* (set_management_operation against concurrent dispatches).
OperationsNotMixed ==
  \A o \in Op : mgmtOp[o] # None => issuedFor[mgmtOp[o]] = o

-----------------------------------------------------------------------------
(* The inductive invariant behind the three properties above: what is said *)
(* of an effect in flight, in the store and on record is one and the same. *)

ObserveEffect == Effect("succeeded", None, Code("observe_no_effect", None))

\* A management operation was created by the one dispatch of its effect, and
\* what the store calls completed has taken effect.
IssuedOnce ==
  /\ \A m \in MgmtOp : issuedFor[m] # None => invoked[issuedFor[m]] # 0
  /\ \A m, n \in MgmtOp : issuedFor[m] # None /\ issuedFor[m] = issuedFor[n] => m = n
  /\ \A m \in MgmtOp : opStore[m] = "completed" => issuedFor[m] \in effected

\* The calls between learning of an effect and recording it.
Recording == {"bind", "finish", "settle"}

\* What a handler is about to record is about its own operation and true;
\* until the dispatch has bound its operation nobody else can decide.
EffectIsOwn(h) ==
  /\ pc[h] = "resume" /\ snap[h].mop # None => snap[h].mop = mgmtOp[JobOp(h)]
  /\ pc[h] \in Recording =>
       /\ eff[h].mop # None => issuedFor[eff[h].mop] = JobOp(h)
       /\ eff[h].status = "succeeded" /\ job[h].action \in Effectful =>
            JobOp(h) \in effected
       /\ job[h].action = "observe" => eff[h] = ObserveEffect
  /\ pc[h] = "bind" => Undispatched(h)
  /\ pc[h] = "finish" =>
       /\ mgmtOp[JobOp(h)] = eff[h].mop
       /\ eff[h].mop = None /\ job[h].action # "observe" =>
            status[JobOp(h)] \in {"dispatched", "unknown"}
  /\ pc[h] = "settle" /\ job[h].action # "observe" =>
       eff[h].mop # None /\ eff[h].mop = mgmtOp[JobOp(h)]

\* A handler that has the end of a management operation in hand.
Says(h) == pc[h] \in Recording /\ eff[h].status \in TerminalStatus /\ eff[h].mop # None

\* The end of a management operation is the same for every handler that
\* learnt of it, for the store, and on record, also after the store has
\* forgotten it.
OneVerdict ==
  /\ \A h, g \in Handler : Says(h) /\ Says(g) /\ eff[h].mop = eff[g].mop => eff[h] = eff[g]
  /\ \A h \in Handler : Says(h) /\ opStore[eff[h].mop] # "absent" =>
       Settled(eff[h].mop) /\ eff[h] = Found(eff[h].mop)
  /\ \A o \in Op : status[o] \in TerminalStatus /\ mgmtOp[o] # None =>
       /\ opStore[mgmtOp[o]] # "absent" =>
            /\ Settled(mgmtOp[o])
            /\ <<status[o], terminal[o]>> = <<Found(mgmtOp[o]).status, Found(mgmtOp[o]).term>>
       /\ \A h \in Handler : Says(h) /\ JobOp(h) = o =>
            <<status[o], terminal[o]>> = <<eff[h].status, eff[h].term>>

\* An observe has no management operation and one possible outcome.
ObserveIsFixed ==
  \A o \in Op : request[o] # None /\ request[o].action = "observe" =>
    /\ mgmtOp[o] = None
    /\ status[o] \in TerminalStatus =>
         <<status[o], terminal[o]>> = <<ObserveEffect.status, ObserveEffect.term>>

\* Effects are attributed, true and agreed on.
OutcomesTrue ==
  /\ OperationsNotMixed
  /\ IssuedOnce
  /\ \A h \in Handler : EffectIsOwn(h)
  /\ OneVerdict
  /\ ObserveIsFixed
  /\ SuccessIsReal

-----------------------------------------------------------------------------
\* Management implements the at-most-once contract: its ledger rows are the
\* accepted operations, its terminal rows the outcomes.
Amo == INSTANCE AtMostOnceEffect WITH
         accepted    <- {o \in Op : status[o] # "absent"},
         invocations <- invoked,
         outcome     <- [o \in Op |-> IF status[o] \in TerminalStatus
                                      THEN status[o] ELSE "open"]

\* The contract as a property: whatever the handlers, workers, disconnects
\* and restarts do is a step of AtMostOnceEffect or invisible to it; in
\* particular no provider is invoked once an outcome is on record.
ImplementsAtMostOnce == Amo!AmoSpec
=============================================================================
