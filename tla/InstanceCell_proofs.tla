------------------------- MODULE InstanceCell_proofs -------------------------
(***************************************************************************)
(* Proofs about the InstanceCell worker against a management that may      *)
(* answer anything: for any commands and any length of the effect list.    *)
(***************************************************************************)
EXTENDS InstanceCell, SequenceTheorems, WellFoundedInduction, TLAPS

\* A set of naturals that is not empty has a least element.
LEMMA LeastOfNaturals ==
  ASSUME NEW S \in SUBSET Nat, S # {}
  PROVE  \E k \in S : \A j \in S : k <= j
<1> DEFINE R == {ss \in Nat \X Nat : ss[1] < ss[2]}
<1>1. IsWellFoundedOn(R, Nat)
  BY NatLessThanWellFounded DEF OpToRel
<1> HIDE DEF R
<1>2. PICK k \in S : \A j \in S : ~ (<<j, k>> \in R)
  BY <1>1, WFMin
<1>3. ASSUME NEW j \in S
      PROVE  k <= j
  <2>1. ~ (<<j, k>> \in R)
    BY <1>2
  <2>2. j < k => <<j, k>> \in R
    BY DEF R
  <2> QED BY <2>1, <2>2
<1> QED BY <1>3

\* The parts of a cell, and what holds of its effect list.
LEMMA CellFields ==
  ASSUME NEW e \in Cell
  PROVE  /\ e # None
         /\ e.generation \in Nat \ {0} /\ e.desired \in Desired
         /\ e.tombstone \in BOOLEAN /\ e.effects \in Seq(EffectEntry)
         /\ Len(e.effects) \in Nat /\ DOMAIN e.effects = 1..Len(e.effects)
         /\ \A k \in DOMAIN e.effects :
              /\ e.effects[k] \in EffectEntry
              /\ e.effects[k].cmd \in Command
              /\ e.effects[k].status \in OpenStatus \cup TerminalStatus
<1>1. /\ e # None
      /\ e.generation \in Nat \ {0} /\ e.desired \in Desired
      /\ e.tombstone \in BOOLEAN /\ e.effects \in Seq(EffectEntry)
  BY NoCellAssumption DEF Cell
<1>2. /\ Len(e.effects) \in Nat /\ DOMAIN e.effects = 1..Len(e.effects)
      /\ \A k \in 1..Len(e.effects) : e.effects[k] \in EffectEntry
  BY <1>1, LenProperties, ElementOfSeq
<1> QED BY <1>1, <1>2 DEF EffectEntry

\* alarm() finds the first open effect whenever there is one.
LEMMA FirstOpenIsFirst ==
  ASSUME NEW e \in Cell, OpenEffects(e) # {}
  PROVE  /\ FirstOpen(e) \in OpenEffects(e)
         /\ \A j \in OpenEffects(e) : FirstOpen(e) <= j
<1>1. OpenEffects(e) \in SUBSET Nat
  BY CellFields DEF OpenEffects
<1>2. \E k \in OpenEffects(e) : \A j \in OpenEffects(e) : k <= j
  BY <1>1, LeastOfNaturals
<1> QED BY <1>2 DEF FirstOpen

\* A command is recorded at the end of a sound list that does not have its
\* operation: the list stays sound and everything before stays in place.
LEMMA RecordingIsSound ==
  ASSUME NEW e \in Cell, NEW f \in Cell, NEW c \in Command,
         OneEntryPerOperation(e), OldestFirst(e), TransitionHasOpenEffect(e),
         \A k \in DOMAIN e.effects : e.effects[k].cmd.op # c.op,
         f.effects = Append(e.effects, [cmd |-> c, status |-> "pending"]),
         f.desired = NextDesired(e.desired, c.action)
  PROVE  /\ EffectsSound(f)
         /\ Len(f.effects) = Len(e.effects) + 1
         /\ \A k \in DOMAIN e.effects : k \in DOMAIN f.effects /\ f.effects[k] = e.effects[k]
         /\ f.effects[Len(e.effects) + 1] = [cmd |-> c, status |-> "pending"]
<1> DEFINE n == Len(e.effects)
<1>1. /\ n \in Nat /\ DOMAIN e.effects = 1..n /\ e.effects \in Seq(EffectEntry)
      /\ [cmd |-> c, status |-> "pending"] \in EffectEntry
      /\ DOMAIN f.effects = 1..Len(f.effects)
  BY CellFields DEF EffectEntry, OpenStatus
<1>2. /\ Len(f.effects) = n + 1
      /\ \A k \in 1..n : f.effects[k] = e.effects[k]
      /\ f.effects[n + 1] = [cmd |-> c, status |-> "pending"]
      /\ DOMAIN f.effects = 1..(n + 1)
  BY <1>1, AppendProperties
<1>3. OneEntryPerOperation(f)
  BY <1>1, <1>2 DEF OneEntryPerOperation
<1>4. OldestFirst(f)
  BY <1>1, <1>2 DEF OldestFirst
<1>5. TransitionHasOpenEffect(f)
  <2>1. SUFFICES ASSUME f.desired \in {"provisioning", "stopping"}
                 PROVE  \E k \in OpenEffects(f) : f.effects[k].cmd.action # "observe"
    BY DEF TransitionHasOpenEffect
  <2>2. CASE c.action # "observe"
    <3>1. n + 1 \in OpenEffects(f)
      BY <1>1, <1>2 DEF OpenEffects, OpenStatus
    <3> QED BY <1>2, <2>2, <3>1
  <2>3. CASE c.action = "observe"
    <3>1. e.desired \in {"provisioning", "stopping"}
      BY <2>1, <2>3 DEF NextDesired
    <3>2. PICK k \in OpenEffects(e) : e.effects[k].cmd.action # "observe"
      BY <3>1 DEF TransitionHasOpenEffect
    <3>3. k \in OpenEffects(f) /\ f.effects[k].cmd.action # "observe"
      BY <1>1, <1>2, <3>2 DEF OpenEffects
    <3> QED BY <3>3
  <2> QED BY <2>2, <2>3
<1> QED BY <1>1, <1>2, <1>3, <1>4, <1>5 DEF EffectsSound

\* The cell a command applies to is a sound cell with the effects on record.
LEMMA TargetIsSound ==
  ASSUME CellInv, NEW c \in Command
  PROVE  /\ Target(c) \in Cell /\ EffectsSound(Target(c))
         /\ cell # None => Target(c).effects = cell.effects
         /\ cell = None => Target(c).effects = << >>
<1>1. c.generation \in Nat \ {0}
  BY CommandAssumption DEF CommandShape
<1>2. FreshCell(c.generation) \in Cell
  BY <1>1 DEF FreshCell, Cell, Desired
<1>3. CASE cell = None
  <2>1. Target(c) = FreshCell(c.generation)
    BY <1>3 DEF Target
  <2>2. EffectsSound(FreshCell(c.generation))
    BY DEF EffectsSound, OneEntryPerOperation, OldestFirst, TransitionHasOpenEffect, FreshCell
  <2> QED BY <1>2, <1>3, <2>1, <2>2 DEF FreshCell
<1>4. CASE cell # None
  <2>1. cell \in Cell /\ EffectsSound(cell)
    BY <1>4 DEF CellInv, CellTypeOK, CellRun
  <2>2. CASE c.generation = cell.generation
    BY <1>4, <2>1, <2>2 DEF Target
  <2>3. CASE c.generation # cell.generation
    <3> DEFINE f == [FreshCell(c.generation) EXCEPT !.effects = cell.effects]
    <3>1. Target(c) = f
      BY <1>4, <2>3 DEF Target
    <3>2. f.effects = cell.effects /\ f.desired = "requested" /\ f \in Cell
      BY <1>1, <2>1, CellFields DEF FreshCell, Cell, Desired
    <3>3. EffectsSound(f)
      BY <2>1, <3>2
      DEF EffectsSound, OneEntryPerOperation, OldestFirst, TransitionHasOpenEffect
    <3> QED BY <1>4, <3>1, <3>2, <3>3
  <2> QED BY <2>2, <2>3
<1> QED BY <1>3, <1>4

\* What command() stores: one pending effect more, nothing else of the list.
LEMMA AcceptStores ==
  ASSUME CellInv, NEW c \in Command, NEW seen \in BOOLEAN, Accept(c, seen)
  PROVE  /\ cell' \in Cell /\ EffectsSound(cell)'
         /\ Len(cell'.effects) = Len(Target(c).effects) + 1
         /\ \A k \in DOMAIN Target(c).effects :
              k \in DOMAIN cell'.effects /\ cell'.effects[k] = Target(c).effects[k]
         /\ cell'.effects[Len(cell'.effects)] = [cmd |-> c, status |-> "pending"]
<1> DEFINE e == Target(c)
<1>1. e \in Cell /\ EffectsSound(e)
  BY TargetIsSound
<1>2. /\ e.generation \in Nat \ {0} /\ e.desired \in Desired /\ e.tombstone \in BOOLEAN
      /\ e.effects \in Seq(EffectEntry) /\ Len(e.effects) \in Nat
  BY <1>1, CellFields
<1>3. [cmd |-> c, status |-> "pending"] \in EffectEntry
  BY DEF EffectEntry, OpenStatus
<1>4. NextDesired(e.desired, c.action) \in Desired
  BY <1>2 DEF NextDesired, Desired
<1>5. /\ cell' = [e EXCEPT !.effects = Append(@, [cmd |-> c, status |-> "pending"]),
                           !.desired = NextDesired(@, c.action)]
      /\ \A k \in DOMAIN e.effects : e.effects[k].cmd.op # c.op
  BY DEF Accept, Recorded
<1> HIDE DEF e
<1>6. Append(e.effects, [cmd |-> c, status |-> "pending"]) \in Seq(EffectEntry)
  BY <1>2, <1>3, AppendProperties
<1>7. /\ cell'.effects = Append(e.effects, [cmd |-> c, status |-> "pending"])
      /\ cell'.desired = NextDesired(e.desired, c.action)
      /\ cell' \in Cell
  BY <1>1, <1>4, <1>5, <1>6 DEF Cell
<1>8. /\ EffectsSound(cell)'
      /\ Len(cell'.effects) = Len(e.effects) + 1
      /\ \A k \in DOMAIN e.effects :
           k \in DOMAIN cell'.effects /\ cell'.effects[k] = e.effects[k]
      /\ cell'.effects[Len(e.effects) + 1] = [cmd |-> c, status |-> "pending"]
  <2>1. OneEntryPerOperation(e) /\ OldestFirst(e) /\ TransitionHasOpenEffect(e)
    BY <1>1 DEF EffectsSound
  <2> DEFINE f == cell'
  <2>2. f \in Cell
    BY <1>7
  <2>3. f.effects = Append(e.effects, [cmd |-> c, status |-> "pending"])
    BY <1>7
  <2>4. f.desired = NextDesired(e.desired, c.action)
    BY <1>7
  <2> HIDE DEF f
  <2>5. /\ EffectsSound(f)
        /\ Len(f.effects) = Len(e.effects) + 1
        /\ \A k \in DOMAIN e.effects : k \in DOMAIN f.effects /\ f.effects[k] = e.effects[k]
        /\ f.effects[Len(e.effects) + 1] = [cmd |-> c, status |-> "pending"]
    BY <1>1, <1>5, <2>1, <2>2, <2>3, <2>4, RecordingIsSound
  <2> QED BY <2>5 DEF f, EffectsSound, OneEntryPerOperation, OldestFirst,
                      TransitionHasOpenEffect, OpenEffects
<1> QED BY <1>7, <1>8 DEF e

\* command() preserves the invariant, also while alarm() holds a copy: the
\* copy stays a prefix of what is stored.
LEMMA AcceptInv ==
  ASSUME CellInv, NEW c \in Command, NEW seen \in BOOLEAN, Accept(c, seen)
  PROVE  CellInv'
<1> DEFINE e == Target(c)
<1>1. /\ cell' \in Cell /\ EffectsSound(cell)'
      /\ Len(cell'.effects) = Len(e.effects) + 1
      /\ \A k \in DOMAIN e.effects :
           k \in DOMAIN cell'.effects /\ cell'.effects[k] = e.effects[k]
      /\ cell'.effects[Len(cell'.effects)] = [cmd |-> c, status |-> "pending"]
  BY AcceptStores
<1>2. /\ e \in Cell /\ (cell # None => e.effects = cell.effects)
      /\ Len(e.effects) \in Nat /\ DOMAIN e.effects = 1..Len(e.effects)
      /\ DOMAIN cell'.effects = 1..Len(cell'.effects) /\ cell' # None
  BY <1>1, TargetIsSound, CellFields
<1>3. alarm' = TRUE /\ run' = run /\ acked' \in SUBSET Command
  BY DEF Accept, CellInv, CellTypeOK
<1>4. CellTypeOK'
  BY <1>1, <1>3 DEF CellInv, CellTypeOK, CellRun
<1>5. ASSUME run # None
      PROVE  CopyIsBehind'
  <2>1. cell # None /\ CopyIsBehind /\ run.copy \in Cell
    BY <1>5 DEF CellInv, CellTypeOK, CellRun
  <2>2. e.effects = cell.effects
    BY <1>2, <2>1
  <2>3. /\ Len(run.copy.effects) \in Nat
        /\ DOMAIN run.copy.effects = 1..Len(run.copy.effects)
        /\ Len(run.copy.effects) <= Len(e.effects)
    BY <2>1, <2>2, CellFields DEF CopyIsBehind
  <2>4. \A k \in DOMAIN run.copy.effects : cell'.effects[k] = run.copy.effects[k]
    BY <1>1, <1>2, <2>1, <2>2, <2>3 DEF CopyIsBehind
  <2>5. \A k \in DOMAIN cell'.effects :
          k > Len(run.copy.effects) => cell'.effects[k].status = "pending"
    <3> SUFFICES ASSUME NEW k \in DOMAIN cell'.effects, k > Len(run.copy.effects)
                 PROVE  cell'.effects[k].status = "pending"
      OBVIOUS
    <3>1. CASE k \in DOMAIN e.effects
      BY <1>1, <2>1, <2>2, <3>1 DEF CopyIsBehind
    <3>2. CASE k \notin DOMAIN e.effects
      <4>1. k = Len(cell'.effects)
        BY <1>1, <1>2, <3>2
      <4> QED BY <1>1, <4>1
    <3> QED BY <3>1, <3>2
  <2>6. Len(run.copy.effects) <= Len(cell'.effects)
    BY <1>1, <1>2, <2>3
  <2> QED
    BY <1>3, <2>1, <2>4, <2>5, <2>6
    DEF CopyIsBehind, EffectsSound, OneEntryPerOperation, OldestFirst,
        TransitionHasOpenEffect, OpenEffects
<1> QED BY <1>1, <1>2, <1>3, <1>4, <1>5 DEF CellInv

\* alarm() starts with a copy of what is stored and its first open effect.
LEMMA AlarmFiresInv ==
  ASSUME CellInv, AlarmFires
  PROVE  CellInv'
<1>1. /\ cell # None /\ cell \in Cell /\ EffectsSound(cell)
      /\ cell' = cell /\ acked' = acked /\ alarm' = FALSE
  BY DEF CellInv, CellTypeOK, CellRun, AlarmFires
<1>2. CASE OpenEffects(cell) = {}
  <2>1. run' = None
    BY <1>2 DEF AlarmFires
  <2> QED BY <1>1, <2>1 DEF CellInv, CellTypeOK, CellRun, EffectsSound, OneEntryPerOperation,
                           OldestFirst, TransitionHasOpenEffect, OpenEffects
<1>3. CASE OpenEffects(cell) # {}
  <2>1. run' = [copy |-> cell, at |-> FirstOpen(cell)]
    BY <1>3 DEF AlarmFires
  <2>2. /\ FirstOpen(cell) \in OpenEffects(cell)
        /\ \A j \in OpenEffects(cell) : FirstOpen(cell) <= j
    BY <1>1, <1>3, FirstOpenIsFirst
  <2>3. /\ FirstOpen(cell) \in DOMAIN cell.effects
        /\ cell.effects[FirstOpen(cell)].status \in OpenStatus
        /\ FirstOpen(cell) \in Nat \ {0}
        /\ Len(cell.effects) \in Nat /\ DOMAIN cell.effects = 1..Len(cell.effects)
    BY <1>1, <2>2, CellFields DEF OpenEffects
  <2>4. run'.copy = cell /\ run'.at = FirstOpen(cell)
    BY <2>1
  <2>5. CellTypeOK'
    BY <1>1, <2>1, <2>3, <2>4 DEF CellInv, CellTypeOK, CellRun
  <2>6. CopyIsBehind'
    BY <1>1, <2>2, <2>3, <2>4
    DEF CopyIsBehind, EffectsSound, OneEntryPerOperation, OldestFirst,
        TransitionHasOpenEffect, OpenEffects
  <2>7. EffectsSound(cell)'
    BY <1>1 DEF EffectsSound, OneEntryPerOperation, OldestFirst,
                TransitionHasOpenEffect, OpenEffects
  <2> QED BY <1>1, <2>5, <2>6, <2>7 DEF CellInv
<1> QED BY <1>2, <1>3

\* The fields of the cell that alarm() puts back.
LEMMA ConcludedFields ==
  ASSUME CellInv, run # None, NEW s \in CallbackOutcome
  PROVE  /\ Concluded(s) \in Cell
         /\ DOMAIN Concluded(s).effects = DOMAIN run.copy.effects
         /\ Len(Concluded(s).effects) = Len(run.copy.effects)
         /\ \A k \in DOMAIN run.copy.effects :
              /\ Concluded(s).effects[k].cmd = run.copy.effects[k].cmd
              /\ k # run.at => Concluded(s).effects[k] = run.copy.effects[k]
         /\ Concluded(s).effects[run.at].status = s
         /\ Concluded(s).desired = IF s \in TerminalStatus
                                   THEN TerminalDesired(Carried, s, run.copy.desired)
                                   ELSE run.copy.desired
         /\ Concluded(s).generation = run.copy.generation
<1> DEFINE e == run.copy
           d == IF s \in TerminalStatus THEN TerminalDesired(Carried, s, e.desired)
                                        ELSE e.desired
           b == e.tombstone \/ (s = "succeeded" /\ Carried.action = "destroy")
           entry == [e.effects[run.at] EXCEPT !.status = s]
           list == [e.effects EXCEPT ![run.at] = entry]
<1>1. /\ e \in Cell /\ run.at \in DOMAIN e.effects
  BY DEF CellInv, CellTypeOK, CellRun
<1>2. /\ e.desired \in Desired /\ e.tombstone \in BOOLEAN /\ e.effects \in Seq(EffectEntry)
      /\ e.effects[run.at] \in EffectEntry
      /\ DOMAIN e.effects = 1..Len(e.effects) /\ Len(e.effects) \in Nat
  BY <1>1, CellFields
<1>3. s \in OpenStatus \cup TerminalStatus
  BY DEF CallbackOutcome, OpenStatus
<1>4. /\ entry \in EffectEntry /\ entry.cmd = e.effects[run.at].cmd /\ entry.status = s
  BY <1>2, <1>3 DEF EffectEntry
<1>5. d \in Desired
  BY <1>2 DEF TerminalDesired, Desired
<1>6. b \in BOOLEAN
  OBVIOUS
<1>7. Concluded(s) = [[[e EXCEPT !.effects = list] EXCEPT !.desired = d] EXCEPT !.tombstone = b]
  BY <1>1 DEF Concluded, Cell
<1> HIDE DEF entry
<1>8. /\ list \in Seq(EffectEntry) /\ DOMAIN list = DOMAIN e.effects
      /\ Len(list) = Len(e.effects)
      /\ \A k \in DOMAIN e.effects : list[k] = IF k = run.at THEN entry ELSE e.effects[k]
  BY <1>1, <1>2, <1>4, ExceptSeq
<1> HIDE DEF list, d, b, e
<1>9. /\ Concluded(s).effects = list /\ Concluded(s).desired = d
      /\ Concluded(s).generation = e.generation /\ Concluded(s) \in Cell
  BY <1>1, <1>5, <1>6, <1>7, <1>8 DEF Cell
<1> QED BY <1>1, <1>4, <1>8, <1>9 DEF e, d

\* The copy with the outcome in it is sound: the effect carried was the
\* oldest open one, and a terminal outcome settles the desired state unless
\* it is that of an observation.
LEMMA ConcludedIsSound ==
  ASSUME CellInv, run # None, NEW s \in CallbackOutcome
  PROVE  EffectsSound(Concluded(s))
<1> DEFINE e == run.copy
           f == Concluded(s)
<1>1. /\ e \in Cell /\ run.at \in DOMAIN e.effects /\ CopyIsBehind
      /\ DOMAIN e.effects = 1..Len(e.effects) /\ Len(e.effects) \in Nat
      /\ \A k \in DOMAIN e.effects : e.effects[k].status \in OpenStatus \cup TerminalStatus
  BY CellFields DEF CellInv, CellTypeOK, CellRun
<1>2. /\ DOMAIN f.effects = DOMAIN e.effects
      /\ \A k \in DOMAIN e.effects :
           /\ f.effects[k].cmd = e.effects[k].cmd
           /\ k # run.at => f.effects[k] = e.effects[k]
      /\ f.effects[run.at].status = s
      /\ f.desired = IF s \in TerminalStatus THEN TerminalDesired(Carried, s, e.desired)
                                             ELSE e.desired
  BY ConcludedFields
<1>3. /\ OneEntryPerOperation(e) /\ OldestFirst(e) /\ TransitionHasOpenEffect(e)
      /\ e.effects[run.at].status \in OpenStatus
      /\ \A j \in OpenEffects(e) : run.at <= j
  BY <1>1 DEF CopyIsBehind, EffectsSound
<1> HIDE DEF e, f
<1>4. OneEntryPerOperation(f)
  BY <1>2, <1>3 DEF OneEntryPerOperation
<1>5. OldestFirst(f)
  <2> SUFFICES ASSUME NEW j \in DOMAIN f.effects, NEW k \in DOMAIN f.effects, j < k,
                      f.effects[j].status \in OpenStatus
               PROVE  f.effects[k].status = "pending"
    BY DEF OldestFirst
  <2>1. CASE j = run.at
    BY <1>1, <1>2, <1>3, <2>1 DEF OldestFirst
  <2>2. CASE j # run.at
    <3>1. j \in OpenEffects(e) /\ j \in DOMAIN e.effects /\ k \in DOMAIN e.effects
      BY <1>2, <2>2 DEF OpenEffects
    <3>2. k # run.at
      BY <1>1, <1>3, <3>1
    <3> QED BY <1>1, <1>2, <1>3, <2>2, <3>1, <3>2 DEF OldestFirst
  <2> QED BY <2>1, <2>2
<1>6. TransitionHasOpenEffect(f)
  <2> SUFFICES ASSUME f.desired \in {"provisioning", "stopping"}
               PROVE  \E k \in OpenEffects(f) : f.effects[k].cmd.action # "observe"
    BY DEF TransitionHasOpenEffect
  <2>1. CASE s \in TerminalStatus
    <3>1. Carried.action \in Action
      BY <1>1, CellFields, CommandAssumption DEF Carried, e, CommandShape
    <3>2. Carried.action = "observe" /\ e.desired = f.desired
      BY <1>2, <2>1, <3>1 DEF TerminalDesired, Action
    <3>3. PICK k \in OpenEffects(e) : e.effects[k].cmd.action # "observe"
      BY <1>3, <3>2 DEF TransitionHasOpenEffect
    <3>4. k # run.at
      BY <3>2, <3>3 DEF Carried, e
    <3> QED BY <1>2, <3>3, <3>4 DEF OpenEffects
  <2>2. CASE s \notin TerminalStatus
    <3>1. s \in OpenStatus
      BY <2>2 DEF CallbackOutcome, OpenStatus
    <3>2. PICK k \in OpenEffects(e) : e.effects[k].cmd.action # "observe"
      BY <1>2, <1>3, <2>2 DEF TransitionHasOpenEffect
    <3> QED BY <1>2, <3>1, <3>2 DEF OpenEffects
  <2> QED BY <2>1, <2>2
<1> QED BY <1>4, <1>5, <1>6 DEF EffectsSound, f

\* The end of alarm(): the copy is put back over whatever is stored.
LEMMA AlarmEndsInv ==
  ASSUME CellInv, NEW s \in CallbackOutcome, AlarmEnds(s)
  PROVE  CellInv'
<1>1. /\ run # None /\ cell' = Concluded(s) /\ run' = None /\ acked' = acked
      /\ alarm' \in BOOLEAN
  BY DEF AlarmEnds, Rearmed, CellInv, CellTypeOK
<1>2. Concluded(s) \in Cell /\ EffectsSound(Concluded(s)) /\ Concluded(s) # None
  BY <1>1, ConcludedFields, ConcludedIsSound, CellFields
<1>3. EffectsSound(cell)'
  BY <1>1, <1>2 DEF EffectsSound, OneEntryPerOperation, OldestFirst,
                    TransitionHasOpenEffect, OpenEffects
<1> QED BY <1>1, <1>2, <1>3 DEF CellInv, CellTypeOK, CellRun

\* A replayed command, a lost owner and a step of others store nothing.
LEMMA NothingStoredInv ==
  ASSUME CellInv, cell' = cell, run' \in {run, None}, acked' \in SUBSET Command,
         alarm' \in BOOLEAN, alarm' => alarm \/ run # None
  PROVE  CellInv'
BY DEF CellInv, CellTypeOK, CellRun, CopyIsBehind, EffectsSound, OneEntryPerOperation, OldestFirst,
       TransitionHasOpenEffect, OpenEffects

\* One step of the worker.
LEMMA CellStepInv ==
  ASSUME CellInv, CellNext
  PROVE  CellInv'
<1>1. ASSUME NEW c \in Command, NEW seen \in BOOLEAN, Accept(c, seen)
      PROVE  CellInv'
  BY <1>1, AcceptInv
<1>2. ASSUME NEW c \in Command, Replay(c)
      PROVE  CellInv'
  BY <1>2, NothingStoredInv DEF Replay, CellInv, CellTypeOK
<1>3. CASE AlarmFires
  BY <1>3, AlarmFiresInv
<1>4. ASSUME NEW s \in CallbackOutcome, AlarmEnds(s)
      PROVE  CellInv'
  BY <1>4, AlarmEndsInv
<1>5. CASE OwnerLost
  BY <1>5, NothingStoredInv DEF OwnerLost, CellInv, CellTypeOK
<1> QED BY <1>1, <1>2, <1>3, <1>4, <1>5 DEF CellNext

\* The cell before the first command.
LEMMA CellInitInv == CellInit => CellInv
BY DEF CellInit, CellInv, CellTypeOK

\* The effect list of a cell is sound whatever management answers and
\* whatever commands overtake a callback: one entry per operation, carried in
\* the order of acceptance, and a transitional state has an effect at work.
THEOREM CellInvariant == CellSpec => []CellInv
<1>1. CellInv /\ UNCHANGED cellVars => CellInv'
  BY NothingStoredInv DEF cellVars, CellInv, CellTypeOK
<1> QED BY <1>1, CellInitInv, CellStepInv, PTL DEF CellSpec

\* A terminal outcome on record stays where it is: a copy that is put back
\* has every outcome that was recorded, and changes an open effect only.
LEMMA OutcomeStep ==
  ASSUME CellInv, CellNext, cell # None,
         NEW k \in DOMAIN cell.effects, cell.effects[k].status \in TerminalStatus
  PROVE  k \in DOMAIN cell'.effects /\ cell'.effects[k] = cell.effects[k]
<1>1. ASSUME NEW c \in Command, NEW seen \in BOOLEAN, Accept(c, seen)
      PROVE  k \in DOMAIN cell'.effects /\ cell'.effects[k] = cell.effects[k]
  BY <1>1, AcceptStores, TargetIsSound
<1>2. ASSUME NEW s \in CallbackOutcome, AlarmEnds(s)
      PROVE  k \in DOMAIN cell'.effects /\ cell'.effects[k] = cell.effects[k]
  <2>1. run # None /\ cell' = Concluded(s) /\ CopyIsBehind
    BY <1>2 DEF AlarmEnds, CellInv
  <2>2. run.copy \in Cell /\ cell \in Cell
    BY <2>1 DEF CellInv, CellTypeOK, CellRun
  <2>3. k \in DOMAIN run.copy.effects
    BY <2>1, <2>2, CellFields DEF CopyIsBehind, TerminalStatus
  <2>4. cell.effects[k] = run.copy.effects[k] /\ run.copy.effects[run.at].status \in OpenStatus
    BY <2>1, <2>3 DEF CopyIsBehind
  <2>5. k # run.at
    BY <2>4 DEF OpenStatus, TerminalStatus
  <2> QED BY <2>1, <2>3, <2>4, <2>5, ConcludedFields
<1>3. ASSUME cell' = cell
      PROVE  k \in DOMAIN cell'.effects /\ cell'.effects[k] = cell.effects[k]
  BY <1>3
<1> QED BY <1>1, <1>2, <1>3 DEF CellNext, Replay, AlarmFires, OwnerLost

\* An outcome once recorded is never lost, moved or rewritten, although
\* alarm() overwrites the stored cell with a copy that may be old.
THEOREM OutcomesAreKept == CellSpec => RecordedOutcomeKept
<1> DEFINE Kept == cell # None =>
                     \A k \in DOMAIN cell.effects :
                       cell.effects[k].status \in TerminalStatus =>
                         k \in DOMAIN cell'.effects /\ cell'.effects[k] = cell.effects[k]
<1>1. CellInv /\ [CellNext]_cellVars => [Kept]_cellVars
  BY OutcomeStep
<1> QED BY <1>1, CellInvariant, PTL DEF CellSpec, RecordedOutcomeKept

=============================================================================
