--------------------------- MODULE FleetGateProofs --------------------------
(***************************************************************************)
(* Proofs about the pause gate, for any managers, consoles and bounds.     *)
(***************************************************************************)
EXTENDS FleetGate, TLAPS

USE ActorsAssumption, ForcibleAssumption, BoundsAssumption DEF Actors

Labels == ManagerLabels \cup ConsoleLabels

LEMMA KeysDiffer ==
    /\ Requested # Paused
    /\ \A m : /\ Busy(m) # Requested /\ Busy(m) # Paused
              /\ Completed(m) # Requested /\ Completed(m) # Paused
    /\ \A m, n : Busy(m) # Completed(n)
    /\ \A m, n : m # n => Busy(m) # Busy(n) /\ Completed(m) # Completed(n)
BY DEF Requested, Paused, Busy, Completed

\* Whose label a set or a delete is.
LEMMA SavingLabels ==
    ASSUME NEW label \in DOMAIN Saving
    PROVE  /\ label \in ManagerLabels => Saving[label] \in ManagerLabels
           /\ label \in ConsoleLabels => Saving[label] \in ConsoleLabels
BY DEF Saving, ManagerLabels, ConsoleLabels, TryEnter, InSlot, Leaving

\* A step that moves one actor to a label of its own kind keeps pc well typed.
LEMMA GotoTyped ==
    ASSUME TypeOK, NEW x \in Actors, NEW l \in Labels, Goto(x, l),
           x \in Managers => l \in ManagerLabels,
           x \in Consoles => l \in ConsoleLabels
    PROVE  /\ pc' \in [Actors -> Labels]
           /\ \A m \in Managers : pc'[m] \in ManagerLabels
           /\ \A c \in Consoles : pc'[c] \in ConsoleLabels
BY DEF TypeOK, Goto, Labels

\* What a load and a save do to the types of the store.
StoreTyped ==
    /\ state \in SUBSET Keys /\ file \in [Actors -> SUBSET Keys]
    /\ stale \in SUBSET Watched /\ mishaps \in 0..MaxMishaps

LEMMA LoadTyped ==
    ASSUME TypeOK, NEW x \in Actors, NEW l, Load(x, l)
    PROVE  StoreTyped'
<1>1. mishaps' \in 0..MaxMishaps
  BY DEF Load, TypeOK
<1>2. QED
  BY <1>1 DEF Load, StoreTyped, TypeOK

LEMMA SaveTyped ==
    ASSUME TypeOK, NEW x \in Actors, NEW k \in Keys, Set(x, k) \/ Clear(x, k)
    PROVE  StoreTyped'
<1>1. file[x] \cup {k} \in SUBSET Keys /\ file[x] \ {k} \in SUBSET Keys
  BY DEF TypeOK
<1>2. Undone(x) \in SUBSET Watched
  BY DEF Undone
<1>3. QED
  BY <1>1, <1>2 DEF Set, Clear, Save, StoreTyped, TypeOK

LEMMA SetOtherTyped ==
    ASSUME TypeOK, NEW x \in Actors, SetOther(x)
    PROVE  StoreTyped'
<1>1. file[x] \in SUBSET Keys /\ Undone(x) \in SUBSET Watched
  BY DEF TypeOK, Undone
<1>2. QED
  BY <1>1 DEF SetOther, StoreTyped, TypeOK

LEMMA TypeInit == Init => TypeOK
<1> SUFFICES ASSUME Init PROVE TypeOK
  OBVIOUS
<1>1. "idle" \in ManagerLabels /\ "idle" \in ConsoleLabels
  BY DEF ManagerLabels, ConsoleLabels
<1>2. pc = [x \in Actors |-> "idle"] /\ back = [m \in Managers |-> "idle"]
  BY DEF Init
<1>3. 0 \in 0..MaxPauses /\ 0 \in 0..MaxMishaps
  OBVIOUS
<1>4. QED
  BY <1>1, <1>2, <1>3 DEF Init, TypeOK

\* The type invariant is kept by every step.
LEMMA TypeStep == TypeOK /\ [Next]_vars => TypeOK'
<1> SUFFICES ASSUME TypeOK, [Next]_vars PROVE TypeOK'
  OBVIOUS
<1> USE DEF Labels
<1>0. /\ \A m \in Managers : Busy(m) \in Keys /\ Busy(m) \in Watched /\ Completed(m) \in Keys
      /\ Requested \in Keys /\ Paused \in Keys
  BY DEF Keys, Watched
<1>1. ASSUME NEW m \in Managers, ManagerStep(m) PROVE TypeOK'
  <2> USE DEF ManagerLabels, TryEnter, InSlot, Leaving
  <2>0. back[m] \in {"idle", "ready", "work", "forced"} /\ pc[m] \in ManagerLabels
    BY DEF TypeOK
  <2>1. CASE TryEnterRequested(m) \/ TryEnterBusy(m)
    BY <2>0, <2>1, GotoTyped DEF TryEnterRequested, TryEnterBusy, Returns, store, counts, TypeOK
  <2>2. CASE TryEnterSet(m)
    <3>1. StoreTyped'
      BY <1>0, <2>2, SaveTyped DEF TryEnterSet
    <3>2. QED
      BY <2>0, <2>2, <3>1, GotoTyped DEF TryEnterSet, Returns, counts, StoreTyped, TypeOK
  <2>3. CASE LoopTick(m) \/ LoopCheck(m) \/ SlotCheck(m) \/ ForcedWork(m)
    BY <2>3, GotoTyped DEF LoopTick, LoopCheck, SlotCheck, ForcedWork, MayStart, Refused,
       CallTryEnter, store, counts, TypeOK
  <2>4. CASE SetBusy(m)
    <3>1. StoreTyped'
      BY <1>0, <2>4, SaveTyped DEF SetBusy
    <3>2. QED
      BY <2>4, <3>1, GotoTyped DEF SetBusy, CallTryEnter, counts, StoreTyped, TypeOK
  <2>5. CASE Dispatch(m)
    BY <2>5, GotoTyped DEF Dispatch, MayStart, Refused, store, counts, TypeOK
  <2>6. CASE Draft(m)
    BY <2>6 DEF Draft, store, counts, TypeOK
  <2>7. CASE SpecialistEnds(m)
    BY <2>7, GotoTyped DEF SpecialistEnds, store, counts, TypeOK
  <2>8. CASE RecordCompleted(m)
    <3>1. StoreTyped'
      BY <1>0, <2>8, SaveTyped DEF RecordCompleted
    <3>2. QED
      BY <2>8, <3>1, GotoTyped DEF RecordCompleted, counts, StoreTyped, TypeOK
  <2>9. CASE ClearBusy(m)
    <3>1. StoreTyped'
      <4>1. CASE Clear(m, Busy(m))
        BY <1>0, <4>1, SaveTyped
      <4>2. CASE file' = [file EXCEPT ![m] = {}] /\ UNCHANGED <<state, stale, mishaps>>
        BY <4>2 DEF StoreTyped, TypeOK
      <4>3. QED
        BY <2>9, <4>1, <4>2 DEF ClearBusy
    <3>2. QED
      BY <2>9, <3>1, GotoTyped DEF ClearBusy, CallTryEnter, counts, StoreTyped, TypeOK
  <2>10. CASE ManagerLoads(m)
    <3>1. PICK l \in ManagerLabels : Load(m, l)
      BY <2>0, <2>10, SavingLabels DEF ManagerLoads, LoadToSave
    <3>2. StoreTyped'
      BY <3>1, LoadTyped
    <3>3. Goto(m, l)
      BY <3>1 DEF Load
    <3>4. QED
      BY <2>10, <3>1, <3>2, <3>3, GotoTyped DEF ManagerLoads, counts, StoreTyped, TypeOK
  <2>11. QED
    BY <1>1, <2>1, <2>2, <2>3, <2>4, <2>5, <2>6, <2>7, <2>8, <2>9, <2>10 DEF ManagerStep
<1>2. ASSUME NEW m \in Managers, Crash(m) PROVE TypeOK'
  BY <1>0, <1>2, GotoTyped DEF Crash, counts, ManagerLabels, TypeOK
<1>3. ASSUME NEW c \in Consoles, WorkerStart(c) \/ PauseAnyBusy(c) PROVE TypeOK'
  BY <1>3, GotoTyped DEF WorkerStart, PauseAnyBusy, MayStart, Refused, store, counts, ConsoleLabels, TypeOK
<1>4. ASSUME NEW c \in Consoles,
             WorkerSets(c) \/ PauseRequested(c) \/ PauseAt(c) \/ PauseSet(c) \/ ResumeRequested(c)
             \/ ResumePaused(c)
      PROVE TypeOK'
  <2>1. StoreTyped'
    BY <1>0, <1>4, SaveTyped, SetOtherTyped
    DEF WorkerSets, PauseRequested, PauseAt, PauseSet, ResumeRequested, ResumePaused
  <2>2. PICK l \in ConsoleLabels : Goto(c, l)
    BY <1>4 DEF WorkerSets, PauseRequested, PauseAt, PauseSet, ResumeRequested, ResumePaused,
       ConsoleLabels
  <2>3. UNCHANGED <<ran, counts, back>>
    BY <1>4 DEF WorkerSets, PauseRequested, PauseAt, PauseSet, ResumeRequested, ResumePaused
  <2>4. QED
    BY <2>1, <2>2, <2>3, GotoTyped DEF counts, StoreTyped, TypeOK
<1>5. ASSUME NEW c \in Consoles, WorkerEnd(c) \/ RequestPause(c) \/ Resume(c) \/ ConsoleLoads(c) \/ ResumeAt(c)
      PROVE TypeOK'
  <2>1. pc[c] \in ConsoleLabels
    BY DEF TypeOK
  <2>2. PICK l \in ConsoleLabels :
          \/ Load(c, l)
          \/ Goto(c, l) /\ (SetOther(c) \/ UNCHANGED store)
    BY <1>5, <2>1, SavingLabels
    DEF WorkerEnd, RequestPause, Resume, ConsoleLoads, LoadToSave, ResumeAt, ConsoleLabels
  <2>3. StoreTyped'
    <3>1. CASE Load(c, l)
      BY <3>1, LoadTyped
    <3>2. CASE SetOther(c)
      BY <3>2, SetOtherTyped
    <3>3. CASE UNCHANGED store
      BY <3>3 DEF store, StoreTyped, TypeOK
    <3>4. QED
      BY <2>2, <3>1, <3>2, <3>3
  <2>4. Goto(c, l)
    BY <2>2 DEF Load
  <2>5. UNCHANGED <<ran, back>> /\ pauses' \in 0..MaxPauses /\ resumes' \in 0..MaxPauses
    BY <1>5 DEF WorkerEnd, RequestPause, Resume, ConsoleLoads, ResumeAt, counts, TypeOK
  <2>6. QED
    BY <2>2, <2>3, <2>4, <2>5, GotoTyped DEF StoreTyped, TypeOK
<1>6. CASE UNCHANGED vars
  BY <1>6 DEF vars, TypeOK
<1>7. QED
  BY <1>1, <1>2, <1>3, <1>4, <1>5, <1>6 DEF Next, CommandStep

\* Every variable of the gate keeps its type.
THEOREM TypeCorrect == Spec => []TypeOK
BY TypeInit, TypeStep, PTL DEF Spec

-----------------------------------------------------------------------------
(***************************************************************************)
(* What a step does to one key.  A set or a delete of k by x leaves every  *)
(* other watched key as it was, or marks it stale.                         *)
(***************************************************************************)
LEMMA SaveKeeps ==
    ASSUME NEW j \in Watched, NEW x \in Actors, NEW k,
           (j # k /\ (Set(x, k) \/ Clear(x, k))) \/ SetOther(x)
    PROVE  /\ j \in stale => j \in stale'
           /\ j \in state /\ j \notin state' => j \in stale'
           /\ j \notin state /\ j \in state' => j \in stale'
BY DEF Set, Clear, Save, SetOther, Undone

\* A step that is no save leaves the file alone.
Reads(x) ==
    /\ UNCHANGED state
    /\ stale \subseteq stale'

\* The saves of an actor, none of them of key j.
SavesOther(x, j) ==
    \/ \E k : k # j /\ (Set(x, k) \/ Clear(x, k))
    \/ SetOther(x)

LEMMA BusyKept ==
    ASSUME NEW n \in Managers, NEW x \in Actors, SavesOther(x, Busy(n)) \/ Reads(x),
           Busy(n) \in state \cup stale
    PROVE  Busy(n) \in state' \cup stale'
<1>1. Busy(n) \in Watched
  BY DEF Watched
<1>2. CASE Reads(x)
  BY <1>2 DEF Reads
<1>3. CASE SavesOther(x, Busy(n))
  BY <1>1, <1>3, SaveKeeps DEF SavesOther
<1>4. QED
  BY <1>2, <1>3

\* A manager saves no busy key but its own, and a console none.
LEMMA ManagerKeys ==
    ASSUME NEW m \in Managers, NEW n \in Managers, ManagerStep(m) \/ Crash(m),
           m # n \/ ~(SetBusy(m) \/ ClearBusy(m))
    PROVE  SavesOther(m, Busy(n)) \/ Reads(m)
<1> USE DEF store, counts
<1>1. CASE TryEnterSet(m) \/ RecordCompleted(m)
  BY <1>1, KeysDiffer DEF TryEnterSet, RecordCompleted, SavesOther
<1>2. CASE SetBusy(m) \/ ClearBusy(m)
  BY <1>2, KeysDiffer DEF SetBusy, ClearBusy, SavesOther, Reads
<1>3. CASE TryEnterRequested(m) \/ TryEnterBusy(m) \/ LoopTick(m) \/ LoopCheck(m) \/ SlotCheck(m)
           \/ ForcedWork(m) \/ Dispatch(m) \/ Draft(m) \/ SpecialistEnds(m)
  BY <1>3 DEF TryEnterRequested, TryEnterBusy, LoopTick, LoopCheck, SlotCheck, ForcedWork, Dispatch,
     Draft, SpecialistEnds, Reads
<1>4. CASE ManagerLoads(m) \/ Crash(m)
  BY <1>4 DEF ManagerLoads, LoadToSave, Load, Crash, Reads
<1>5. QED
  BY <1>1, <1>2, <1>3, <1>4 DEF ManagerStep

ConsoleStep(c) ==
    \/ WorkerStart(c) \/ WorkerEnd(c) \/ WorkerSets(c)
    \/ RequestPause(c) \/ Resume(c) \/ CommandStep(c)

LEMMA ConsoleKeys ==
    ASSUME NEW c \in Consoles, NEW n \in Managers, ConsoleStep(c)
    PROVE  SavesOther(c, Busy(n)) \/ Reads(c)
<1> USE DEF store, counts
<1>1. CASE WorkerSets(c) \/ PauseRequested(c) \/ PauseAt(c) \/ PauseSet(c) \/ ResumeRequested(c)
           \/ ResumePaused(c)
  BY <1>1, KeysDiffer DEF WorkerSets, PauseRequested, PauseAt, PauseSet, ResumeRequested,
     ResumePaused, SavesOther
<1>2. CASE WorkerStart(c) \/ WorkerEnd(c) \/ RequestPause(c) \/ Resume(c) \/ PauseAnyBusy(c)
           \/ ConsoleLoads(c)
  BY <1>2 DEF WorkerStart, WorkerEnd, RequestPause, Resume, PauseAnyBusy, ConsoleLoads,
     LoadToSave, Load, Reads
<1>3. CASE ResumeAt(c)
  BY <1>3 DEF ResumeAt, Load, Reads, SavesOther
<1>4. QED
  BY <1>1, <1>2, <1>3 DEF ConsoleStep, CommandStep

\* A step moves the actor that takes it, and of the managers no other's back.
LEMMA ManagerMoves ==
    ASSUME TypeOK, NEW m \in Managers, ManagerStep(m) \/ Crash(m)
    PROVE  /\ \A x \in Actors \ {m} : pc'[x] = pc[x]
           /\ \A n \in Managers \ {m} : back'[n] = back[n]
<1>1. (\E l : Goto(m, l)) \/ UNCHANGED pc
  BY DEF ManagerStep, TryEnterRequested, TryEnterBusy, TryEnterSet, LoopTick, LoopCheck, SlotCheck,
     ForcedWork, SetBusy, Dispatch, Draft, SpecialistEnds, RecordCompleted, ClearBusy, ManagerLoads,
     LoadToSave, Load, Crash, CallTryEnter, Returns, MayStart, Refused
<1>2. (\E l : back' = [back EXCEPT ![m] = l]) \/ UNCHANGED back
  BY DEF ManagerStep, TryEnterRequested, TryEnterBusy, TryEnterSet, LoopTick, LoopCheck, SlotCheck,
     ForcedWork, SetBusy, Dispatch, Draft, SpecialistEnds, RecordCompleted, ClearBusy, ManagerLoads,
     Crash, CallTryEnter, Returns
<1>3. pc \in [Actors -> Labels] /\ back \in [Managers -> {"idle", "ready", "work", "forced"}]
  BY DEF TypeOK, Labels
<1>4. \A x \in Actors \ {m} : pc'[x] = pc[x]
  BY <1>1, <1>3 DEF Goto
<1>5. QED
  BY <1>2, <1>3, <1>4

LEMMA ConsoleMoves ==
    ASSUME TypeOK, NEW c \in Consoles, ConsoleStep(c)
    PROVE  /\ \A x \in Actors \ {c} : pc'[x] = pc[x]
           /\ UNCHANGED back
<1>1. \E l : Goto(c, l)
  BY DEF ConsoleStep, CommandStep, WorkerStart, WorkerEnd, WorkerSets, RequestPause, Resume,
     PauseRequested, PauseAt, PauseAnyBusy, PauseSet, ResumeRequested, ResumePaused, ResumeAt,
     ConsoleLoads, LoadToSave, Load, MayStart, Refused
<1>2. pc \in [Actors -> Labels]
  BY DEF TypeOK, Labels
<1>3. UNCHANGED back
  BY DEF ConsoleStep, CommandStep, WorkerStart, WorkerEnd, WorkerSets, RequestPause, Resume,
     PauseRequested, PauseAt, PauseAnyBusy, PauseSet, ResumeRequested, ResumePaused, ResumeAt,
     ConsoleLoads
<1>4. QED
  BY <1>1, <1>2, <1>3 DEF Goto

LEMMA NextActors ==
    ASSUME Next
    PROVE  \/ \E m \in Managers : ManagerStep(m) \/ Crash(m)
           \/ \E c \in Consoles : ConsoleStep(c)
BY DEF Next, ConsoleStep

-----------------------------------------------------------------------------
(***************************************************************************)
(* BusyCoversWork is inductive with the type invariant: the key is set     *)
(* before the slot is entered and deleted when it is left, and whoever     *)
(* else takes it away does so with an overlapping save.                    *)
(***************************************************************************)
Inside(m) == pc[m] \in InSlot \cup Leaving \/ (pc[m] \in TryEnter /\ back[m] = "work")

LEMMA BusyStep == TypeOK /\ BusyCoversWork /\ [Next]_vars => BusyCoversWork'
<1> SUFFICES ASSUME TypeOK, BusyCoversWork, [Next]_vars, NEW n \in Managers, Inside(n)'
             PROVE  Busy(n) \in state' \cup stale'
  BY DEF BusyCoversWork, Inside
<1>0. /\ Inside(n) => Busy(n) \in state \cup stale
      /\ pc \in [Actors -> Labels] /\ pc[n] \in ManagerLabels
      /\ back \in [Managers -> {"idle", "ready", "work", "forced"}]
  BY DEF BusyCoversWork, Inside, TypeOK, Labels
<1>1. ASSUME NEW x \in Actors, SavesOther(x, Busy(n)) \/ Reads(x), Inside(n)
      PROVE  Busy(n) \in state' \cup stale'
  BY <1>0, <1>1, BusyKept
<1>2. ASSUME NEW m \in Managers, m # n, ManagerStep(m) \/ Crash(m)
      PROVE  Busy(n) \in state' \cup stale'
  <2>1. Inside(n)
    BY <1>2, ManagerMoves DEF Inside
  <2>2. QED
    BY <1>1, <1>2, <2>1, ManagerKeys
<1>3. ASSUME ManagerStep(n) \/ Crash(n)
      PROVE  Busy(n) \in state' \cup stale'
  <2> USE DEF InSlot, Leaving, TryEnter, ManagerLabels
  <2>1. CASE SetBusy(n)
    BY <2>1 DEF SetBusy, Set, Save
  <2>2. CASE ClearBusy(n)
    BY <1>0, <2>2 DEF ClearBusy, CallTryEnter, Goto, Inside
  <2>3. CASE Crash(n)
    BY <1>0, <2>3 DEF Crash, Goto, Inside
  <2>4. CASE TryEnterRequested(n) \/ TryEnterBusy(n) \/ TryEnterSet(n)
    <3>1. Inside(n)
      BY <1>0, <2>4 DEF TryEnterRequested, TryEnterBusy, TryEnterSet, Returns, Goto, Inside
    <3>2. QED
      BY <1>1, <2>4, <3>1, ManagerKeys DEF ManagerStep, TryEnterRequested, TryEnterBusy, TryEnterSet,
         SetBusy, ClearBusy
  <2>5. CASE LoopTick(n) \/ LoopCheck(n) \/ SlotCheck(n) \/ ForcedWork(n)
    BY <1>0, <2>5 DEF LoopTick, LoopCheck, SlotCheck, ForcedWork, MayStart, Refused, CallTryEnter,
       Goto, Inside
  <2>6. CASE Dispatch(n) \/ Draft(n) \/ SpecialistEnds(n) \/ RecordCompleted(n)
    <3>1. Inside(n)
      BY <1>0, <2>6 DEF Dispatch, Draft, SpecialistEnds, RecordCompleted, MayStart, Refused, Inside
    <3>2. QED
      BY <1>1, <2>6, <3>1, ManagerKeys DEF ManagerStep, Dispatch, Draft, SpecialistEnds,
         RecordCompleted, MayStart, Refused, SetBusy, ClearBusy
  <2>7. CASE ManagerLoads(n)
    <3>1. Inside(n)
      BY <1>0, <2>7 DEF ManagerLoads, LoadToSave, Load, Saving, Goto, Inside
    <3>2. QED
      BY <1>1, <2>7, <3>1 DEF ManagerLoads, LoadToSave, Load, Reads
  <2>8. QED
    BY <1>3, <2>1, <2>2, <2>3, <2>4, <2>5, <2>6, <2>7 DEF ManagerStep
<1>4. ASSUME NEW c \in Consoles, ConsoleStep(c)
      PROVE  Busy(n) \in state' \cup stale'
  <2>1. Inside(n)
    BY <1>4, ConsoleMoves DEF Inside
  <2>2. QED
    BY <1>1, <1>4, <2>1, ConsoleKeys
<1>5. CASE UNCHANGED vars
  BY <1>0, <1>5 DEF vars, Inside
<1>6. QED
  BY <1>2, <1>3, <1>4, <1>5, NextActors

\* any_busy overlooks a manager inside its slot only if an overlapping save
\* has taken its key away.
THEOREM BusyCovers == Spec => []BusyCoversWork
<1>1. Init => BusyCoversWork
  BY DEF Init, BusyCoversWork, InSlot, Leaving, TryEnter
<1>2. QED
  BY <1>1, BusyStep, TypeCorrect, PTL DEF Spec

-----------------------------------------------------------------------------
(***************************************************************************)
(* Where a key can come from: a step that does not set it puts it in the   *)
(* file, or in a copy, only if one of them has it already.                 *)
(***************************************************************************)
Known(j) == j \in state \/ \E x \in Actors : j \in file[x]

SetsNot(x, j) ==
    \/ \E l : Load(x, l)
    \/ \E k : (k # j /\ Set(x, k)) \/ Clear(x, k)
    \/ SetOther(x)
    \/ UNCHANGED state /\ (UNCHANGED file \/ file' = [file EXCEPT ![x] = {}])

LEMMA KnownBefore ==
    ASSUME TypeOK, NEW x \in Actors, NEW j, SetsNot(x, j), Known(j)'
    PROVE  Known(j)
<1>1. file \in [Actors -> SUBSET Keys]
  BY DEF TypeOK
<1>2. /\ j \in state' => j \in state \/ j \in file[x]
      /\ \A y \in Actors : j \in file'[y] => j \in file[y] \/ j \in state
  BY <1>1 DEF SetsNot, Load, Set, Clear, Save, SetOther
<1>3. QED
  BY <1>2 DEF Known

LEMMA ManagerSetsNot ==
    ASSUME NEW m \in Managers, ManagerStep(m) \/ Crash(m)
    PROVE  /\ SetsNot(m, Requested)
           /\ SetsNot(m, Paused) \/ TryEnterSet(m)
           /\ \A n \in Managers : SetsNot(m, Completed(n)) \/ (n = m /\ RecordCompleted(m))
<1> USE DEF store, counts
<1>1. CASE TryEnterSet(m) \/ RecordCompleted(m) \/ SetBusy(m)
  BY <1>1, KeysDiffer DEF TryEnterSet, RecordCompleted, SetBusy, SetsNot
<1>2. CASE ClearBusy(m) \/ ManagerLoads(m) \/ Crash(m)
  BY <1>2 DEF ClearBusy, ManagerLoads, LoadToSave, Crash, SetsNot
<1>3. CASE TryEnterRequested(m) \/ TryEnterBusy(m) \/ LoopTick(m) \/ LoopCheck(m) \/ SlotCheck(m)
           \/ ForcedWork(m) \/ Dispatch(m) \/ Draft(m) \/ SpecialistEnds(m)
  BY <1>3 DEF TryEnterRequested, TryEnterBusy, LoopTick, LoopCheck, SlotCheck, ForcedWork, Dispatch,
     Draft, SpecialistEnds, SetsNot
<1>4. QED
  BY <1>1, <1>2, <1>3 DEF ManagerStep

LEMMA ConsoleSetsNot ==
    ASSUME NEW c \in Consoles, ConsoleStep(c)
    PROVE  /\ SetsNot(c, Requested) \/ PauseRequested(c)
           /\ SetsNot(c, Paused) \/ PauseSet(c)
           /\ \A n \in Managers : SetsNot(c, Completed(n))
<1> USE DEF store, counts
<1>1. CASE PauseRequested(c) \/ PauseSet(c)
  BY <1>1, KeysDiffer DEF PauseRequested, PauseSet, SetsNot
<1>2. CASE WorkerSets(c) \/ PauseAt(c) \/ ResumeRequested(c) \/ ResumePaused(c)
  BY <1>2 DEF WorkerSets, PauseAt, ResumeRequested, ResumePaused, SetsNot
<1>3. CASE WorkerStart(c) \/ PauseAnyBusy(c)
  BY <1>3 DEF WorkerStart, PauseAnyBusy, SetsNot
<1>4. CASE WorkerEnd(c) \/ RequestPause(c) \/ Resume(c) \/ ConsoleLoads(c) \/ ResumeAt(c)
  BY <1>4 DEF WorkerEnd, RequestPause, Resume, ConsoleLoads, LoadToSave, ResumeAt, SetsNot
<1>5. QED
  BY <1>1, <1>2, <1>3, <1>4 DEF ConsoleStep, CommandStep

\* What the console labels of a pause that has been requested are.
Pausing == {"rp_at", "rp_ating", "rp_busy", "rp_set", "rp_setting"}

NoFlags == ~Known(Requested) /\ ~Known(Paused)
NobodyEnters == \A m \in Managers : pc[m] \notin {"te_busy", "te_set", "te_setting"}

\* Without flags no manager gets to the paused flag.
LEMMA ManagerKeepsCalm ==
    ASSUME TypeOK, NoFlags, NobodyEnters, NEW m \in Managers, ManagerStep(m) \/ Crash(m)
    PROVE  NoFlags' /\ NobodyEnters'
<1>1. ~TryEnterSet(m)
  BY DEF NobodyEnters, TryEnterSet
<1>2. NoFlags'
  BY <1>1, ManagerSetsNot, KnownBefore DEF NoFlags
<1>3. pc'[m] \notin {"te_busy", "te_set", "te_setting"}
  <2> USE DEF store, counts, Goto
  <2>0. /\ Requested \notin state /\ pc[m] \notin {"te_busy", "te_set", "te_setting"}
        /\ pc \in [Actors -> Labels]
        /\ back[m] \in {"idle", "ready", "work", "forced"}
    BY DEF NoFlags, Known, NobodyEnters, TypeOK, Labels
  <2>1. CASE TryEnterRequested(m) \/ TryEnterBusy(m)
    BY <2>0, <2>1 DEF TryEnterRequested, TryEnterBusy, Returns
  <2>2. CASE LoopTick(m) \/ LoopCheck(m) \/ SlotCheck(m) \/ ForcedWork(m)
    BY <2>0, <2>2 DEF LoopTick, LoopCheck, SlotCheck, ForcedWork, MayStart, Refused, CallTryEnter
  <2>3. CASE SetBusy(m) \/ ClearBusy(m) \/ RecordCompleted(m) \/ Crash(m)
    BY <2>0, <2>3 DEF SetBusy, ClearBusy, RecordCompleted, Crash, CallTryEnter
  <2>4. CASE Dispatch(m) \/ Draft(m) \/ SpecialistEnds(m)
    BY <2>0, <2>4 DEF Dispatch, Draft, SpecialistEnds, MayStart, Refused
  <2>5. CASE ManagerLoads(m)
    BY <2>0, <2>5 DEF ManagerLoads, LoadToSave, Load, Saving
  <2>6. QED
    BY <1>1, <2>1, <2>2, <2>3, <2>4, <2>5 DEF ManagerStep
<1>4. QED
  BY <1>2, <1>3, ManagerMoves DEF NobodyEnters

-----------------------------------------------------------------------------
(***************************************************************************)
(* Before the first pause request nobody is refused: neither flag is set   *)
(* nor about to be, so whoever records a period has run its specialist, in *)
(* this run or in one that was cut short.                                  *)
(***************************************************************************)
Calm ==
    /\ NoFlags /\ NobodyEnters
    /\ \A c \in Consoles : pc[c] \in {"idle", "asked", "working", "setting"}
    /\ \A m \in Managers : pc[m] \in {"record", "recording"} => m \in ran
    /\ \A m \in Managers : Known(Completed(m)) => m \in ran

CalmInv == TypeOK /\ (pauses = 0 => Calm)

LEMMA CalmManagerStep ==
    ASSUME TypeOK, Calm, NEW m \in Managers, ManagerStep(m) \/ Crash(m)
    PROVE  Calm'
<1>1. NoFlags' /\ NobodyEnters'
  BY ManagerKeepsCalm DEF Calm
<1>2. \A c \in Consoles : pc'[c] = pc[c]
  BY ManagerMoves
<1>3. ran \subseteq ran'
  BY DEF ManagerStep, TryEnterRequested, TryEnterBusy, TryEnterSet, LoopTick, LoopCheck, SlotCheck,
     ForcedWork, SetBusy, Dispatch, Draft, SpecialistEnds, RecordCompleted, ClearBusy, ManagerLoads,
     Crash
<1>4. pc'[m] \in {"record", "recording"} => m \in ran'
  <2> USE DEF Goto
  <2>0. /\ Requested \notin state /\ Paused \notin state /\ pc \in [Actors -> Labels]
        /\ pc[m] \in {"record", "recording"} => m \in ran
        /\ back[m] \notin {"record", "recording"}
    BY DEF Calm, NoFlags, Known, TypeOK, Labels
  <2>1. CASE Dispatch(m)
    BY <2>0, <2>1 DEF Dispatch, MayStart, Refused
  <2>2. CASE SpecialistEnds(m) \/ Draft(m)
    BY <2>0, <2>2 DEF SpecialistEnds, Draft
  <2>3. CASE TryEnterRequested(m) \/ TryEnterBusy(m) \/ TryEnterSet(m)
    BY <2>0, <2>3 DEF TryEnterRequested, TryEnterBusy, TryEnterSet, Returns
  <2>4. CASE LoopTick(m) \/ LoopCheck(m) \/ SlotCheck(m) \/ ForcedWork(m)
    BY <2>0, <2>4 DEF LoopTick, LoopCheck, SlotCheck, ForcedWork, MayStart, Refused, CallTryEnter
  <2>5. CASE SetBusy(m) \/ ClearBusy(m) \/ RecordCompleted(m) \/ Crash(m)
    BY <2>0, <2>5 DEF SetBusy, ClearBusy, RecordCompleted, Crash, CallTryEnter
  <2>6. CASE ManagerLoads(m)
    BY <1>3, <2>0, <2>6 DEF ManagerLoads, LoadToSave, Load, Saving
  <2>7. QED
    BY <2>1, <2>2, <2>3, <2>4, <2>5, <2>6 DEF ManagerStep
<1>5. \A n \in Managers : Known(Completed(n))' => n \in ran'
  <2>1. ASSUME NEW n \in Managers, Known(Completed(n))', SetsNot(m, Completed(n))
        PROVE  n \in ran'
    BY <1>3, <2>1, KnownBefore DEF Calm
  <2>2. RecordCompleted(m) => m \in ran
    BY DEF RecordCompleted, Calm
  <2>3. QED
    BY <1>3, <2>1, <2>2, ManagerSetsNot
<1>6. QED
  BY <1>1, <1>2, <1>3, <1>4, <1>5, ManagerMoves DEF Calm

LEMMA CalmConsoleStep ==
    ASSUME TypeOK, Calm, NEW c \in Consoles, ConsoleStep(c), pauses' = 0, pauses = 0
    PROVE  Calm'
<1>1. WorkerStart(c) \/ WorkerEnd(c) \/ WorkerSets(c)
  <2>1. ~RequestPause(c) /\ ~Resume(c)
    BY DEF RequestPause, Resume, TypeOK
  <2>2. ~CommandStep(c)
    BY DEF Calm, CommandStep, PauseRequested, PauseAt, PauseAnyBusy, PauseSet, ResumeRequested,
       ResumePaused, ResumeAt, ConsoleLoads, LoadToSave, Saving
  <2>3. QED
    BY <2>1, <2>2 DEF ConsoleStep
<1>2. SetsNot(c, Requested) /\ SetsNot(c, Paused) /\ \A n \in Managers : SetsNot(c, Completed(n))
  BY <1>1 DEF WorkerStart, WorkerEnd, WorkerSets, SetsNot, store
<1>3. NoFlags' /\ \A m \in Managers : Known(Completed(m))' => Known(Completed(m))
  BY <1>2, KnownBefore DEF Calm, NoFlags
<1>4. pc'[c] \in {"idle", "asked", "working", "setting"} /\ UNCHANGED ran
  <2>1. pc \in [Actors -> Labels]
    BY DEF TypeOK, Labels
  <2>2. QED
    BY <1>1, <2>1 DEF WorkerStart, WorkerEnd, WorkerSets, MayStart, Refused, Load, Goto
<1>5. QED
  BY <1>3, <1>4, ConsoleMoves DEF Calm, NobodyEnters

LEMMA CalmStep == CalmInv /\ [Next]_vars => CalmInv'
<1> SUFFICES ASSUME CalmInv, [Next]_vars, pauses' = 0 PROVE Calm'
  BY TypeStep DEF CalmInv
<1>1. CASE UNCHANGED vars
  BY <1>1 DEF vars, CalmInv, Calm, NoFlags, NobodyEnters, Known
<1>2. ASSUME NEW m \in Managers, ManagerStep(m) \/ Crash(m) PROVE Calm'
  <2>1. pauses' = pauses
    BY <1>2 DEF ManagerStep, TryEnterRequested, TryEnterBusy, TryEnterSet, LoopTick, LoopCheck,
       SlotCheck, ForcedWork, SetBusy, Dispatch, Draft, SpecialistEnds, RecordCompleted, ClearBusy,
       ManagerLoads, Crash, counts
  <2>2. QED
    BY <1>2, <2>1, CalmManagerStep DEF CalmInv
<1>3. ASSUME NEW c \in Consoles, ConsoleStep(c) PROVE Calm'
  <2>1. pauses = 0
    <3>1. pauses' = pauses \/ pauses' = pauses + 1
      BY <1>3 DEF ConsoleStep, CommandStep, WorkerStart, WorkerEnd, WorkerSets, RequestPause, Resume,
         PauseRequested, PauseAt, PauseAnyBusy, PauseSet, ResumeRequested, ResumePaused, ResumeAt,
         ConsoleLoads, counts
    <3>2. QED
      BY <3>1 DEF CalmInv, TypeOK
  <2>2. QED
    BY <1>3, <2>1, CalmConsoleStep DEF CalmInv
<1>4. QED
  BY <1>1, <1>2, <1>3, NextActors

\* Without a pause, every manager that has recorded its period has had its
\* specialist run, however many are killed, see their specialist raise or
\* overlap in their saves.
THEOREM CompletedCorrect == Spec => []CompletedMeansRan
<1>1. Init => CalmInv
  BY TypeInit DEF CalmInv, Calm, NoFlags, NobodyEnters, Known, Init
<1>2. CalmInv => CompletedMeansRan
  BY DEF CalmInv, Calm, Known, CompletedMeansRan
<1>3. QED
  BY <1>1, <1>2, CalmStep, PTL DEF Spec

-----------------------------------------------------------------------------
(***************************************************************************)
(* PausedMeansSpecialistsDone, for the first pause.  It is not inductive:  *)
(* what makes it true is that whoever is about to set the paused flag, or  *)
(* holds a copy of the file with the flag, saw no busy key while the pause *)
(* was already requested, and that from the request on no specialist gets  *)
(* past its own check.  The bound on pauses matters: an actor can still be *)
(* about to set the flag for an earlier pause when a later one is asked    *)
(* for.                                                                    *)
(***************************************************************************)
NotYet == pauses = 0 \/ \E c \in Consoles : pc[c] = "requesting"

\* Until the request is saved there is no trace of a pause.
BeforePause ==
    /\ NotYet => NoFlags /\ NobodyEnters /\ \A c \in Consoles : pc[c] \notin Pausing
    /\ pauses = 0 => \A c \in Consoles : pc[c] # "requesting"
    /\ \A c, d \in Consoles : pc[c] = "requesting" /\ pc[d] = "requesting" => c = d

AboutToPause == \/ \E m \in Managers : pc[m] \in {"te_set", "te_setting"}
                \/ \E c \in Consoles : pc[c] \in {"rp_set", "rp_setting"}

SpecialistsDone ==
    \A m \in Managers \ Direct : pc[m] \in {"work2", "run"} => Busy(m) \in stale

InForce == Requested \in state /\ Requested \notin stale

PauseInv ==
    /\ BeforePause
    /\ InForce /\ (Known(Paused) \/ AboutToPause) => SpecialistsDone

\* Nobody brings the request back in force but the command that asks for it.
LEMMA InForceBefore ==
    ASSUME NEW x \in Actors, SavesOther(x, Requested) \/ Reads(x), InForce'
    PROVE  InForce
BY SaveKeeps DEF SavesOther, Reads, InForce, Watched

LEMMA ManagerSavesRequested ==
    ASSUME NEW m \in Managers, ManagerStep(m) \/ Crash(m)
    PROVE  SavesOther(m, Requested) \/ Reads(m)
<1> USE DEF store, counts
<1>1. CASE TryEnterSet(m) \/ RecordCompleted(m) \/ SetBusy(m) \/ ClearBusy(m)
  BY <1>1, KeysDiffer DEF TryEnterSet, RecordCompleted, SetBusy, ClearBusy, SavesOther, Reads
<1>2. CASE TryEnterRequested(m) \/ TryEnterBusy(m) \/ LoopTick(m) \/ LoopCheck(m) \/ SlotCheck(m)
           \/ ForcedWork(m) \/ Dispatch(m) \/ Draft(m) \/ SpecialistEnds(m)
  BY <1>2 DEF TryEnterRequested, TryEnterBusy, LoopTick, LoopCheck, SlotCheck, ForcedWork, Dispatch,
     Draft, SpecialistEnds, Reads
<1>3. CASE ManagerLoads(m) \/ Crash(m)
  BY <1>3 DEF ManagerLoads, LoadToSave, Load, Crash, Reads
<1>4. QED
  BY <1>1, <1>2, <1>3 DEF ManagerStep

\* While a request is in the file a manager's step adds no specialist.
LEMMA ManagerKeepsDone ==
    ASSUME TypeOK, SpecialistsDone, Requested \in state,
           NEW m \in Managers, ManagerStep(m) \/ Crash(m)
    PROVE  SpecialistsDone'
<1> SUFFICES ASSUME NEW n \in Managers \ Direct, pc'[n] \in {"work2", "run"}
             PROVE  Busy(n) \in stale'
  BY DEF SpecialistsDone
<1>0. Busy(n) \in Watched
  BY DEF Watched
<1>1. ASSUME pc[n] \in {"work2", "run"}, m # n \/ ~(SetBusy(m) \/ ClearBusy(m))
      PROVE  Busy(n) \in stale'
  BY <1>0, <1>1, ManagerKeys, SaveKeeps DEF SpecialistsDone, SavesOther, Reads
<1>2. CASE m # n
  BY <1>1, <1>2, ManagerMoves
<1>3. CASE m = n
  <2> USE DEF Goto
  <2>0. pc \in [Actors -> Labels] /\ back[m] \notin {"work2", "run"}
    BY DEF TypeOK, Labels
  <2>1. CASE SetBusy(m) \/ ClearBusy(m) \/ RecordCompleted(m) \/ Crash(m)
    BY <1>3, <2>0, <2>1 DEF SetBusy, ClearBusy, RecordCompleted, Crash, CallTryEnter
  <2>2. CASE TryEnterRequested(m) \/ TryEnterBusy(m) \/ TryEnterSet(m)
    BY <1>3, <2>0, <2>2 DEF TryEnterRequested, TryEnterBusy, TryEnterSet, Returns
  <2>3. CASE LoopTick(m) \/ LoopCheck(m) \/ SlotCheck(m) \/ ForcedWork(m)
    BY <1>3, <2>0, <2>3 DEF LoopTick, LoopCheck, SlotCheck, ForcedWork, MayStart, Refused,
       CallTryEnter
  <2>4. CASE ManagerLoads(m)
    BY <1>3, <2>0, <2>4 DEF ManagerLoads, LoadToSave, Load, Saving
  <2>5. CASE Dispatch(m) \/ Draft(m) \/ SpecialistEnds(m)
    <3>1. pc[n] \in {"work2", "run"}
      BY <1>3, <2>0, <2>5 DEF Dispatch, Draft, SpecialistEnds, MayStart, Refused
    <3>2. ~SetBusy(m) /\ ~ClearBusy(m)
      BY <1>3, <3>1 DEF SetBusy, ClearBusy
    <3>3. QED
      BY <1>1, <3>1, <3>2
  <2>6. QED
    BY <2>1, <2>2, <2>3, <2>4, <2>5 DEF ManagerStep
<1>4. QED
  BY <1>2, <1>3

\* Whoever gets to the paused flag saw no busy key, or somebody was there before.
LEMMA ManagerEnters ==
    ASSUME TypeOK, NEW m \in Managers, ManagerStep(m) \/ Crash(m),
           (Known(Paused) \/ AboutToPause)', ~(TryEnterBusy(m) /\ ~AnyBusy)
    PROVE  Known(Paused) \/ AboutToPause
<1>0. pc \in [Actors -> Labels] /\ back[m] \notin {"te_set", "te_setting"}
  BY DEF TypeOK, Labels
<1>1. CASE Known(Paused)'
  <2>1. CASE TryEnterSet(m)
    BY <2>1 DEF TryEnterSet, AboutToPause
  <2>2. CASE SetsNot(m, Paused)
    BY <1>1, <2>2, KnownBefore
  <2>3. QED
    BY <2>1, <2>2, ManagerSetsNot
<1>2. CASE \E c \in Consoles : pc'[c] \in {"rp_set", "rp_setting"}
  BY <1>2, ManagerMoves DEF AboutToPause
<1>3. ASSUME NEW n \in Managers, n # m, pc'[n] \in {"te_set", "te_setting"}
      PROVE  AboutToPause
  BY <1>3, ManagerMoves DEF AboutToPause
<1>4. CASE pc'[m] \in {"te_set", "te_setting"}
  <2> USE DEF Goto
  <2>1. CASE TryEnterRequested(m) \/ TryEnterBusy(m) \/ TryEnterSet(m)
    BY <1>0, <1>4, <2>1 DEF TryEnterRequested, TryEnterBusy, TryEnterSet, Returns
  <2>2. CASE SetBusy(m) \/ ClearBusy(m) \/ RecordCompleted(m) \/ Crash(m)
    BY <1>0, <1>4, <2>2 DEF SetBusy, ClearBusy, RecordCompleted, Crash, CallTryEnter
  <2>3. CASE LoopTick(m) \/ LoopCheck(m) \/ SlotCheck(m) \/ ForcedWork(m)
    BY <1>0, <1>4, <2>3 DEF LoopTick, LoopCheck, SlotCheck, ForcedWork, MayStart, Refused,
       CallTryEnter
  <2>4. CASE ManagerLoads(m)
    BY <1>0, <1>4, <2>4 DEF ManagerLoads, LoadToSave, Load, Saving, AboutToPause
  <2>5. CASE Dispatch(m) \/ Draft(m) \/ SpecialistEnds(m)
    BY <1>0, <1>4, <2>5 DEF Dispatch, Draft, SpecialistEnds, MayStart, Refused, AboutToPause
  <2>6. QED
    BY <2>1, <2>2, <2>3, <2>4, <2>5 DEF ManagerStep
<1>5. QED
  BY <1>1, <1>2, <1>3, <1>4 DEF AboutToPause

\* Without a busy key in the file, whoever runs has lost it.
LEMMA NobodyBusy ==
    ASSUME BusyCoversWork, ~AnyBusy
    PROVE  SpecialistsDone
BY DEF BusyCoversWork, AnyBusy, SpecialistsDone, InSlot

LEMMA PauseManagerStep ==
    ASSUME TypeOK, BusyCoversWork, PauseInv, NEW m \in Managers, ManagerStep(m) \/ Crash(m)
    PROVE  PauseInv'
<1>1. UNCHANGED pauses
  BY DEF ManagerStep, TryEnterRequested, TryEnterBusy, TryEnterSet, LoopTick, LoopCheck, SlotCheck,
     ForcedWork, SetBusy, Dispatch, Draft, SpecialistEnds, RecordCompleted, ClearBusy, ManagerLoads,
     Crash, counts
<1>2. \A c \in Consoles : pc'[c] = pc[c]
  BY ManagerMoves
<1>3. BeforePause'
  BY <1>1, <1>2, ManagerKeepsCalm DEF PauseInv, BeforePause, NotYet
<1>4. ASSUME InForce', (Known(Paused) \/ AboutToPause)'
      PROVE  SpecialistsDone'
  <2>1. InForce
    BY <1>4, ManagerSavesRequested, InForceBefore
  <2>2. SpecialistsDone
    BY <1>4, <2>1, ManagerEnters, NobodyBusy DEF PauseInv
  <2>3. QED
    BY <2>1, <2>2, ManagerKeepsDone DEF InForce
<1>5. QED
  BY <1>3, <1>4 DEF PauseInv

-----------------------------------------------------------------------------
(* The steps of a console *)

\* A console moves no manager, and saves no busy key.
LEMMA ConsoleKeepsDone ==
    ASSUME TypeOK, SpecialistsDone, NEW c \in Consoles, ConsoleStep(c)
    PROVE  SpecialistsDone'
<1> SUFFICES ASSUME NEW n \in Managers \ Direct, pc'[n] \in {"work2", "run"}
             PROVE  Busy(n) \in stale'
  BY DEF SpecialistsDone
<1>1. Busy(n) \in Watched /\ Busy(n) \in stale
  BY ConsoleMoves DEF SpecialistsDone, Watched
<1>2. QED
  BY <1>1, ConsoleKeys, SaveKeeps DEF SavesOther, Reads

LEMMA ConsoleEnters ==
    ASSUME TypeOK, NEW c \in Consoles, ConsoleStep(c),
           (Known(Paused) \/ AboutToPause)', ~(PauseAnyBusy(c) /\ ~AnyBusy)
    PROVE  Known(Paused) \/ AboutToPause
<1>0. pc \in [Actors -> Labels]
  BY DEF TypeOK, Labels
<1>1. CASE Known(Paused)'
  <2>1. CASE PauseSet(c)
    BY <2>1 DEF PauseSet, AboutToPause
  <2>2. CASE SetsNot(c, Paused)
    BY <1>1, <2>2, KnownBefore
  <2>3. QED
    BY <2>1, <2>2, ConsoleSetsNot
<1>2. ASSUME NEW x \in Actors, x # c, pc'[x] \in {"te_set", "te_setting", "rp_set", "rp_setting"}
      PROVE  pc[x] = pc'[x]
  BY <1>2, ConsoleMoves
<1>3. CASE pc'[c] \in {"rp_set", "rp_setting"}
  <2> USE DEF Goto
  <2>1. CASE WorkerStart(c) \/ WorkerEnd(c) \/ WorkerSets(c) \/ RequestPause(c) \/ Resume(c)
    BY <1>0, <1>3, <2>1 DEF WorkerStart, WorkerEnd, WorkerSets, RequestPause, Resume, MayStart,
       Refused, Load
  <2>2. CASE PauseRequested(c) \/ PauseAt(c) \/ PauseAnyBusy(c) \/ PauseSet(c)
    BY <1>0, <1>3, <2>2 DEF PauseRequested, PauseAt, PauseAnyBusy, PauseSet
  <2>3. CASE ResumeRequested(c) \/ ResumePaused(c) \/ ResumeAt(c)
    BY <1>0, <1>3, <2>3 DEF ResumeRequested, ResumePaused, ResumeAt, Load
  <2>4. CASE ConsoleLoads(c)
    BY <1>0, <1>3, <2>4 DEF ConsoleLoads, LoadToSave, Load, Saving, AboutToPause
  <2>5. QED
    BY <2>1, <2>2, <2>3, <2>4 DEF ConsoleStep, CommandStep
<1>4. QED
  BY <1>1, <1>2, <1>3 DEF AboutToPause

\* The request itself: until it is saved there was no trace of a pause.
LEMMA RequestStep ==
    ASSUME TypeOK, PauseInv, MaxPauses \in {0, 1}, NEW c \in Consoles, PauseRequested(c)
    PROVE  PauseInv'
<1>1. NotYet /\ pc[c] = "requesting" /\ pauses # 0 /\ UNCHANGED pauses
  BY DEF PauseRequested, NotYet, PauseInv, BeforePause, counts
<1>2. pc'[c] = "rp_at" /\ \A x \in Actors \ {c} : pc'[x] = pc[x]
  BY DEF PauseRequested, Goto, TypeOK
<1>3. \A d \in Consoles : pc'[d] # "requesting"
  BY <1>1, <1>2 DEF PauseInv, BeforePause
<1>4. SetsNot(c, Paused)
  BY KeysDiffer DEF PauseRequested, SetsNot
<1>5. ~Known(Paused)'
  BY <1>1, <1>4, KnownBefore DEF PauseInv, BeforePause, NoFlags
<1>6. ~AboutToPause'
  BY <1>1, <1>2 DEF AboutToPause, PauseInv, BeforePause, NobodyEnters, Pausing
<1>7. QED
  BY <1>1, <1>3, <1>5, <1>6 DEF PauseInv, BeforePause, NotYet

LEMMA ConsoleSavesRequested ==
    ASSUME NEW c \in Consoles, ConsoleStep(c), ~PauseRequested(c), InForce'
    PROVE  InForce
<1>1. CASE ResumeRequested(c)
  BY <1>1 DEF ResumeRequested, Clear, Save, InForce
<1>2. CASE ~ResumeRequested(c)
  <2> USE DEF store, counts
  <2>1. CASE WorkerSets(c) \/ PauseAt(c) \/ PauseSet(c) \/ ResumePaused(c)
    BY <1>2, <2>1, InForceBefore, KeysDiffer DEF WorkerSets, PauseAt, PauseSet, ResumePaused,
       SavesOther
  <2>2. CASE WorkerStart(c) \/ WorkerEnd(c) \/ RequestPause(c) \/ Resume(c) \/ PauseAnyBusy(c)
             \/ ConsoleLoads(c)
    BY <2>2 DEF WorkerStart, WorkerEnd, RequestPause, Resume, PauseAnyBusy, ConsoleLoads,
       LoadToSave, Load, InForce
  <2>3. CASE ResumeAt(c)
    BY <2>3, InForceBefore DEF ResumeAt, Load, SavesOther, InForce
  <2>4. QED
    BY <1>2, <2>1, <2>2, <2>3 DEF ConsoleStep, CommandStep
<1>3. QED
  BY <1>1, <1>2

\* Where a console goes, as far as BeforePause is concerned.
LEMMA ConsoleBefore ==
    ASSUME TypeOK, PauseInv, MaxPauses \in {0, 1},
           NEW c \in Consoles, ConsoleStep(c), ~PauseRequested(c)
    PROVE  BeforePause'
<1>0. pc \in [Actors -> Labels] /\ pauses \in Nat /\ \A x \in Actors \ {c} : pc'[x] = pc[x]
  BY ConsoleMoves DEF TypeOK, Labels
<1>1. CASE RequestPause(c)
  <2>1. pauses = 0 /\ pauses' = 1 /\ pc'[c] = "requesting"
    BY <1>0, <1>1 DEF RequestPause, Load, Goto
  <2>2. NoFlags'
    BY <1>1, <2>1, ConsoleSetsNot, KnownBefore DEF PauseInv, BeforePause, NotYet, NoFlags, SetsNot,
       RequestPause
  <2>3. QED
    BY <1>0, <2>1, <2>2 DEF PauseInv, BeforePause, NotYet, NobodyEnters, Pausing
<1>2. CASE ~RequestPause(c)
  <2>1. UNCHANGED pauses
    BY <1>2 DEF ConsoleStep, CommandStep, WorkerStart, WorkerEnd, WorkerSets, Resume,
       PauseRequested, PauseAt, PauseAnyBusy, PauseSet, ResumeRequested, ResumePaused, ResumeAt,
       ConsoleLoads, counts
  <2>2. pc'[c] # "requesting" /\ (pc'[c] \in Pausing => pc[c] \in Pausing)
    <3> USE DEF Goto, Pausing
    <3>1. CASE WorkerStart(c) \/ WorkerEnd(c) \/ WorkerSets(c) \/ Resume(c)
      BY <1>0, <3>1 DEF WorkerStart, WorkerEnd, WorkerSets, Resume, MayStart, Refused, Load
    <3>2. CASE PauseAt(c) \/ PauseAnyBusy(c) \/ PauseSet(c)
      BY <1>0, <3>2 DEF PauseAt, PauseAnyBusy, PauseSet
    <3>3. CASE ResumeRequested(c) \/ ResumePaused(c) \/ ResumeAt(c)
      BY <1>0, <3>3 DEF ResumeRequested, ResumePaused, ResumeAt, Load
    <3>4. CASE ConsoleLoads(c)
      BY <1>0, <3>4 DEF ConsoleLoads, LoadToSave, Load, Saving
    <3>5. QED
      BY <1>2, <3>1, <3>2, <3>3, <3>4 DEF ConsoleStep, CommandStep
  <2>3. NotYet' => NotYet
    BY <1>0, <2>1, <2>2 DEF NotYet
  <2>4. NotYet' => NoFlags'
    <3>1. SUFFICES ASSUME NotYet PROVE NoFlags'
      BY <2>3
    <3>2. ~PauseSet(c)
      BY <3>1 DEF PauseSet, PauseInv, BeforePause, Pausing
    <3>3. QED
      BY <3>1, <3>2, ConsoleSetsNot, KnownBefore DEF PauseInv, BeforePause, NoFlags
  <2>5. \A d \in Consoles : /\ pc'[d] = "requesting" => d # c /\ pc[d] = "requesting"
                            /\ pc'[d] \in Pausing => pc[d] \in Pausing
    BY <1>0, <2>2
  <2>6. \A m \in Managers : pc'[m] = pc[m]
    BY <1>0
  <2>7. QED
    BY <2>1, <2>3, <2>4, <2>5, <2>6 DEF PauseInv, BeforePause, NobodyEnters
<1>3. QED
  BY <1>1, <1>2

LEMMA PauseConsoleStep ==
    ASSUME TypeOK, BusyCoversWork, PauseInv, MaxPauses \in {0, 1}, NEW c \in Consoles, ConsoleStep(c)
    PROVE  PauseInv'
<1>1. CASE PauseRequested(c)
  BY <1>1, RequestStep
<1>2. CASE ~PauseRequested(c)
  <2>1. BeforePause'
    BY <1>2, ConsoleBefore
  <2>2. ASSUME InForce', (Known(Paused) \/ AboutToPause)'
        PROVE  SpecialistsDone'
    <3>1. InForce
      BY <1>2, <2>2, ConsoleSavesRequested
    <3>2. SpecialistsDone
      BY <2>2, <3>1, ConsoleEnters, NobodyBusy DEF PauseInv
    <3>3. QED
      BY <3>2, ConsoleKeepsDone
  <2>3. QED
    BY <2>1, <2>2 DEF PauseInv
<1>3. QED
  BY <1>1, <1>2

LEMMA PauseStep ==
    ASSUME MaxPauses \in {0, 1}
    PROVE  TypeOK /\ BusyCoversWork /\ PauseInv /\ [Next]_vars => PauseInv'
<1> SUFFICES ASSUME TypeOK, BusyCoversWork, PauseInv, [Next]_vars PROVE PauseInv'
  OBVIOUS
<1>1. CASE UNCHANGED vars
  BY <1>1 DEF vars, PauseInv, BeforePause, NotYet, NoFlags, NobodyEnters, Known, AboutToPause,
     SpecialistsDone, InForce
<1>2. QED
  BY <1>1, PauseManagerStep, PauseConsoleStep, NextActors

\* While the first pause is in force no specialist of a manager runs, unless
\* an overlapping save has taken its busy key away.
THEOREM FirstPauseStopsSpecialists ==
    ASSUME MaxPauses \in {0, 1}
    PROVE  Spec => []PausedMeansSpecialistsDone
<1>1. Init => PauseInv
  BY DEF Init, PauseInv, BeforePause, NoFlags, NobodyEnters, Known, InForce, Pausing
<1>2. PauseInv => PausedMeansSpecialistsDone
  BY DEF PauseInv, SpecialistsDone, InForce, Known, PausedMeansSpecialistsDone
<1>3. QED
  BY <1>1, <1>2, PauseStep, TypeCorrect, BusyCovers, PTL DEF Spec

=============================================================================
