-------------------------- MODULE IngestionProofs ---------------------------
(***************************************************************************)
(* Theorems about Ingestion, for any conversations, any batch size and any *)
(* bounds.                                                                 *)
(***************************************************************************)
EXTENDS Ingestion, FiniteSetTheorems, TLAPS

USE KindsAssumption, BoundsAssumption

-----------------------------------------------------------------------------
(* Types: the queue is finite, so that versions given can be counted *)

FiniteInv == IsFiniteSet(files) /\ IsFiniteSet(left) /\ IsFiniteSet(batch)

LEMMA InitTyped == Init => TypeOK /\ FiniteInv
<1>1. 0 \in Versions /\ 1 \in Days /\ 0 \in 0..MaxFaults
  BY DEF Versions, Days
<1>2. QED
  BY <1>1, FS_EmptySet DEF Init, TypeOK, FiniteInv, Programs

\* A failure is counted for the program that meets it.
LEMMA FaultTyped ==
    ASSUME TypeOK, NEW p \in Programs, Fault(p)
    PROVE  /\ faults' \in [Programs -> 0..MaxFaults]
           /\ faults'[p] = faults[p] + 1
           /\ \A q \in Programs \ {p} : faults'[q] = faults[q]
<1>1. "intake" \in Programs /\ "writer" \in Programs /\ Programs = {"intake", "writer"}
  BY DEF Programs
<1>2. faults["intake"] + faults["writer"] < MaxFaults /\ faults' = [faults EXCEPT ![p] = @ + 1]
  BY DEF Fault
<1>3. faults["intake"] \in Nat /\ faults["writer"] \in Nat /\ faults \in [Programs -> 0..MaxFaults]
  BY <1>1 DEF TypeOK
<1>4. faults[p] + 1 \in 0..MaxFaults
  BY <1>1, <1>2, <1>3
<1>5. QED
  BY <1>2, <1>3, <1>4

\* Entries, files and what is read off them.
LEMMA Fields ==
    /\ \A f \in File : /\ f.of \in Conversations /\ f.version \in Versions /\ f.day \in Days
                       /\ EntryOf(f) \in Entry /\ PathOf(f) \in Path /\ Flagged(f) \in File
                       /\ Flagged(f).of = f.of /\ Flagged(f).version = f.version
                       /\ Flagged(f).day = f.day /\ Flagged(f).absorbed
                       /\ EntryOf(f).of = f.of /\ EntryOf(f).version = f.version
                       /\ Id(EntryOf(f)) = Id(f) /\ PathOf(Flagged(f)) = PathOf(f)
    /\ \A e \in Entry : e.of \in Conversations /\ e.version \in Versions /\ e.day \in Days
    /\ \A e \in Item : e.of \in Conversations /\ e.version \in Versions
    /\ \A p \in Path : p.id \in Conversations \X Versions
<1>1. 0 \in Versions
  BY DEF Versions
<1>2. ASSUME NEW f \in File
      PROVE  /\ f.of \in Conversations /\ f.version \in Versions /\ f.day \in Days
             /\ EntryOf(f) \in Entry /\ PathOf(f) \in Path /\ Flagged(f) \in File
             /\ Flagged(f).of = f.of /\ Flagged(f).version = f.version
             /\ Flagged(f).day = f.day /\ Flagged(f).absorbed
             /\ EntryOf(f).of = f.of /\ EntryOf(f).version = f.version
             /\ Id(EntryOf(f)) = Id(f) /\ PathOf(Flagged(f)) = PathOf(f)
  <2>1. f.of \in Conversations /\ f.version \in Versions /\ f.day \in Days
    BY DEF File
  <2>2. /\ Flagged(f) \in File /\ Flagged(f).of = f.of /\ Flagged(f).version = f.version
        /\ Flagged(f).day = f.day /\ Flagged(f).absorbed
    BY DEF File, Flagged
  <2>3. /\ EntryOf(f) \in Entry /\ EntryOf(f).of = f.of /\ EntryOf(f).version = f.version
    BY <2>1 DEF EntryOf, Entry
  <2>4. Id(EntryOf(f)) = Id(f) /\ Id(Flagged(f)) = Id(f)
    BY <2>2, <2>3 DEF Id
  <2>5. Id(f) \in Conversations \X Versions
    BY <1>1, <2>1 DEF Id
  <2>6. PathOf(f) \in Path /\ PathOf(Flagged(f)) = PathOf(f)
    BY <2>1, <2>2, <2>4, <2>5 DEF PathOf, Path
  <2>7. QED
    BY <2>1, <2>2, <2>3, <2>4, <2>6
<1>3. QED
  BY <1>2 DEF Entry, Item, Path

\* The file made for an entry in hand.
LEMMA NewFile ==
    ASSUME TypeOK, NEW e \in Item
    PROVE  /\ New(e) \in File /\ New(e).of = e.of /\ New(e).version = e.version
           /\ ~New(e).absorbed /\ Id(New(e)) = Id(e)
<1>1. /\ New(e) \in File /\ New(e).of = e.of /\ New(e).version = e.version /\ ~New(e).absorbed
  BY Fields DEF New, File, TypeOK
<1>2. QED
  BY <1>1 DEF Id

\* Giving a finite batch counts each of its entries.
LEMMA GiveCounts ==
    ASSUME TypeOK, NEW b \in SUBSET Entry, IsFiniteSet(b), Give(b)
    PROVE  /\ given' \in [Conversations -> [Versions -> Nat]]
           /\ \A c \in Conversations, v \in Versions : given'[c][v] >= given[c][v]
           /\ \A e \in b : given'[e.of][e.version] > 0
<1> DEFINE part(c, v) == {e \in b : e.of = c /\ e.version = v}
<1>1. ASSUME NEW c \in Conversations, NEW v \in Versions
      PROVE  /\ Cardinality(part(c, v)) \in Nat
             /\ \A e \in part(c, v) : Cardinality(part(c, v)) > 0
  <2>1. part(c, v) \in SUBSET b
    OBVIOUS
  <2>2. IsFiniteSet(part(c, v))
    BY <2>1, FS_Subset
  <2>3. Cardinality(part(c, v)) \in Nat /\ (Cardinality(part(c, v)) = 0 <=> part(c, v) = {})
    BY <2>2, FS_CardinalityType, FS_EmptySet
  <2> HIDE DEF part
  <2>4. QED
    BY <2>3
<1>2. given' = [c \in Conversations |-> [v \in Versions |-> given[c][v] + Cardinality(part(c, v))]]
  BY DEF Give
<1>3. \A e \in b : e \in part(e.of, e.version) /\ e.of \in Conversations /\ e.version \in Versions
  BY Fields
<1> HIDE DEF part
<1>4. \A c \in Conversations, v \in Versions : given[c][v] \in Nat
  BY DEF TypeOK
<1>5. QED
  BY <1>1, <1>2, <1>3, <1>4

LEMMA QueueTyped ==
    ASSUME TypeOK, FiniteInv, Fetch \/ FetchFails \/ Persist \/ MarkQueued \/ IntakeKilled
    PROVE  TypeOK' /\ FiniteInv'
<1>0. 0 \in Versions
  BY DEF Versions
<1>1. CASE Fetch
  BY <1>1 DEF Fetch, TypeOK, FiniteInv, Item, writerVars
<1>2. CASE FetchFails
  <2>1. faults' \in [Programs -> 0..MaxFaults]
    BY <1>2, FaultTyped DEF FetchFails, Programs
  <2>2. QED
    BY <1>0, <1>2, <2>1 DEF FetchFails, TypeOK, FiniteInv, Item, writerVars
<1>3. CASE Persist
  <2>1. PICK e \in found :
          /\ files' = (files \ Replaced(e)) \cup {New(e)}
          /\ exposed' = exposed
               \cup {x \in {e} : InHand(e)}
               \cup {[of |-> f.of, version |-> f.version] :
                        f \in {g \in Replaced(e) : ~g.absorbed /\ g.version > e.version}}
    BY <1>3 DEF Persist
  <2>2. e \in Item /\ New(e) \in File
    BY NewFile DEF TypeOK
  <2>3. files' \in SUBSET File
    BY <2>1, <2>2 DEF TypeOK
  <2>4. \A f \in Replaced(e) : [of |-> f.of, version |-> f.version] \in Item
    BY Fields DEF Replaced, TypeOK, Item
  <2>5. exposed' \in SUBSET Item
    BY <2>1, <2>2, <2>4 DEF TypeOK
  <2>6. IsFiniteSet(files \ Replaced(e))
    BY FS_Subset DEF FiniteInv
  <2>7. IsFiniteSet(files')
    BY <2>1, <2>6, FS_AddElement
  <2>8. QED
    BY <1>3, <2>3, <2>5, <2>7 DEF Persist, TypeOK, FiniteInv, writerVars
<1>4. CASE MarkQueued
  <2>1. PICK e \in found : record' = [record EXCEPT ![e.of] = {e.version}]
    BY <1>4 DEF MarkQueued
  <2>2. e.version \in Versions
    BY Fields DEF TypeOK
  <2>3. record' \in [Conversations -> SUBSET Versions]
    BY <2>1, <2>2 DEF TypeOK
  <2>4. QED
    BY <1>4, <2>3 DEF MarkQueued, TypeOK, FiniteInv, writerVars
<1>5. CASE IntakeKilled
  <2>1. faults' \in [Programs -> 0..MaxFaults]
    BY <1>5, FaultTyped DEF IntakeKilled, Programs
  <2>2. QED
    BY <1>5, <2>1 DEF IntakeKilled, TypeOK, FiniteInv, writerVars
<1>6. QED
  BY <1>1, <1>2, <1>3, <1>4, <1>5

LEMMA BatchTyped ==
    ASSUME TypeOK, FiniteInv, Load \/ NextBatch \/ Checkpoint \/ WriterKilled
    PROVE  TypeOK' /\ FiniteInv'
<1>1. CASE Load
  <2> DEFINE queue == {g \in files : ~g.absorbed}
             entry == [f \in queue |-> EntryOf(f)]
             entries == {EntryOf(f) : f \in queue}
  <2>1. IsFiniteSet(queue)
    BY FS_Subset DEF FiniteInv
  <2>2. IsFiniteSet(entries)
    <3>1. entry \in [queue -> entries] /\ \A x \in entries : \E f \in queue : entry[f] = x
      OBVIOUS
    <3>2. entry \in Surjection(queue, entries)
      BY <3>1 DEF Surjection
    <3> HIDE DEF queue, entry, entries
    <3>3. QED
      BY <2>1, <3>2, FS_Surjection
  <2>3. left' \in SUBSET Entry /\ IsFiniteSet(left')
    BY <1>1, <2>2, Fields DEF Load, TypeOK
  <2>4. QED
    BY <1>1, <2>3 DEF Load, TypeOK, FiniteInv, intakeVars
<1>2. CASE NextBatch
  <2>1. left' \subseteq left /\ (batch' = batch \/ batch' \subseteq left)
    BY <1>2 DEF NextBatch
  <2>2. IsFiniteSet(left') /\ IsFiniteSet(batch')
    BY <2>1, FS_Subset DEF FiniteInv
  <2>3. writer' \in {"idle", "absorb"}
    BY <1>2 DEF NextBatch
  <2>4. QED
    BY <1>2, <2>1, <2>2, <2>3 DEF NextBatch, TypeOK, FiniteInv, intakeVars
<1>3. CASE Checkpoint
  BY <1>3, FS_EmptySet DEF Checkpoint, TypeOK, FiniteInv, intakeVars
<1>4. CASE WriterKilled
  <2>1. faults' \in [Programs -> 0..MaxFaults]
    BY <1>4, FaultTyped DEF WriterKilled, Programs
  <2>2. QED
    BY <1>4, <2>1, FS_EmptySet DEF WriterKilled, TypeOK, FiniteInv, intakeVars
<1>5. QED
  BY <1>1, <1>2, <1>3, <1>4

LEMMA AbsorbTyped ==
    ASSUME TypeOK, FiniteInv, Absorb \/ AbsorbFails \/ OpenFile \/ SaveFile
    PROVE  TypeOK' /\ FiniteInv'
<1>1. CASE Absorb
  <2>1. given' \in [Conversations -> [Versions -> Nat]]
    BY <1>1, GiveCounts DEF Absorb, TypeOK, FiniteInv
  <2>2. toFlag' \in SUBSET Path
    BY <1>1, Fields DEF Absorb, List, TypeOK
  <2>3. QED
    BY <1>1, <2>1, <2>2 DEF Absorb, TypeOK, FiniteInv, intakeVars
<1>2. CASE AbsorbFails
  <2>1. given' \in [Conversations -> [Versions -> Nat]]
    BY <1>2, GiveCounts DEF AbsorbFails, TypeOK, FiniteInv
  <2>2. faults' \in [Programs -> 0..MaxFaults]
    BY <1>2, FaultTyped DEF AbsorbFails, Programs
  <2>3. QED
    BY <1>2, <2>1, <2>2, FS_EmptySet DEF AbsorbFails, TypeOK, FiniteInv, intakeVars
<1>3. CASE OpenFile
  BY <1>3 DEF OpenFile, TypeOK, FiniteInv, intakeVars
<1>4. CASE SaveFile
  <2>1. PICK f \in opened :
          /\ files' = {g \in files : PathOf(g) # PathOf(f)} \cup {Flagged(f)}
          /\ exposed' = exposed \cup
               {[of |-> e.of, version |-> e.version] : e \in left \cap {EntryOf(f)}}
    BY <1>4 DEF SaveFile
  <2>2. files' \in SUBSET File
    BY <2>1, Fields DEF TypeOK
  <2>3. exposed' \in SUBSET Item
    BY <2>1, Fields DEF TypeOK, Item
  <2>4. IsFiniteSet({g \in files : PathOf(g) # PathOf(f)})
    BY FS_Subset DEF FiniteInv
  <2>5. IsFiniteSet(files')
    BY <2>1, <2>4, FS_AddElement
  <2>6. QED
    BY <1>4, <2>2, <2>3, <2>5 DEF SaveFile, TypeOK, FiniteInv, intakeVars
<1>5. QED
  BY <1>1, <1>2, <1>3, <1>4

LEMMA WorldTyped ==
    ASSUME TypeOK, FiniteInv, Post \/ NewDay \/ UNCHANGED vars
    PROVE  TypeOK' /\ FiniteInv'
<1>1. CASE Post
  <2>1. \A c \in Conversations : text[c] < MaxVersion => text[c] + 1 \in Versions
    BY DEF TypeOK, Versions
  <2>2. text' \in [Conversations -> Versions]
    BY <1>1, <2>1 DEF Post, TypeOK
  <2>3. QED
    BY <1>1, <2>2 DEF Post, TypeOK, FiniteInv, intakeVars, writerVars
<1>2. CASE NewDay
  BY <1>2 DEF NewDay, TypeOK, FiniteInv, Days, intakeVars, writerVars
<1>3. CASE UNCHANGED vars
  BY <1>3 DEF vars, TypeOK, FiniteInv, intakeVars, writerVars
<1>4. QED
  BY <1>1, <1>2, <1>3

LEMMA StepTyped == ASSUME TypeOK, FiniteInv, [Next]_vars PROVE TypeOK' /\ FiniteInv'
BY QueueTyped, BatchTyped, AbsorbTyped, WorldTyped DEF Next, Intake, Writer

LEMMA AlwaysTyped == Spec => [](TypeOK /\ FiniteInv)
<1>1. TypeOK /\ FiniteInv /\ [Next]_vars => TypeOK' /\ FiniteInv'
  BY StepTyped
<1>2. QED
  BY <1>1, InitTyped, PTL DEF Spec

\* The queue, the routing records and what both agents have in hand keep their
\* types.
THEOREM TypeCorrect == Spec => []TypeOK
BY AlwaysTyped, PTL

-----------------------------------------------------------------------------
(* What is flagged was given to the model *)

Exposed(f) == [of |-> f.of, version |-> f.version] \in exposed
Given(f)   == given[f.of][f.version] > 0 \/ Exposed(f)

\* Only while it flags a batch has the writer paths or a file in hand.
StageInv ==
    /\ writer \notin {"flag", "save"} => toFlag = {}
    /\ writer # "save" => opened = {}

\* A file whose id the writer has in hand was given to the model, or its entry is
\* one that the writer has still to give.
HandInv ==
    \A f \in files : InHand(f) =>
        Given(f) \/ EntryOf(f) \in left \/ (writer = "absorb" /\ EntryOf(f) \in batch)

\* So it is with the file that is being flagged, and another that took its place
\* was queued while it was in hand.
OpenedInv ==
    \A f \in opened :
        /\ Given(f) \/ EntryOf(f) \in left
        /\ \A g \in files : PathOf(g) = PathOf(f) => g = f \/ Exposed(g)

PathInv == \A f, g \in files : PathOf(f) = PathOf(g) => f = g

FlagInv == StageInv /\ HandInv /\ OpenedInv /\ PathInv /\ AbsorbedMeansRead

\* What was given stays given, and what was exposed stays exposed.
LEMMA Grows ==
    ASSUME TypeOK, FiniteInv, [Next]_vars
    PROVE  /\ exposed \subseteq exposed'
           /\ \A c \in Conversations, v \in Versions : given[c][v] > 0 => given'[c][v] > 0
<1>1. exposed \subseteq exposed'
  BY DEF Next, Intake, Writer, Fetch, FetchFails, Persist, MarkQueued, IntakeKilled, Load, NextBatch,
         Absorb, AbsorbFails, OpenFile, SaveFile, Checkpoint, WriterKilled, Post, NewDay, vars
<1>2. UNCHANGED given \/ (batch \in SUBSET Entry /\ IsFiniteSet(batch) /\ Give(batch))
  BY DEF Next, Intake, Writer, Fetch, FetchFails, Persist, MarkQueued, IntakeKilled, Load, NextBatch,
         Absorb, AbsorbFails, OpenFile, SaveFile, Checkpoint, WriterKilled, Post, NewDay, vars,
         writerVars, TypeOK, FiniteInv
<1>3. \A c \in Conversations, v \in Versions : given'[c][v] \in Nat /\ given[c][v] \in Nat
  BY StepTyped DEF TypeOK
<1>4. ASSUME Give(batch), batch \in SUBSET Entry, IsFiniteSet(batch)
      PROVE  \A c \in Conversations, v \in Versions : given[c][v] > 0 => given'[c][v] > 0
  BY <1>3, <1>4, GiveCounts
<1>5. QED
  BY <1>1, <1>2, <1>4

LEMMA GivenStays ==
    ASSUME TypeOK, FiniteInv, [Next]_vars, NEW f \in File, Given(f)
    PROVE  Given(f)'
BY Grows, Fields DEF Given, Exposed

LEMMA StageStep == ASSUME StageInv, [Next]_vars PROVE StageInv'
BY DEF StageInv, Next, Intake, Writer, Fetch, FetchFails, Persist, MarkQueued, IntakeKilled, Load,
       NextBatch, Absorb, AbsorbFails, OpenFile, SaveFile, Checkpoint, WriterKilled, Post, NewDay,
       vars, writerVars

\* The queue changes when an entry is put in it and when a file is flagged.
LEMMA FilesMove ==
    ASSUME [Next]_vars
    PROVE  UNCHANGED files \/ Persist \/ SaveFile
BY DEF Next, Intake, Writer, Fetch, FetchFails, MarkQueued, IntakeKilled, Load, NextBatch,
       Absorb, AbsorbFails, OpenFile, Checkpoint, WriterKilled, Post, NewDay, vars

LEMMA PathStep == ASSUME TypeOK, PathInv, [Next]_vars PROVE PathInv'
<1>1. CASE Persist
  <2>1. PICK e \in found : files' = (files \ Replaced(e)) \cup {New(e)}
    BY <1>1 DEF Persist
  <2>2. QED
    BY <2>1 DEF PathInv, Replaced
<1>2. CASE SaveFile
  <2>1. PICK f \in opened : files' = {g \in files : PathOf(g) # PathOf(f)} \cup {Flagged(f)}
    BY <1>2 DEF SaveFile
  <2>2. PathOf(Flagged(f)) = PathOf(f)
    BY Fields DEF TypeOK
  <2>3. QED
    BY <2>1, <2>2 DEF PathInv
<1>3. QED
  BY <1>1, <1>2, FilesMove DEF PathInv

\* What Persist puts in the queue while its id is in hand is exposed.
LEMMA PersistExposes ==
    ASSUME TypeOK, Persist
    PROVE  /\ UNCHANGED <<left, batch, toFlag, opened, writer, given>>
           /\ exposed \subseteq exposed'
           /\ \E e \in found :
                /\ files' = (files \ Replaced(e)) \cup {New(e)}
                /\ InHand(New(e)) => Exposed(New(e))'
<1>1. PICK e \in found :
        /\ files' = (files \ Replaced(e)) \cup {New(e)}
        /\ exposed' = exposed
             \cup {x \in {e} : InHand(e)}
             \cup {[of |-> f.of, version |-> f.version] :
                      f \in {g \in Replaced(e) : ~g.absorbed /\ g.version > e.version}}
  BY DEF Persist
<1>2. e \in Item /\ New(e).of = e.of /\ New(e).version = e.version /\ Id(New(e)) = Id(e)
  BY NewFile DEF TypeOK
<1>3. InHand(New(e)) = InHand(e)
  BY <1>2 DEF InHand
<1>4. e = [of |-> e.of, version |-> e.version]
  BY <1>2 DEF Item
<1>5. UNCHANGED day
  BY DEF Persist
<1>6. InHand(e) => e \in exposed'
  BY <1>1
<1>7. New(e)' = New(e)
  BY <1>5 DEF New
<1>8. InHand(New(e)) => Exposed(New(e))'
  BY <1>2, <1>3, <1>4, <1>6, <1>7 DEF Exposed
<1>9. QED
  BY <1>1, <1>8 DEF Persist, writerVars

LEMMA HandStep ==
    ASSUME TypeOK, FiniteInv, FlagInv, [Next]_vars
    PROVE  HandInv'
<1>0. files \subseteq File /\ files' \subseteq File
  BY StepTyped DEF TypeOK
<1>1. CASE Persist
  <2>1. PICK e \in found : /\ files' = (files \ Replaced(e)) \cup {New(e)}
                           /\ InHand(New(e)) => Exposed(New(e))'
    BY <1>1, PersistExposes
  <2>2. UNCHANGED <<left, batch, toFlag, opened, writer, given>>
    BY <1>1, PersistExposes
  <2>3. SUFFICES ASSUME NEW f \in files', InHand(f)'
                 PROVE  Given(f)' \/ EntryOf(f) \in left' \/ (writer' = "absorb" /\ EntryOf(f) \in batch')
    BY DEF HandInv, EntryOf
  <2>4. InHand(f)
    BY <2>2, <2>3 DEF InHand
  <2>5. CASE f \in files
    BY <1>0, <2>2, <2>4, <2>5, GivenStays DEF FlagInv, HandInv
  <2>6. CASE f = New(e)
    <3>1. New(e)' = New(e)
      BY <1>1 DEF Persist, New
    <3>2. Exposed(f)'
      BY <2>1, <2>4, <2>6, <3>1 DEF Exposed
    <3>3. QED
      BY <3>2 DEF Given
  <2>7. QED
    BY <2>1, <2>5, <2>6
<1>2. CASE SaveFile
  <2>1. PICK f \in opened :
          /\ files' = {g \in files : PathOf(g) # PathOf(f)} \cup {Flagged(f)}
          /\ exposed' = exposed \cup
               {[of |-> e.of, version |-> e.version] : e \in left \cap {EntryOf(f)}}
    BY <1>2 DEF SaveFile
  <2>2. UNCHANGED <<left, batch, toFlag, given>> /\ opened' = {} /\ writer = "save"
    BY <1>2 DEF SaveFile
  <2>3. SUFFICES ASSUME NEW g \in files', InHand(g)' PROVE Given(g)' \/ EntryOf(g) \in left'
    BY DEF HandInv, EntryOf
  <2>4. InHand(g)
    BY <2>2, <2>3 DEF InHand
  <2>5. CASE g \in files
    <3>1. Given(g) \/ EntryOf(g) \in left
      BY <2>2, <2>4, <2>5 DEF FlagInv, HandInv
    <3>2. QED
      BY <1>0, <2>2, <2>5, <3>1, GivenStays
  <2>6. CASE g = Flagged(f)
    <3>1. f \in File /\ g.of = f.of /\ g.version = f.version
      BY <2>6, Fields DEF TypeOK
    <3>2. CASE Given(f)
      <4>1. Given(f)'
        BY <3>1, <3>2, GivenStays
      <4>2. QED
        BY <3>1, <4>1 DEF Given, Exposed
    <3>3. CASE EntryOf(f) \in left
      <4>1. [of |-> f.of, version |-> f.version] \in exposed'
        BY <2>1, <3>1, <3>3, Fields
      <4>2. QED
        BY <3>1, <4>1 DEF Given, Exposed
    <3>4. QED
      BY <3>2, <3>3 DEF FlagInv, OpenedInv
  <2>7. QED
    BY <2>1, <2>5, <2>6
<1>3. CASE Load
  <2>1. /\ left' = {EntryOf(f) : f \in {g \in files : ~g.absorbed}}
        /\ UNCHANGED <<files, given, exposed>>
    BY <1>3 DEF Load
  <2>2. \A f \in files : f.absorbed => Given(f)
    BY DEF FlagInv, AbsorbedMeansRead, Given, Exposed
  <2>3. \A f \in files : Given(f)' \/ EntryOf(f) \in left'
    BY <2>1, <2>2 DEF Given, Exposed
  <2>4. QED
    BY <2>1, <2>3 DEF HandInv, EntryOf
<1>4. CASE NextBatch
  <2>1. /\ UNCHANGED <<files, given, exposed, toFlag, opened>> /\ writer = "next"
        /\ \/ UNCHANGED <<left, batch>>
           \/ left \subseteq left' \cup batch' /\ left' \cup batch' \subseteq left /\ writer' = "absorb"
    BY <1>4 DEF NextBatch
  <2>2. \A f \in files : InHand(f)' => InHand(f)
    BY <2>1 DEF InHand
  <2>3. SUFFICES ASSUME NEW f \in files, InHand(f)'
                 PROVE  Given(f)' \/ EntryOf(f) \in left' \/ (writer' = "absorb" /\ EntryOf(f) \in batch')
    BY <2>1 DEF HandInv, EntryOf
  <2>4. Given(f) \/ EntryOf(f) \in left
    BY <2>1, <2>2, <2>3 DEF FlagInv, HandInv
  <2>5. QED
    BY <1>0, <2>1, <2>4, GivenStays
<1>5. CASE Absorb
  <2>1. /\ UNCHANGED <<files, left, batch, opened, exposed>> /\ Give(batch) /\ List
    BY <1>5 DEF Absorb
  <2>2. SUFFICES ASSUME NEW f \in files, InHand(f)' PROVE Given(f)' \/ EntryOf(f) \in left'
    BY <2>1 DEF HandInv, EntryOf
  <2>3. \A p \in toFlag' : \E e \in batch : Id(e) = p.id
    BY <2>1 DEF List
  <2>4. InHand(f)
    BY <2>1, <2>2, <2>3 DEF InHand
  <2>5. CASE EntryOf(f) \in batch
    <3>1. f \in File /\ EntryOf(f).of = f.of /\ EntryOf(f).version = f.version
      BY <1>0, Fields
    <3>2. given'[f.of][f.version] > 0
      BY <2>1, <2>5, <3>1, GiveCounts DEF TypeOK, FiniteInv
    <3>3. QED
      BY <3>2 DEF Given
  <2>6. CASE EntryOf(f) \notin batch
    <3>1. Given(f) \/ EntryOf(f) \in left
      BY <2>4, <2>6 DEF FlagInv, HandInv
    <3>2. QED
      BY <1>0, <2>1, <3>1, GivenStays
  <2>7. QED
    BY <2>5, <2>6
<1>6. CASE OpenFile
  <2>1. PICK f \in files : /\ PathOf(f) \in toFlag /\ opened' = {f} /\ toFlag' = toFlag \ {PathOf(f)}
                           /\ UNCHANGED <<files, left, batch, given, exposed>> /\ writer = "flag"
    BY <1>6 DEF OpenFile
  <2>2. PathOf(f).id = Id(f)
    BY DEF PathOf
  <2>3. \A g \in files : InHand(g)' => InHand(g)
    BY <2>1, <2>2 DEF InHand
  <2>4. SUFFICES ASSUME NEW g \in files, InHand(g)' PROVE Given(g)' \/ EntryOf(g) \in left'
    BY <2>1 DEF HandInv, EntryOf
  <2>5. Given(g) \/ EntryOf(g) \in left
    BY <2>1, <2>3, <2>4 DEF FlagInv, HandInv
  <2>6. QED
    BY <1>0, <2>1, <2>5, GivenStays
<1>7. CASE AbsorbFails \/ WriterKilled
  <2>1. left' = {} /\ batch' = {} /\ toFlag' = {} /\ opened' = {}
    BY <1>7 DEF AbsorbFails, WriterKilled, FlagInv, StageInv
  <2>2. \A f \in files' : ~InHand(f)'
    BY <2>1 DEF InHand
  <2>3. QED
    BY <2>2 DEF HandInv
<1>8. CASE Checkpoint
  <2>1. /\ UNCHANGED <<files, left, toFlag, opened, given, exposed>> /\ batch' = {}
        /\ writer = "flag"
    BY <1>8 DEF Checkpoint
  <2>2. \A f \in files : InHand(f)' => InHand(f)
    BY <2>1 DEF InHand
  <2>3. SUFFICES ASSUME NEW f \in files, InHand(f)' PROVE Given(f)' \/ EntryOf(f) \in left'
    BY <2>1 DEF HandInv, EntryOf
  <2>4. Given(f) \/ EntryOf(f) \in left
    BY <2>1, <2>2, <2>3 DEF FlagInv, HandInv
  <2>5. QED
    BY <1>0, <2>1, <2>4, GivenStays
<1>9. CASE UNCHANGED <<files, writer, left, batch, toFlag, opened, given, exposed>>
  BY <1>9 DEF FlagInv, HandInv, InHand, EntryOf, Given, Exposed
<1>10. \/ UNCHANGED <<files, writer, left, batch, toFlag, opened, given, exposed>>
       \/ Persist \/ SaveFile \/ Load \/ NextBatch \/ Absorb \/ OpenFile \/ AbsorbFails
       \/ WriterKilled \/ Checkpoint
  BY DEF Next, Intake, Writer, Fetch, FetchFails, MarkQueued, IntakeKilled, Post, NewDay, vars,
         writerVars
<1>11. QED
  BY <1>1, <1>2, <1>3, <1>4, <1>5, <1>6, <1>7, <1>8, <1>9, <1>10

LEMMA OpenedStep ==
    ASSUME TypeOK, FiniteInv, FlagInv, [Next]_vars
    PROVE  OpenedInv'
<1>0. files \subseteq File /\ opened \subseteq File
  BY DEF TypeOK
<1>1. CASE Persist
  <2>1. PICK e \in found : /\ files' = (files \ Replaced(e)) \cup {New(e)}
                           /\ InHand(New(e)) => Exposed(New(e))'
    BY <1>1, PersistExposes
  <2>2. UNCHANGED <<left, opened, given>> /\ exposed \subseteq exposed'
    BY <1>1, PersistExposes
  <2>3. SUFFICES ASSUME NEW f \in opened
                 PROVE  /\ Given(f)' \/ EntryOf(f) \in left'
                        /\ \A g \in files' : PathOf(g) = PathOf(f) => g = f \/ Exposed(g)'
    BY <2>2 DEF OpenedInv, PathOf, EntryOf, Id
  <2>4. Given(f)' \/ EntryOf(f) \in left'
    BY <1>0, <2>2, GivenStays DEF FlagInv, OpenedInv
  <2>5. ASSUME NEW g \in files, PathOf(g) = PathOf(f) PROVE g = f \/ Exposed(g)'
    <3>1. g = f \/ Exposed(g)
      BY <2>5 DEF FlagInv, OpenedInv
    <3>2. QED
      BY <2>2, <3>1 DEF Exposed
  <2>6. ASSUME PathOf(New(e)) = PathOf(f) PROVE Exposed(New(e))'
    <3>1. Id(New(e)) = Id(f)
      BY <2>6 DEF PathOf
    <3>2. InHand(New(e))
      BY <3>1 DEF InHand
    <3>3. QED
      BY <2>1, <3>2
  <2>7. New(e)' = New(e)
    BY <1>1 DEF Persist, New
  <2>8. ASSUME NEW g \in files', g = New(e), PathOf(g) = PathOf(f) PROVE Exposed(g)'
    BY <2>6, <2>7, <2>8 DEF Exposed
  <2>9. QED
    BY <2>1, <2>4, <2>5, <2>8
<1>2. CASE OpenFile
  <2>1. PICK f \in files : /\ PathOf(f) \in toFlag /\ opened' = {f}
                           /\ UNCHANGED <<files, left, batch, given, exposed>> /\ writer = "flag"
    BY <1>2 DEF OpenFile
  <2>2. InHand(f)
    BY <2>1 DEF InHand, PathOf
  <2>3. Given(f) \/ EntryOf(f) \in left
    BY <2>1, <2>2 DEF FlagInv, HandInv
  <2>4. Given(f)' \/ EntryOf(f) \in left'
    BY <1>0, <2>1, <2>3, GivenStays
  <2>5. \A g \in files' : PathOf(g) = PathOf(f) => g = f
    BY <2>1 DEF FlagInv, PathInv
  <2>6. QED
    BY <2>1, <2>4, <2>5 DEF OpenedInv, PathOf, EntryOf, Id
<1>3. CASE opened' = {}
  BY <1>3 DEF OpenedInv
<1>4. CASE UNCHANGED <<files, left, opened, given, exposed>>
  BY <1>4 DEF FlagInv, OpenedInv, Given, Exposed, EntryOf, PathOf, Id
<1>5. \/ Persist \/ OpenFile \/ opened' = {} \/ UNCHANGED <<files, left, opened, given, exposed>>
  BY DEF Next, Intake, Writer, Fetch, FetchFails, MarkQueued, IntakeKilled, Load, NextBatch,
         Absorb, AbsorbFails, SaveFile, Checkpoint, WriterKilled, Post, NewDay, vars, writerVars,
         FlagInv, StageInv
<1>6. QED
  BY <1>1, <1>2, <1>3, <1>4, <1>5

LEMMA AbsorbedStep ==
    ASSUME TypeOK, FiniteInv, FlagInv, [Next]_vars
    PROVE  AbsorbedMeansRead'
<1>0. files \subseteq File /\ opened \subseteq File
  BY DEF TypeOK
<1>1. \A f \in files : f.absorbed => Given(f)
  BY DEF FlagInv, AbsorbedMeansRead, Given, Exposed
<1>2. ASSUME NEW g \in files', g.absorbed PROVE Given(g)'
  <2>1. CASE g \in files
    BY <1>0, <1>1, <1>2, <2>1, GivenStays
  <2>2. CASE Persist /\ g \notin files
    <3>1. PICK e \in found : files' = (files \ Replaced(e)) \cup {New(e)}
      BY <2>2 DEF Persist
    <3>2. g = New(e) /\ ~New(e).absorbed
      BY <2>2, <3>1, NewFile DEF TypeOK
    <3>3. QED
      BY <1>2, <3>2
  <2>3. CASE SaveFile /\ g \notin files
    <3>1. PICK f \in opened :
            /\ files' = {x \in files : PathOf(x) # PathOf(f)} \cup {Flagged(f)}
            /\ exposed' = exposed \cup
                 {[of |-> e.of, version |-> e.version] : e \in left \cap {EntryOf(f)}}
      BY <2>3 DEF SaveFile
    <3>2. g = Flagged(f) /\ g.of = f.of /\ g.version = f.version
      BY <1>0, <2>3, <3>1, Fields
    <3>3. CASE Given(f)
      <4>1. Given(f)'
        BY <1>0, <3>3, GivenStays
      <4>2. QED
        BY <3>2, <4>1 DEF Given, Exposed
    <3>4. CASE EntryOf(f) \in left
      <4>1. [of |-> f.of, version |-> f.version] \in exposed'
        BY <1>0, <3>1, <3>4, Fields
      <4>2. QED
        BY <3>2, <4>1 DEF Given, Exposed
    <3>5. QED
      BY <3>3, <3>4 DEF FlagInv, OpenedInv
  <2>4. QED
    BY <2>1, <2>2, <2>3, FilesMove
<1>3. QED
  BY <1>2 DEF AbsorbedMeansRead, Given, Exposed

LEMMA FlagStep == ASSUME TypeOK, FiniteInv, FlagInv, [Next]_vars PROVE FlagInv'
BY StageStep, HandStep, OpenedStep, PathStep, AbsorbedStep DEF FlagInv

LEMMA AlwaysFlagged == Spec => [](TypeOK /\ FiniteInv /\ FlagInv)
<1>1. Init => FlagInv
  BY DEF Init, FlagInv, StageInv, HandInv, OpenedInv, PathInv, AbsorbedMeansRead
<1>2. TypeOK /\ FiniteInv /\ FlagInv /\ [Next]_vars => TypeOK' /\ FiniteInv' /\ FlagInv'
  BY StepTyped, FlagStep
<1>3. QED
  BY <1>1, <1>2, InitTyped, PTL DEF Spec

\* Nothing is flagged unread: what a file flagged as absorbed holds was given to
\* the model, or is a version that was exposed.
THEOREM AbsorbedCorrect == Spec => []AbsorbedMeansRead
BY AlwaysFlagged, PTL DEF FlagInv

-----------------------------------------------------------------------------
(* What a routing record says was queued is kept *)

\* Version v of c, or one that has it, was read, waits in the queue, or was
\* exposed.
Kept(c, v) ==
    \/ Read(c, v)
    \/ \E f \in files : f.of = c /\ f.version >= v /\ ~f.absorbed
    \/ \E w \in Versions : w >= v /\ [of |-> c, version |-> w] \in exposed

\* The agent has queued what it is about to record.
MarkInv == intake = "mark" => \A e \in found : Kept(e.of, e.version)

OneFound == \A x, y \in found : x = y

QueueInv == QueuedIsKept /\ MarkInv /\ OneFound

LEMMA KeptStays ==
    ASSUME TypeOK, FiniteInv, FlagInv, [Next]_vars,
           NEW c \in Conversations, NEW v \in Versions, Kept(c, v)
    PROVE  Kept(c, v)'
<1>0. /\ files \subseteq File /\ opened \subseteq File
      /\ \A w \in Versions : w \in Nat
  BY DEF TypeOK, Versions
<1>1. CASE Read(c, v)
  BY <1>1, Grows DEF Read, Kept
<1>2. CASE \E w \in Versions : w >= v /\ [of |-> c, version |-> w] \in exposed
  BY <1>2, Grows DEF Kept
<1>3. ASSUME NEW g \in files, g.of = c, g.version >= v, ~g.absorbed PROVE Kept(c, v)'
  <2>0. g \in File /\ g.version \in Versions
    BY <1>0, Fields
  <2>1. CASE g \in files'
    BY <1>3, <2>1 DEF Kept
  <2>2. CASE Persist /\ g \notin files'
    <3>1. PICK e \in found :
            /\ files' = (files \ Replaced(e)) \cup {New(e)}
            /\ exposed' = exposed
                 \cup {x \in {e} : InHand(e)}
                 \cup {[of |-> f.of, version |-> f.version] :
                          f \in {x \in Replaced(e) : ~x.absorbed /\ x.version > e.version}}
      BY <2>2 DEF Persist
    <3>2. /\ e \in Item /\ New(e).of = e.of /\ New(e).version = e.version /\ ~New(e).absorbed
          /\ e.version \in Versions
      BY NewFile, Fields DEF TypeOK
    <3>3. g \in Replaced(e)
      BY <1>3, <2>2, <3>1
    <3>4. CASE g.version > e.version
      <4>1. [of |-> g.of, version |-> g.version] \in exposed'
        BY <1>3, <3>1, <3>3, <3>4
      <4>2. QED
        BY <1>3, <2>0, <4>1 DEF Kept
    <3>5. CASE ~(g.version > e.version)
      <4>1. e.version >= v
        BY <1>0, <1>3, <2>0, <3>2, <3>5
      <4>2. Id(g) = Id(New(e))
        BY <3>3 DEF Replaced, PathOf
      <4>3. New(e).of = g.of
        BY <4>2 DEF Id
      <4>4. QED
        BY <1>3, <3>1, <3>2, <4>1, <4>3 DEF Kept
    <3>6. QED
      BY <3>4, <3>5
  <2>3. CASE SaveFile /\ g \notin files'
    <3>1. PICK f \in opened :
            /\ files' = {x \in files : PathOf(x) # PathOf(f)} \cup {Flagged(f)}
            /\ exposed' = exposed \cup
                 {[of |-> e.of, version |-> e.version] : e \in left \cap {EntryOf(f)}}
      BY <2>3 DEF SaveFile
    <3>2. PathOf(g) = PathOf(f)
      BY <1>3, <2>3, <3>1
    <3>3. CASE Exposed(g)
      <4>1. [of |-> g.of, version |-> g.version] \in exposed'
        BY <3>1, <3>3 DEF Exposed
      <4>2. QED
        BY <1>3, <2>0, <4>1 DEF Kept
    <3>4. CASE g = f /\ Given(f)
      <4>1. Given(g)'
        BY <2>0, <3>4, GivenStays
      <4>2. QED
        BY <1>3, <2>0, <4>1 DEF Kept, Given, Exposed, Read
    <3>5. CASE g = f /\ EntryOf(f) \in left
      <4>1. [of |-> g.of, version |-> g.version] \in exposed'
        BY <2>0, <3>1, <3>5, Fields
      <4>2. QED
        BY <1>3, <2>0, <4>1 DEF Kept
    <3>6. QED
      BY <1>3, <3>2, <3>3, <3>4, <3>5 DEF FlagInv, OpenedInv
  <2>4. QED
    BY <1>3, <2>1, <2>2, <2>3, FilesMove
<1>4. QED
  BY <1>1, <1>2, <1>3 DEF Kept

LEMMA QueueStep ==
    ASSUME TypeOK, FiniteInv, FlagInv, QueueInv, [Next]_vars
    PROVE  QueueInv'
<1>0. /\ \A c \in Conversations : record[c] \subseteq Versions
      /\ \A e \in found : e \in Item /\ e.of \in Conversations /\ e.version \in Versions
      /\ \A w \in Versions : w \in Nat
  BY Fields DEF TypeOK, Versions
<1>1. \A c \in Conversations : \A v \in record[c] : Kept(c, v)'
  BY <1>0, KeptStays DEF QueueInv, QueuedIsKept, Kept
<1>2. ASSUME intake = "mark" PROVE \A e \in found : Kept(e.of, e.version)'
  BY <1>0, <1>2, KeptStays DEF QueueInv, MarkInv
<1>3. OneFound'
  BY DEF QueueInv, OneFound, Next, Intake, Writer, Fetch, FetchFails, Persist, MarkQueued,
         IntakeKilled, Load, NextBatch, Absorb, AbsorbFails, OpenFile, SaveFile, Checkpoint,
         WriterKilled, Post, NewDay, vars, intakeVars
<1>4. CASE Persist
  <2>1. PICK e \in found : files' = (files \ Replaced(e)) \cup {New(e)}
    BY <1>4 DEF Persist
  <2>2. New(e).of = e.of /\ New(e).version = e.version /\ ~New(e).absorbed /\ e.version \in Nat
    BY <1>0, NewFile
  <2>3. Kept(e.of, e.version)'
    BY <2>1, <2>2 DEF Kept
  <2>4. found' = {e} /\ record' = record
    BY <1>4 DEF Persist, QueueInv, OneFound
  <2>5. QED
    BY <1>1, <1>3, <2>3, <2>4 DEF QueueInv, QueuedIsKept, MarkInv, Kept
<1>5. CASE MarkQueued
  <2>1. PICK e \in found : record' = [record EXCEPT ![e.of] = {e.version}]
    BY <1>5 DEF MarkQueued
  <2>2. intake = "mark" /\ intake' = "idle"
    BY <1>5 DEF MarkQueued
  <2>3. \A c \in Conversations : \A v \in record'[c] : Kept(c, v)'
    BY <1>1, <1>2, <2>1, <2>2 DEF TypeOK
  <2>4. QED
    BY <1>3, <2>2, <2>3 DEF QueueInv, QueuedIsKept, MarkInv, Kept
<1>6. CASE record' = record /\ intake' # "mark"
  BY <1>1, <1>3, <1>6 DEF QueueInv, QueuedIsKept, MarkInv, Kept
<1>7. CASE UNCHANGED <<record, intake, found>>
  BY <1>1, <1>2, <1>3, <1>7 DEF QueueInv, QueuedIsKept, MarkInv, Kept
<1>8. \/ Persist \/ MarkQueued \/ (record' = record /\ intake' # "mark")
      \/ UNCHANGED <<record, intake, found>>
  BY DEF Next, Intake, Writer, Fetch, FetchFails, IntakeKilled, Load, NextBatch, Absorb,
         AbsorbFails, OpenFile, SaveFile, Checkpoint, WriterKilled, Post, NewDay, vars, intakeVars
<1>9. QED
  BY <1>4, <1>5, <1>6, <1>7, <1>8

LEMMA AlwaysQueued == Spec => [](TypeOK /\ FiniteInv /\ FlagInv /\ QueueInv)
<1>1. Init => QueueInv
  BY DEF Init, QueueInv, QueuedIsKept, MarkInv, OneFound
<1>2. TypeOK /\ FiniteInv /\ FlagInv /\ QueueInv /\ [Next]_vars => QueueInv'
  BY QueueStep
<1>3. QED
  BY <1>1, <1>2, AlwaysFlagged, PTL DEF Spec

\* What a routing record says was queued is in the queue, was read as it was or
\* as part of a longer version, or was exposed, whatever was killed in between.
THEOREM QueuedCorrect == Spec => []QueuedIsKept
BY AlwaysQueued, PTL DEF QueueInv

-----------------------------------------------------------------------------
(* How often a version is given to the model *)

\* What the routing record of c will say when the agent is done with what it has
\* in hand.
Anticipated(c) == IF \E e \in found : e.of = c THEN {e.version : e \in found} ELSE record[c]

\* Version v of c can be queued again with no failure: the agent is about to, or
\* will find that it has not been.
Free(c, v) ==
    \/ intake = "persist" /\ [of |-> c, version |-> v] \in found
    \/ v >= text[c] /\ Anticipated(c) # {v}

\* How often it was queued at most.
Budget(c, v) == faults["intake"] + (IF Free(c, v) THEN 0 ELSE 1)

Of(S, c, v) == {x \in S : x.of = c /\ x.version = v}

\* Entries that can reach the model, and those that will if the writer does not
\* fail: the files it has listed or has in hand will be flagged.
Unread   == {EntryOf(f) : f \in {g \in files : ~g.absorbed}}
Flagging == toFlag \cup {PathOf(f) : f \in opened}
Alive    == left \cup batch \cup Unread
Pending  == left \cup (IF writer = "absorb" THEN batch ELSE {})
                 \cup {EntryOf(f) : f \in {g \in files : ~g.absorbed /\ PathOf(g) \notin Flagging}}

\* The agent has one version in hand, and neither it nor a record is ahead of the
\* conversation.
FoundInv ==
    /\ intake = "idle" => found = {}
    /\ \A e \in found : e.version <= text[e.of]
    /\ \A c \in Conversations : \A v \in record[c] : v <= text[c]

\* An entry is in one batch of a run, and the writer has one file in hand.
ApartInv ==
    /\ writer \in {"idle", "next"} => batch = {}
    /\ left \cap batch = {}
    /\ \A f, g \in opened : f = g

\* There are no more entries of a version than times it was queued, and each is
\* given once and once more for each failure of the writer.
AliveInv ==
    \A c \in Conversations, v \in Versions :
        Cardinality(Of(Alive, c, v)) <= Budget(c, v)

GivenInv ==
    \A c \in Conversations, v \in Versions :
        given[c][v] + Cardinality(Of(Pending, c, v)) <= Budget(c, v) * (1 + faults["writer"])

CountInv == FoundInv /\ ApartInv /\ AliveInv /\ GivenInv

LEMMA FoundStep ==
    ASSUME TypeOK, OneFound, FoundInv, [Next]_vars
    PROVE  FoundInv'
<1>0. /\ \A c \in Conversations : text[c] \in Nat /\ record[c] \subseteq Versions
      /\ \A e \in found : e.of \in Conversations /\ e.version \in Nat
      /\ \A v \in Versions : v \in Nat /\ v >= 0
  BY Fields DEF TypeOK, Versions
<1>1. CASE Fetch
  <2>1. PICK c \in Conversations : found' = {[of |-> c, version |-> text[c]]}
    BY <1>1 DEF Fetch
  <2>2. \A e \in found' : e.of = c /\ e.version = text[c]
    BY <2>1
  <2>3. intake' = "persist" /\ UNCHANGED <<text, record>>
    BY <1>1 DEF Fetch
  <2>4. QED
    BY <1>0, <2>2, <2>3 DEF FoundInv
<1>2. CASE FetchFails
  <2>1. PICK c \in Conversations : found' = {[of |-> c, version |-> 0]}
    BY <1>2 DEF FetchFails
  <2>2. \A e \in found' : e.of = c /\ e.version = 0
    BY <2>1
  <2>3. intake' = "persist" /\ UNCHANGED <<text, record>>
    BY <1>2 DEF FetchFails
  <2>4. QED
    BY <1>0, <2>2, <2>3 DEF FoundInv
<1>3. CASE MarkQueued
  <2>1. PICK e \in found : record' = [record EXCEPT ![e.of] = {e.version}]
    BY <1>3 DEF MarkQueued
  <2>2. found' = {} /\ intake' = "idle" /\ text' = text
    BY <1>3 DEF MarkQueued
  <2>3. \A c \in Conversations : \A v \in record'[c] : v \in record[c] \/ (c = e.of /\ v = e.version)
    BY <2>1 DEF TypeOK
  <2>4. QED
    BY <1>0, <2>2, <2>3 DEF FoundInv
<1>4. CASE Post
  <2>1. PICK c \in Growing : text' = [text EXCEPT ![c] = @ + 1]
    BY <1>4 DEF Post
  <2>2. \A d \in Conversations : text'[d] >= text[d] /\ text'[d] \in Nat
    BY <1>0, <2>1 DEF TypeOK
  <2>3. UNCHANGED <<found, intake, record>>
    BY <1>4 DEF Post, intakeVars
  <2>4. QED
    BY <1>0, <2>2, <2>3 DEF FoundInv
<1>5. CASE IntakeKilled
  BY <1>5 DEF IntakeKilled, FoundInv
<1>6. CASE Persist
  BY <1>6 DEF Persist, FoundInv
<1>7. CASE UNCHANGED <<text, found, intake, record>>
  BY <1>7 DEF FoundInv
<1>8. \/ Fetch \/ FetchFails \/ MarkQueued \/ Post \/ IntakeKilled \/ Persist
      \/ UNCHANGED <<text, found, intake, record>>
  BY DEF Next, Intake, Writer, Load, NextBatch, Absorb, AbsorbFails, OpenFile, SaveFile,
         Checkpoint, WriterKilled, NewDay, vars, intakeVars
<1>9. QED
  BY <1>1, <1>2, <1>3, <1>4, <1>5, <1>6, <1>7, <1>8

LEMMA ApartStep == ASSUME ApartInv, [Next]_vars PROVE ApartInv'
<1>1. CASE NextBatch
  <2>1. /\ writer = "next" /\ opened' = opened
        /\ \/ UNCHANGED <<left, batch>> /\ writer' = "idle"
           \/ \E b \in SUBSET left : batch' = b /\ left' = left \ b /\ writer' = "absorb"
    BY <1>1 DEF NextBatch
  <2>2. QED
    BY <2>1 DEF ApartInv
<1>2. CASE Load \/ Absorb \/ AbsorbFails \/ OpenFile \/ SaveFile \/ Checkpoint \/ WriterKilled
  BY <1>2 DEF ApartInv, Load, Absorb, AbsorbFails, OpenFile, SaveFile, Checkpoint, WriterKilled
<1>3. CASE UNCHANGED <<writer, left, batch, opened>>
  BY <1>3 DEF ApartInv
<1>4. \/ NextBatch \/ Load \/ Absorb \/ AbsorbFails \/ OpenFile \/ SaveFile \/ Checkpoint
      \/ WriterKilled \/ UNCHANGED <<writer, left, batch, opened>>
  BY DEF Next, Intake, Writer, Fetch, FetchFails, Persist, MarkQueued, IntakeKilled, Post, NewDay,
         vars, writerVars
<1>5. QED
  BY <1>1, <1>2, <1>3, <1>4

\* Only a failure of the agent lets a version be queued again.
LEMMA FreeStep ==
    ASSUME TypeOK, OneFound, FoundInv, [Next]_vars, ~(FetchFails \/ IntakeKilled),
           NEW c \in Conversations, NEW v \in Versions, Free(c, v)'
    PROVE  Free(c, v)
<1>0. /\ text[c] \in Nat /\ record[c] \subseteq Versions /\ v \in Nat
      /\ \A e \in found : e \in Item /\ e.of \in Conversations /\ e.version \in Nat
  BY Fields DEF TypeOK, Versions
<1>1. CASE Fetch
  <2>1. PICK d \in Conversations : /\ record[d] # {text[d]}
                                   /\ found' = {[of |-> d, version |-> text[d]]}
    BY <1>1 DEF Fetch
  <2>2. UNCHANGED <<text, record>> /\ found = {}
    BY <1>1 DEF Fetch, FoundInv
  <2>3. Anticipated(c) = record[c]
    BY <2>2 DEF Anticipated
  <2>4. CASE c = d
    <3>1. Anticipated(c)' = {text[c]}
      <4>1. \A e \in found' : e.of = c /\ e.version = text[c]
        BY <2>1, <2>4
      <4>2. \E e \in found' : e.of = c
        BY <2>1, <2>4
      <4>3. {e.version : e \in found'} = {text[c]}
        BY <4>1, <4>2
      <4>4. QED
        BY <4>2, <4>3 DEF Anticipated
    <3>2. [of |-> c, version |-> v] \in found' => v = text[c]
      BY <2>1, <2>4
    <3>3. v >= text[c]
      BY <1>0, <2>2, <3>2 DEF Free
    <3>4. record[c] # {v}
      BY <1>0, <2>1, <2>4, <3>3 DEF FoundInv
    <3>5. QED
      BY <2>3, <3>3, <3>4 DEF Free
  <2>5. CASE c # d
    <3>1. \A e \in found' : e.of # c
      BY <2>1, <2>5
    <3>2. Anticipated(c)' = record[c]
      BY <2>2, <3>1 DEF Anticipated
    <3>3. [of |-> c, version |-> v] \notin found'
      BY <3>1
    <3>4. QED
      BY <2>2, <2>3, <3>2, <3>3 DEF Free
  <2>6. QED
    BY <2>4, <2>5
<1>2. CASE MarkQueued
  <2>1. PICK e \in found : record' = [record EXCEPT ![e.of] = {e.version}]
    BY <1>2 DEF MarkQueued
  <2>2. found' = {} /\ intake' = "idle" /\ text' = text
    BY <1>2 DEF MarkQueued
  <2>3. found = {e}
    BY DEF OneFound
  <2>4. Anticipated(c)' = Anticipated(c)
    <3>1. Anticipated(c)' = record'[c]
      BY <2>2 DEF Anticipated
    <3>2. CASE c = e.of
      <4>1. record'[c] = {e.version}
        BY <2>1, <3>2 DEF TypeOK
      <4>2. Anticipated(c) = {e.version}
        BY <2>3, <3>2 DEF Anticipated
      <4>3. QED
        BY <3>1, <4>1, <4>2
    <3>3. CASE c # e.of
      <4>1. record'[c] = record[c]
        BY <2>1, <3>3 DEF TypeOK
      <4>2. Anticipated(c) = record[c]
        BY <2>3, <3>3 DEF Anticipated
      <4>3. QED
        BY <3>1, <4>1, <4>2
    <3>4. QED
      BY <3>2, <3>3
  <2>5. QED
    BY <2>2, <2>4 DEF Free
<1>3. CASE Persist
  BY <1>3 DEF Persist, Free, Anticipated
<1>4. CASE Post
  <2>1. PICK d \in Growing : text' = [text EXCEPT ![d] = @ + 1]
    BY <1>4 DEF Post
  <2>2. text'[c] >= text[c] /\ text'[c] \in Nat
    BY <1>0, <2>1 DEF TypeOK
  <2>3. UNCHANGED <<found, intake, record>>
    BY <1>4 DEF Post, intakeVars
  <2>4. v >= text'[c] => v >= text[c]
    BY <1>0, <2>2
  <2>5. QED
    BY <2>3, <2>4 DEF Free, Anticipated
<1>5. CASE UNCHANGED <<text, found, intake, record>>
  BY <1>5 DEF Free, Anticipated
<1>6. Fetch \/ MarkQueued \/ Persist \/ Post \/ UNCHANGED <<text, found, intake, record>>
  BY DEF Next, Intake, Writer, Load, NextBatch, Absorb, AbsorbFails, OpenFile, SaveFile,
         Checkpoint, WriterKilled, NewDay, vars, intakeVars
<1>7. QED
  BY <1>1, <1>2, <1>3, <1>4, <1>5, <1>6

\* Queueing it takes the permission back.
LEMMA FreeTaken ==
    ASSUME TypeOK, OneFound, FoundInv, Persist, NEW e \in found
    PROVE  Free(e.of, e.version) /\ ~Free(e.of, e.version)'
<1>1. e = [of |-> e.of, version |-> e.version]
  BY DEF TypeOK, Item
<1>2. intake = "persist" /\ intake' = "mark" /\ UNCHANGED <<found, text, record>>
  BY DEF Persist
<1>3. found' = {e}
  BY <1>2 DEF OneFound
<1>4. Anticipated(e.of)' = {e.version}
  BY <1>3 DEF Anticipated
<1>5. QED
  BY <1>1, <1>2, <1>4 DEF Free

\* A failure counts for the program that meets it.
LEMMA FaultsMove ==
    ASSUME TypeOK, [Next]_vars
    PROVE  /\ \A p \in Programs : faults[p] \in Nat /\ faults'[p] \in Nat /\ faults'[p] >= faults[p]
           /\ FetchFails \/ IntakeKilled =>
                faults'["intake"] = faults["intake"] + 1 /\ faults'["writer"] = faults["writer"]
           /\ AbsorbFails \/ WriterKilled =>
                faults'["intake"] = faults["intake"] /\ faults'["writer"] = faults["writer"] + 1
           /\ ~(FetchFails \/ IntakeKilled \/ AbsorbFails \/ WriterKilled) => faults' = faults
<1>0. "intake" \in Programs /\ "writer" \in Programs /\ Programs = {"intake", "writer"}
  BY DEF Programs
<1>1. \A p \in Programs : faults[p] \in Nat
  BY DEF TypeOK
<1>2. CASE FetchFails \/ IntakeKilled
  <2>1. Fault("intake")
    BY <1>2 DEF FetchFails, IntakeKilled
  <2>2. ~AbsorbFails /\ ~WriterKilled
    BY <1>2 DEF FetchFails, IntakeKilled, AbsorbFails, WriterKilled, intakeVars
  <2>3. faults'["intake"] = faults["intake"] + 1 /\ faults'["writer"] = faults["writer"]
    BY <1>0, <2>1, FaultTyped
  <2>4. QED
    BY <1>0, <1>1, <1>2, <2>2, <2>3
<1>3. CASE AbsorbFails \/ WriterKilled
  <2>1. Fault("writer")
    BY <1>3 DEF AbsorbFails, WriterKilled
  <2>2. faults'["intake"] = faults["intake"] /\ faults'["writer"] = faults["writer"] + 1
    BY <1>0, <2>1, FaultTyped
  <2>3. ~FetchFails /\ ~IntakeKilled
    BY <1>3 DEF FetchFails, IntakeKilled, AbsorbFails, WriterKilled, intakeVars
  <2>4. QED
    BY <1>0, <1>1, <1>3, <2>2, <2>3
<1>4. CASE ~(FetchFails \/ IntakeKilled \/ AbsorbFails \/ WriterKilled)
  <2>1. faults' = faults
    BY <1>4 DEF Next, Intake, Writer, Fetch, Persist, MarkQueued, Load, NextBatch, Absorb, OpenFile,
           SaveFile, Checkpoint, Post, NewDay, vars
  <2>2. QED
    BY <1>1, <1>4, <2>1
<1>5. QED
  BY <1>2, <1>3, <1>4

LEMMA BudgetStep ==
    ASSUME TypeOK, OneFound, FoundInv, [Next]_vars,
           NEW c \in Conversations, NEW v \in Versions
    PROVE  Budget(c, v) \in Nat /\ Budget(c, v)' \in Nat /\ Budget(c, v)' >= Budget(c, v)
<1>0. /\ faults["intake"] \in Nat /\ faults'["intake"] \in Nat
      /\ faults'["intake"] >= faults["intake"]
      /\ FetchFails \/ IntakeKilled => faults'["intake"] = faults["intake"] + 1
  BY FaultsMove DEF Programs
<1>1. Budget(c, v) = faults["intake"] \/ Budget(c, v) = faults["intake"] + 1
  BY <1>0 DEF Budget
<1>2. Budget(c, v)' = faults'["intake"] \/ Budget(c, v)' = faults'["intake"] + 1
  BY <1>0 DEF Budget
<1>3. CASE FetchFails \/ IntakeKilled
  BY <1>0, <1>1, <1>2, <1>3
<1>4. CASE ~(FetchFails \/ IntakeKilled)
  <2>1. Free(c, v)' => Free(c, v)
    BY <1>4, FreeStep
  <2>2. QED
    BY <1>0, <2>1 DEF Budget
<1>5. QED
  BY <1>3, <1>4

\* Entries of one version in sets that grow by one entry, or that do not overlap.
LEMMA OfSubset ==
    ASSUME NEW S, NEW T, IsFiniteSet(S), T \subseteq S, NEW c, NEW v
    PROVE  /\ IsFiniteSet(Of(S, c, v)) /\ IsFiniteSet(Of(T, c, v))
           /\ Cardinality(Of(S, c, v)) \in Nat /\ Cardinality(Of(T, c, v)) \in Nat
           /\ Cardinality(Of(T, c, v)) <= Cardinality(Of(S, c, v))
<1>1. Of(S, c, v) \subseteq S /\ Of(T, c, v) \subseteq Of(S, c, v)
  BY DEF Of
<1>2. IsFiniteSet(Of(S, c, v))
  BY <1>1, FS_Subset
<1>3. QED
  BY <1>1, <1>2, FS_Subset, FS_CardinalityType

LEMMA OfAdded ==
    ASSUME NEW S, NEW T, NEW x, IsFiniteSet(S), T \subseteq S \cup {x}, NEW c, NEW v
    PROVE  /\ Cardinality(Of(S, c, v)) \in Nat /\ Cardinality(Of(T, c, v)) \in Nat
           /\ Cardinality(Of(T, c, v)) <= Cardinality(Of(S, c, v)) + 1
           /\ ~(x.of = c /\ x.version = v) => Cardinality(Of(T, c, v)) <= Cardinality(Of(S, c, v))
<1>1. IsFiniteSet(Of(S, c, v)) /\ Cardinality(Of(S, c, v)) \in Nat
  BY OfSubset
<1>2. Of(T, c, v) \subseteq Of(S, c, v) \cup {x}
  BY DEF Of
<1>3. ~(x.of = c /\ x.version = v) => Of(T, c, v) \subseteq Of(S, c, v)
  BY DEF Of
<1>4. /\ IsFiniteSet(Of(S, c, v) \cup {x})
      /\ Cardinality(Of(S, c, v) \cup {x}) <= Cardinality(Of(S, c, v)) + 1
  <2> DEFINE some == Of(S, c, v)
  <2>1. IsFiniteSet(some) /\ Cardinality(some) \in Nat
    BY <1>1
  <2> HIDE DEF some
  <2>2. /\ IsFiniteSet(some \cup {x})
        /\ Cardinality(some \cup {x}) = IF x \in some THEN Cardinality(some) ELSE Cardinality(some) + 1
    BY <2>1, FS_AddElement
  <2>3. IsFiniteSet(some \cup {x}) /\ Cardinality(some \cup {x}) <= Cardinality(some) + 1
    BY <2>1, <2>2
  <2>4. QED
    BY <2>3 DEF some
<1>5. QED
  BY <1>1, <1>2, <1>3, <1>4, FS_Subset, FS_CardinalityType

LEMMA OfApart ==
    ASSUME NEW S, NEW T, NEW U, IsFiniteSet(U), S \cup T \subseteq U, S \cap T = {}, NEW c, NEW v
    PROVE  /\ Cardinality(Of(S, c, v)) \in Nat /\ Cardinality(Of(T, c, v)) \in Nat
           /\ Cardinality(Of(U, c, v)) \in Nat
           /\ Cardinality(Of(S, c, v)) + Cardinality(Of(T, c, v)) <= Cardinality(Of(U, c, v))
<1>1. /\ IsFiniteSet(Of(S, c, v)) /\ IsFiniteSet(Of(T, c, v)) /\ IsFiniteSet(Of(U, c, v))
      /\ Cardinality(Of(S, c, v)) \in Nat /\ Cardinality(Of(T, c, v)) \in Nat
      /\ Cardinality(Of(U, c, v)) \in Nat
  BY OfSubset
<1>2. Of(S, c, v) \cap Of(T, c, v) = {} /\ Of(S, c, v) \cup Of(T, c, v) \subseteq Of(U, c, v)
  BY DEF Of
<1>3. Cardinality(Of(S, c, v) \cup Of(T, c, v)) = Cardinality(Of(S, c, v)) + Cardinality(Of(T, c, v))
  <2>1. Cardinality(Of(S, c, v) \cap Of(T, c, v)) = 0
    BY <1>2, FS_EmptySet
  <2>2. Cardinality(Of(S, c, v) \cup Of(T, c, v))
          = Cardinality(Of(S, c, v)) + Cardinality(Of(T, c, v)) - Cardinality(Of(S, c, v) \cap Of(T, c, v))
    BY <1>1, FS_Union
  <2>3. QED
    BY <1>1, <2>1, <2>2
<1>4. Cardinality(Of(S, c, v) \cup Of(T, c, v)) <= Cardinality(Of(U, c, v))
  BY <1>1, <1>2, FS_Subset
<1>5. QED
  BY <1>1, <1>3, <1>4

LEMMA Times ==
    ASSUME NEW a \in Nat, NEW b \in Nat, NEW k \in Nat
    PROVE  /\ a * k \in Nat /\ b * k \in Nat
           /\ a <= b => a * k <= b * k
           /\ (a + 1) * k = a * k + k
           /\ a * (k + 1) = a * k + a
OBVIOUS

LEMMA AliveFinite ==
    ASSUME TypeOK, FiniteInv
    PROVE  /\ IsFiniteSet(Alive) /\ Pending \subseteq Alive /\ IsFiniteSet(Pending)
           /\ IsFiniteSet(Unread) /\ IsFiniteSet(batch)
<1> DEFINE queue == {g \in files : ~g.absorbed}
           entry == [f \in queue |-> EntryOf(f)]
<1>1. IsFiniteSet(queue)
  BY FS_Subset DEF FiniteInv
<1>2. IsFiniteSet(Unread)
  <2>1. entry \in [queue -> Unread] /\ \A x \in Unread : \E f \in queue : entry[f] = x
    BY DEF Unread
  <2>2. entry \in Surjection(queue, Unread)
    BY <2>1 DEF Surjection
  <2> HIDE DEF queue, entry
  <2>3. QED
    BY <1>1, <2>2, FS_Surjection
<1>3. IsFiniteSet(left \cup batch)
  BY FS_Union DEF FiniteInv
<1>4. IsFiniteSet(Alive)
  BY <1>2, <1>3, FS_Union DEF Alive
<1>5. Pending \subseteq Alive
  BY DEF Pending, Alive, Unread
<1>6. QED
  BY <1>2, <1>4, <1>5, FS_Subset DEF FiniteInv

\* Only Persist adds an entry, and it adds one.
LEMMA AliveMoves ==
    ASSUME TypeOK, OneFound, StageInv, ApartInv, [Next]_vars
    PROVE  \/ ~Persist /\ Alive' \subseteq Alive
           \/ /\ Persist /\ UNCHANGED <<writerVars, faults>>
              /\ \E e \in found :
                   /\ Alive' \subseteq Alive \cup {EntryOf(New(e))}
                   /\ Pending' \subseteq Pending \cup {EntryOf(New(e))}
                   /\ EntryOf(New(e)).of = e.of /\ EntryOf(New(e)).version = e.version
<1>1. CASE Persist
  <2>1. PICK e \in found : files' = (files \ Replaced(e)) \cup {New(e)}
    BY <1>1 DEF Persist
  <2>2. New(e) \in File /\ New(e).of = e.of /\ New(e).version = e.version
    BY NewFile DEF TypeOK
  <2>3. EntryOf(New(e)).of = e.of /\ EntryOf(New(e)).version = e.version
    BY <2>2, Fields
  <2>4. UNCHANGED <<writer, left, batch, toFlag, opened, given, faults>>
    BY <1>1 DEF Persist, writerVars
  <2>5. Alive' \subseteq Alive \cup {EntryOf(New(e))}
    BY <2>1, <2>4 DEF Alive, Unread, EntryOf
  <2>6. Flagging' = Flagging
    BY <2>4 DEF Flagging, PathOf, Id
  <2>7. Pending' \subseteq Pending \cup {EntryOf(New(e))}
    BY <2>1, <2>4, <2>6 DEF Pending, EntryOf, PathOf, Id
  <2>8. QED
    BY <1>1, <2>3, <2>4, <2>5, <2>7 DEF writerVars
<1>2. CASE SaveFile
  <2>1. PICK f \in opened : files' = {g \in files : PathOf(g) # PathOf(f)} \cup {Flagged(f)}
    BY <1>2 DEF SaveFile
  <2>2. Flagged(f).absorbed
    BY Fields DEF TypeOK
  <2>3. UNCHANGED <<left, batch>> /\ ~Persist
    BY <1>2 DEF SaveFile, Persist, writerVars
  <2>4. Unread' \subseteq Unread
    BY <2>1, <2>2 DEF Unread, EntryOf
  <2>5. QED
    BY <2>3, <2>4 DEF Alive
<1>3. CASE UNCHANGED files /\ ~Persist
  <2>1. Unread' = Unread
    BY <1>3 DEF Unread, EntryOf
  <2>2. \/ UNCHANGED <<left, batch>> \/ (left' \subseteq left /\ batch' \subseteq left)
        \/ (left' = {} /\ batch' = {}) \/ (left' = Unread /\ batch' = batch)
        \/ (left' = left /\ batch' = {})
    BY <1>3 DEF Next, Intake, Writer, Fetch, FetchFails, MarkQueued, IntakeKilled, Load, NextBatch,
           Absorb, AbsorbFails, OpenFile, SaveFile, Checkpoint, WriterKilled, Post, NewDay, vars,
           writerVars, Unread
  <2>3. QED
    BY <1>3, <2>1, <2>2 DEF Alive
<1>4. SaveFile => ~Persist
  BY DEF SaveFile, Persist, intakeVars
<1>5. QED
  BY <1>1, <1>2, <1>3, FilesMove

LEMMA AliveStep ==
    ASSUME TypeOK, FiniteInv, OneFound, StageInv, CountInv, [Next]_vars
    PROVE  AliveInv'
<1> SUFFICES ASSUME NEW c \in Conversations, NEW v \in Versions
             PROVE  Cardinality(Of(Alive', c, v)) <= Budget(c, v)'
  BY DEF AliveInv, Of
<1>1. /\ Budget(c, v) \in Nat /\ Budget(c, v)' \in Nat /\ Budget(c, v)' >= Budget(c, v)
      /\ Cardinality(Of(Alive, c, v)) <= Budget(c, v)
  BY BudgetStep DEF CountInv, AliveInv
<1>2. IsFiniteSet(Alive)
  BY AliveFinite
<1>3. CASE Alive' \subseteq Alive
  <2>1. /\ Cardinality(Of(Alive, c, v)) \in Nat /\ Cardinality(Of(Alive', c, v)) \in Nat
        /\ Cardinality(Of(Alive', c, v)) <= Cardinality(Of(Alive, c, v))
    BY <1>2, <1>3, OfSubset
  <2>2. QED
    BY <1>1, <2>1
<1>4. ASSUME Persist, faults' = faults, NEW e \in found,
             Alive' \subseteq Alive \cup {EntryOf(New(e))},
             EntryOf(New(e)).of = e.of, EntryOf(New(e)).version = e.version
      PROVE  Cardinality(Of(Alive', c, v)) <= Budget(c, v)'
  <2>1. /\ Cardinality(Of(Alive, c, v)) \in Nat /\ Cardinality(Of(Alive', c, v)) \in Nat
        /\ Cardinality(Of(Alive', c, v)) <= Cardinality(Of(Alive, c, v)) + 1
        /\ ~(e.of = c /\ e.version = v) =>
             Cardinality(Of(Alive', c, v)) <= Cardinality(Of(Alive, c, v))
    BY <1>2, <1>4, OfAdded
  <2>2. CASE e.of = c /\ e.version = v
    <3>1. Free(c, v) /\ ~Free(c, v)'
      BY <1>4, <2>2, FreeTaken DEF CountInv
    <3>2. faults["intake"] \in Nat
      BY DEF TypeOK, Programs
    <3>3. Budget(c, v)' = Budget(c, v) + 1
      BY <1>4, <3>1, <3>2 DEF Budget
    <3>4. QED
      BY <1>1, <2>1, <3>3
  <2>3. QED
    BY <1>1, <2>1, <2>2
<1>5. QED
  BY <1>3, <1>4, AliveMoves DEF CountInv

LEMMA GiveOf ==
    ASSUME Give(batch), NEW c \in Conversations, NEW v \in Versions
    PROVE  given'[c][v] = given[c][v] + Cardinality(Of(batch, c, v))
BY DEF Give, Of

\* What the model is given is no longer pending, for the files of its ids are
\* listed.
LEMMA AbsorbMoves ==
    ASSUME TypeOK, StageInv, ApartInv, Absorb
    PROVE  Pending' \cap batch = {} /\ Pending' \cup batch \subseteq Pending
<1>1. /\ writer = "absorb" /\ writer' = "flag" /\ UNCHANGED <<files, left, batch, opened>>
      /\ toFlag' = {p \in {PathOf(f) : f \in files} : \E e \in batch : Id(e) = p.id}
  BY DEF Absorb, List
<1>2. opened = {} /\ toFlag = {}
  BY <1>1 DEF StageInv
<1>3. Flagging = {} /\ Flagging' = toFlag'
  BY <1>1, <1>2 DEF Flagging
<1>4. Pending = left \cup batch \cup {EntryOf(f) : f \in {g \in files : ~g.absorbed}}
  BY <1>1, <1>3 DEF Pending
<1>5. Pending' = left \cup {EntryOf(f) : f \in {g \in files : ~g.absorbed /\ PathOf(g) \notin toFlag'}}
  BY <1>1, <1>3 DEF Pending, EntryOf, PathOf, Id
<1>6. ASSUME NEW f \in files, PathOf(f) \notin toFlag' PROVE EntryOf(f) \notin batch
  <2>1. Id(EntryOf(f)) = Id(f)
    BY Fields DEF TypeOK
  <2>2. PathOf(f).id = Id(f)
    BY DEF PathOf
  <2>3. QED
    BY <1>1, <1>6, <2>1, <2>2
<1>7. left \cap batch = {}
  BY DEF ApartInv
<1>8. QED
  BY <1>4, <1>5, <1>6, <1>7

LEMMA PendingStays ==
    ASSUME TypeOK, StageInv, ApartInv, [Next]_vars,
           ~(Persist \/ Absorb \/ AbsorbFails \/ WriterKilled)
    PROVE  Pending' \subseteq Pending /\ given' = given
<1>1. CASE Load
  <2>1. /\ writer = "idle" /\ writer' = "next" /\ UNCHANGED <<files, toFlag, opened, given>>
        /\ left' = {EntryOf(f) : f \in {g \in files : ~g.absorbed}}
    BY <1>1 DEF Load
  <2>2. Flagging = {}
    BY <2>1 DEF StageInv, Flagging
  <2>3. left' \subseteq Pending
    BY <2>1, <2>2 DEF Pending
  <2>4. Pending' \subseteq left'
    BY <2>1 DEF Pending, EntryOf
  <2>5. QED
    BY <2>1, <2>3, <2>4
<1>2. CASE NextBatch
  <2>1. /\ writer = "next" /\ UNCHANGED <<files, toFlag, opened, given>>
        /\ \/ left' = left /\ writer' = "idle"
           \/ left' \cup batch' \subseteq left
    BY <1>2 DEF NextBatch
  <2>2. Flagging' = Flagging
    BY <2>1 DEF Flagging, PathOf, Id
  <2>3. left' \cup (IF writer' = "absorb" THEN batch' ELSE {}) \subseteq left
    BY <2>1
  <2>4. QED
    BY <2>1, <2>2, <2>3 DEF Pending, EntryOf, PathOf, Id
<1>3. CASE OpenFile
  <2>1. /\ writer = "flag" /\ writer' = "save" /\ UNCHANGED <<files, left, given>>
        /\ \E f \in files : opened' = {f} /\ toFlag' = toFlag \ {PathOf(f)}
    BY <1>3 DEF OpenFile
  <2>2. opened = {}
    BY <2>1 DEF StageInv
  <2>3. Flagging \subseteq Flagging'
    BY <2>1, <2>2 DEF Flagging, PathOf, Id
  <2>4. QED
    BY <2>1, <2>3 DEF Pending, EntryOf, PathOf, Id
<1>4. CASE SaveFile
  <2>1. PICK f \in opened : files' = {g \in files : PathOf(g) # PathOf(f)} \cup {Flagged(f)}
    BY <1>4 DEF SaveFile
  <2>2. Flagged(f).absorbed /\ opened = {f}
    BY Fields DEF TypeOK, ApartInv
  <2>3. writer = "save" /\ writer' = "flag" /\ UNCHANGED <<left, toFlag, given>>
    BY <1>4 DEF SaveFile
  <2>4. toFlag \subseteq Flagging' /\ Flagging = toFlag \cup {PathOf(f)}
    BY <2>2, <2>3 DEF Flagging
  <2>5. \A g \in files' : ~g.absorbed /\ PathOf(g) \notin Flagging' => g \in files /\ PathOf(g) \notin Flagging
    BY <2>1, <2>2, <2>4
  <2>6. QED
    BY <2>3, <2>5 DEF Pending, EntryOf, PathOf, Id
<1>5. CASE Checkpoint
  BY <1>5 DEF Checkpoint, Pending, Flagging, EntryOf, PathOf, Id
<1>6. CASE UNCHANGED <<files, writer, left, batch, toFlag, opened, given>>
  BY <1>6 DEF Pending, Flagging, EntryOf, PathOf, Id
<1>7. \/ Load \/ NextBatch \/ OpenFile \/ SaveFile \/ Checkpoint
      \/ UNCHANGED <<files, writer, left, batch, toFlag, opened, given>>
  BY DEF Next, Intake, Writer, Fetch, FetchFails, MarkQueued, IntakeKilled, Post, NewDay, vars,
         writerVars
<1>8. QED
  BY <1>1, <1>2, <1>3, <1>4, <1>5, <1>6, <1>7

LEMMA GivenStep ==
    ASSUME TypeOK, FiniteInv, OneFound, StageInv, CountInv, [Next]_vars
    PROVE  GivenInv'
<1> SUFFICES ASSUME NEW c \in Conversations, NEW v \in Versions
             PROVE  given'[c][v] + Cardinality(Of(Pending', c, v))
                      <= Budget(c, v)' * (1 + faults'["writer"])
  BY DEF GivenInv, Of
<1> DEFINE B == Budget(c, v)
           D == Budget(c, v)'
           w == faults["writer"]
           x == faults'["writer"]
           P == Cardinality(Of(Pending, c, v))
           Q == Cardinality(Of(Pending', c, v))
           A == Cardinality(Of(Alive, c, v))
           G == given[c][v]
           H == given'[c][v]
<1> SUFFICES H + Q <= D * (1 + x)
  OBVIOUS
<1>1. /\ B \in Nat /\ D \in Nat /\ D >= B /\ w \in Nat /\ x \in Nat /\ x >= w
      /\ G \in Nat /\ P \in Nat /\ A \in Nat /\ A <= B /\ P <= A
      /\ G + P <= B * (1 + w)
  <2>1. B \in Nat /\ D \in Nat /\ D >= B
    BY BudgetStep DEF CountInv
  <2>2. w \in Nat /\ x \in Nat /\ x >= w
    BY FaultsMove DEF Programs
  <2>3. P \in Nat /\ A \in Nat /\ P <= A
    BY AliveFinite, OfSubset
  <2>4. G \in Nat
    BY DEF TypeOK
  <2>5. A <= B /\ G + P <= B * (1 + w)
    BY DEF CountInv, AliveInv, GivenInv
  <2>6. QED
    BY <2>1, <2>2, <2>3, <2>4, <2>5
<1>2. ASSUME NEW k \in Nat, H + Q <= k, k <= B * (1 + w), Q \in Nat, H \in Nat
      PROVE  H + Q <= D * (1 + x)
  <2> HIDE DEF B, D, w, x, P, Q, A, G, H
  <2>1. B * (1 + w) <= D * (1 + w)
    BY <1>1, Times
  <2>2. D * (1 + w) <= D * (1 + x)
    BY <1>1, Times
  <2>3. /\ B * (1 + w) \in Nat /\ D * (1 + w) \in Nat /\ D * (1 + x) \in Nat
    BY <1>1, Times
  <2>4. QED
    BY <1>2, <2>1, <2>2, <2>3
<1>3. CASE ~(Persist \/ Absorb \/ AbsorbFails \/ WriterKilled)
  <2>1. H = G /\ Q \in Nat /\ Q <= P
    BY <1>3, PendingStays, AliveFinite, OfSubset DEF CountInv
  <2> HIDE DEF B, D, w, x, P, Q, A, G, H
  <2>2. G + P \in Nat /\ H + Q <= G + P
    BY <1>1, <2>1
  <2>3. QED
    BY <1>1, <1>2, <2>1, <2>2
<1>4. CASE Persist
  <2>1. PICK e \in found : /\ Pending' \subseteq Pending \cup {EntryOf(New(e))}
                           /\ EntryOf(New(e)).of = e.of /\ EntryOf(New(e)).version = e.version
    BY <1>4, AliveMoves DEF CountInv
  <2>2. H = G /\ x = w
    BY <1>4 DEF Persist, writerVars
  <2>3. /\ Q \in Nat /\ Q <= P + 1
        /\ ~(e.of = c /\ e.version = v) => Q <= P
    BY <2>1, AliveFinite, OfAdded
  <2>4. CASE e.of = c /\ e.version = v
    <3>1. Free(c, v) /\ ~Free(c, v)'
      BY <1>4, <2>4, FreeTaken DEF CountInv
    <3>2. faults["intake"] \in Nat /\ faults' = faults
      BY <1>4 DEF TypeOK, Programs, Persist
    <3>3. D = B + 1
      BY <3>1, <3>2 DEF Budget
    <3> HIDE DEF B, D, w, x, P, Q, A, G, H
    <3>4. D * (1 + w) = B * (1 + w) + (1 + w) /\ B * (1 + w) \in Nat
      BY <1>1, <3>3, Times
    <3>5. QED
      BY <1>1, <2>2, <2>3, <3>4
  <2>5. CASE ~(e.of = c /\ e.version = v)
    <3> HIDE DEF B, D, w, x, P, Q, A, G, H
    <3>1. G + P \in Nat /\ H + Q <= G + P /\ Q \in Nat /\ H \in Nat
      BY <1>1, <2>2, <2>3, <2>5
    <3>2. QED
      BY <1>1, <1>2, <3>1
  <2>6. QED
    BY <2>4, <2>5
<1>5. CASE Absorb
  <2>1. H = G + Cardinality(Of(batch, c, v))
    BY <1>5, GiveOf DEF Absorb
  <2>2. Pending' \cap batch = {} /\ Pending' \cup batch \subseteq Pending
    BY <1>5, AbsorbMoves DEF CountInv
  <2>3. /\ Q \in Nat /\ Cardinality(Of(batch, c, v)) \in Nat
        /\ Cardinality(Of(batch, c, v)) + Q <= P
    BY <2>2, AliveFinite, OfApart
  <2> HIDE DEF B, D, w, x, P, Q, A, G, H
  <2>4. G + P \in Nat /\ H + Q <= G + P /\ Q \in Nat /\ H \in Nat
    BY <1>1, <2>1, <2>3
  <2>5. QED
    BY <1>1, <1>2, <2>4
<1>6. CASE AbsorbFails \/ WriterKilled
  <2>1. x = w + 1
    BY <1>6, FaultsMove
  <2>2. Pending' \subseteq Alive
    BY <1>6 DEF AbsorbFails, WriterKilled, Pending, Alive, Unread, EntryOf
  <2>3. Q \in Nat /\ Q <= A
    BY <2>2, AliveFinite, OfSubset
  <2>4. H \in Nat /\ H <= G + P
    <3>1. CASE H = G
      BY <1>1, <3>1
    <3>2. CASE AbsorbFails /\ Give(batch)
      <4>1. H = G + Cardinality(Of(batch, c, v))
        BY <3>2, GiveOf
      <4>2. batch \subseteq Pending
        BY <3>2 DEF AbsorbFails, Pending
      <4>3. Cardinality(Of(batch, c, v)) \in Nat /\ Cardinality(Of(batch, c, v)) <= P
        BY <4>2, AliveFinite, OfSubset
      <4>4. QED
        BY <1>1, <4>1, <4>3
    <3>3. QED
      BY <1>6, <3>1, <3>2 DEF AbsorbFails, WriterKilled
  <2> HIDE DEF B, D, w, x, P, Q, A, G, H
  <2>5. B * (1 + x) = B * (1 + w) + B /\ B * (1 + x) \in Nat /\ B * (1 + w) \in Nat
    BY <1>1, <2>1, Times
  <2>6. B * (1 + x) <= D * (1 + x) /\ D * (1 + x) \in Nat
    BY <1>1, Times
  <2>7. QED
    BY <1>1, <2>3, <2>4, <2>5, <2>6
<1>7. QED
  BY <1>3, <1>4, <1>5, <1>6

LEMMA InitCounted == Init => CountInv
<1> SUFFICES ASSUME Init PROVE CountInv
  OBVIOUS
<1>1. FoundInv /\ ApartInv
  BY DEF Init, FoundInv, ApartInv
<1>2. Alive = {} /\ Pending = {}
  BY DEF Init, Alive, Pending, Unread
<1>3. \A c, v : Of(Alive, c, v) = {} /\ Of(Pending, c, v) = {}
  BY <1>2 DEF Of
<1>4. Cardinality({}) = 0
  BY FS_EmptySet
<1>5. faults["intake"] = 0 /\ faults["writer"] = 0
  BY DEF Init, Programs
<1>6. \A c \in Conversations, v \in Versions : given[c][v] = 0
  BY DEF Init
<1>7. \A c, v : Budget(c, v) = 0 \/ Budget(c, v) = 1
  BY <1>5 DEF Budget
<1>8. AliveInv
  BY <1>3, <1>4, <1>7 DEF AliveInv
<1>9. GivenInv
  <2> SUFFICES ASSUME NEW c \in Conversations, NEW v \in Versions
               PROVE  given[c][v] + Cardinality(Of(Pending, c, v))
                        <= Budget(c, v) * (1 + faults["writer"])
    BY DEF GivenInv
  <2>1. Cardinality(Of(Pending, c, v)) = 0
    <3>1. Of(Pending, c, v) = {}
      BY <1>3
    <3>2. QED
      BY <3>1, <1>4
  <2>2. given[c][v] = 0
    BY <1>6
  <2>3. Budget(c, v) = 0 \/ Budget(c, v) = 1
    BY <1>7
  <2>4. 0 <= Budget(c, v) * (1 + faults["writer"])
    BY <1>5, <2>3
  <2>5. QED
    BY <2>1, <2>2, <2>4
<1>10. QED
  BY <1>1, <1>8, <1>9 DEF CountInv

LEMMA CountStep ==
    ASSUME TypeOK, FiniteInv, FlagInv, QueueInv, CountInv, [Next]_vars
    PROVE  CountInv'
BY FoundStep, ApartStep, AliveStep, GivenStep DEF CountInv, FlagInv, QueueInv

LEMMA AlwaysCounted == Spec => [](TypeOK /\ FiniteInv /\ CountInv)
<1>1. TypeOK /\ FiniteInv /\ FlagInv /\ QueueInv /\ CountInv /\ [Next]_vars => CountInv'
  BY CountStep
<1>2. QED
  BY <1>1, InitCounted, AlwaysQueued, PTL DEF Spec

LEMMA CountedOnce == ASSUME TypeOK, FiniteInv, CountInv PROVE GivenOnce
<1> SUFFICES ASSUME NEW c \in Conversations, NEW v \in Versions
             PROVE  given[c][v] <= (1 + faults["intake"]) * (1 + faults["writer"])
  BY DEF GivenOnce
<1>1. faults["intake"] \in Nat /\ faults["writer"] \in Nat /\ given[c][v] \in Nat
  BY DEF TypeOK, Programs
<1>2. Budget(c, v) \in Nat /\ Budget(c, v) <= 1 + faults["intake"]
  BY <1>1 DEF Budget
<1>3. Cardinality(Of(Pending, c, v)) \in Nat
  BY AliveFinite, OfSubset
<1>4. given[c][v] + Cardinality(Of(Pending, c, v)) <= Budget(c, v) * (1 + faults["writer"])
  BY DEF CountInv, GivenInv
<1>5. /\ Budget(c, v) * (1 + faults["writer"]) <= (1 + faults["intake"]) * (1 + faults["writer"])
      /\ Budget(c, v) * (1 + faults["writer"]) \in Nat
      /\ (1 + faults["intake"]) * (1 + faults["writer"]) \in Nat
  BY <1>1, <1>2, Times
<1>6. QED
  BY <1>1, <1>3, <1>4, <1>5

\* A version is given to the model once, and once more for each failure of the
\* intake agent; and each of these times once more for each failure of the
\* writer.
THEOREM GivenCorrect == Spec => []GivenOnce
<1>1. TypeOK /\ FiniteInv /\ CountInv => GivenOnce
  BY CountedOnce
<1>2. QED
  BY <1>1, AlwaysCounted, PTL

=============================================================================
