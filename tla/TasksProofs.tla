---------------------------- MODULE TasksProofs -----------------------------
(***************************************************************************)
(* Theorems about Tasks, for any mails, threads and notes, any page size   *)
(* and any bounds.                                                         *)
(***************************************************************************)
EXTENDS Tasks, SequenceTheorems, FiniteSetTheorems, TLAPS

USE PositiveAssumption, BoundsAssumption

-----------------------------------------------------------------------------
(* Types *)

\* Issues the manager knows exist, and it is at work on one at a time.
Known ==
    /\ \A x \in todo \cup cur : x.issue \in DOMAIN issues
    /\ \A x, y \in cur : x = y

Thing == [stage : Stages, art : SUBSET Artifacts, issue : Nat, row : Nat]

LEMMA InitTyped == Init => TypeOK
<1>1. 0 \in Times /\ 0 \in 0..MaxFaults /\ "idle" \in Labels /\ "idle" \in Stages
  BY DEF Times, Labels, Stages
<1>2. Idle \in Thing
  BY <1>1 DEF Idle, Thing
<1>3. <<>> \in Seq(Issue) /\ <<>> \in Seq(Row)
  BY EmptySeq
<1>4. QED
  BY <1>1, <1>2, <1>3 DEF Init, TypeOK, Thing

\* The elements of sequences, and adding one.
LEMMA Elements ==
    ASSUME TypeOK
    PROVE  /\ Len(issues) \in Nat /\ DOMAIN issues = 1..Len(issues)
           /\ \A i \in DOMAIN issues : issues[i] \in Issue
           /\ Len(rows) \in Nat /\ DOMAIN rows = 1..Len(rows)
           /\ \A r \in DOMAIN rows : rows[r] \in Row
BY ElementOfSeq, LenProperties DEF TypeOK

LEMMA ArtifactsOf == \A s \in Sources : From[s] \subseteq Artifacts
BY DEF Sources, From, Artifacts

LEMMA FaultTyped == ASSUME TypeOK, Fault PROVE faults' \in 0..MaxFaults
BY DEF TypeOK, Fault

\* What the intake does to an agent's place.
LEMMA ThingFields ==
    ASSUME NEW x \in Thing
    PROVE  /\ \A g \in Stages : [x EXCEPT !.stage = g] \in Thing
           /\ \A g \in Stages, r \in Nat : [x EXCEPT !.stage = g, !.row = r] \in Thing
           /\ x.art \subseteq Artifacts /\ x.issue \in Nat /\ x.row \in Nat
           /\ Idle \in Thing
BY DEF Thing, Idle, Stages

\* The bindings the agents make.
LEMMA BindingFields ==
    /\ \A i \in Nat : NewBinding(i) \in Binding
    /\ \A i, r \in Nat : [NewBinding(i) EXCEPT !.row = r] \in Binding
    /\ \A b \in Binding :
         /\ \A i \in Nat : [b EXCEPT !.issue = i] \in Binding
         /\ \A r \in Nat : [b EXCEPT !.row = r] \in Binding
         /\ [b EXCEPT !.archived = TRUE] \in Binding /\ [b EXCEPT !.replied = TRUE] \in Binding
         /\ \A st \in Finished : [b EXCEPT !.pushed = st] \in Binding
         /\ \A st \in Finished, r \in Nat : [b EXCEPT !.row = r, !.pushed = st] \in Binding
<1>1. \A i \in Nat : NewBinding(i) \in Binding
  BY DEF NewBinding, Binding
<1>2. \A b \in Binding :
         /\ \A i \in Nat : [b EXCEPT !.issue = i] \in Binding
         /\ \A r \in Nat : [b EXCEPT !.row = r] \in Binding
         /\ [b EXCEPT !.archived = TRUE] \in Binding /\ [b EXCEPT !.replied = TRUE] \in Binding
         /\ \A st \in Finished : [b EXCEPT !.pushed = st] \in Binding
         /\ \A st \in Finished, r \in Nat : [b EXCEPT !.row = r, !.pushed = st] \in Binding
  BY DEF Binding
<1>3. QED
  BY <1>1, <1>2

LEMMA IntakeTyped ==
    ASSUME TypeOK, NEW s \in Sources, Intake(s) \/ IntakeFails(s)
    PROVE  TypeOK'
<1>0. intake \in [Sources -> Thing] /\ intake[s] \in Thing /\ {"idle", "bind", "mark", "sync", "attach"} = Stages
  BY DEF TypeOK, Thing, Stages
<1>1. CASE CreateIssue(s)
  <2>1. PICK a \in From[s] :
          /\ issues' = Append(issues, [art |-> a, state |-> "open", at |-> clock])
          /\ intake' = [intake EXCEPT ![s] =
                [stage |-> "bind", art |-> {a}, issue |-> Len(issues'), row |-> 0]]
    BY <1>1 DEF CreateIssue
  <2>2. [art |-> a, state |-> "open", at |-> clock] \in Issue
    BY ArtifactsOf DEF TypeOK, Issue, States
  <2>3. issues' \in Seq(Issue) /\ Len(issues') \in Nat
    BY <2>1, <2>2, AppendProperties, LenProperties DEF TypeOK
  <2>4. [stage |-> "bind", art |-> {a}, issue |-> Len(issues'), row |-> 0] \in Thing
    BY <2>3, ArtifactsOf DEF Thing, Stages
  <2>5. intake' \in [Sources -> Thing]
    BY <1>0, <2>1, <2>4
  <2>6. QED
    BY <1>1, <2>3, <2>5 DEF CreateIssue, TypeOK, Thing, managerVars
<1>2. CASE Bind(s)
  <2>1. PICK a \in intake[s].art : bindings' = [bindings EXCEPT ![a] = Linked(a, intake[s].issue)]
    BY <1>2 DEF Bind
  <2>2. a \in Artifacts /\ intake[s].issue \in Nat
    BY <1>0, ThingFields
  <2>3. Linked(a, intake[s].issue) \subseteq Binding
    <3>1. \A b \in bindings[a] : b \in Binding
      BY <2>2 DEF TypeOK
    <3>2. NewBinding(intake[s].issue) \in Binding
      BY <2>2, BindingFields
    <3>3. \A b \in bindings[a] : [b EXCEPT !.issue = intake[s].issue] \in Binding
      BY <2>2, <3>1, BindingFields
    <3>4. QED
      BY <3>2, <3>3 DEF Linked
  <2>4. bindings' \in [Artifacts -> SUBSET Binding]
    BY <2>1, <2>2, <2>3 DEF TypeOK
  <2>5. PICK g \in Stages : intake' = [intake EXCEPT ![s] = [intake[s] EXCEPT !.stage = g]]
    BY <1>0, <1>2 DEF Bind
  <2>6. intake' \in [Sources -> Thing]
    BY <1>0, <2>5, ThingFields
  <2>7. QED
    BY <1>2, <2>4, <2>6 DEF Bind, TypeOK, Thing, services, managerVars
<1>3. CASE MarkRouted(s)
  <2>1. intake' \in [Sources -> Thing] /\ handled' \subseteq Artifacts
    BY <1>0, <1>3, ThingFields DEF MarkRouted, TypeOK
  <2>2. QED
    BY <1>3, <2>1 DEF MarkRouted, TypeOK, Thing, services, managerVars
<1>4. CASE CreateFirstRow(s)
  <2>1. [issue |-> intake[s].issue, state |-> "open"] \in Row
    BY <1>0, ThingFields DEF Row, States
  <2>2. rows' \in Seq(Row) /\ Len(rows') \in Nat
    BY <1>4, <2>1, AppendProperties, LenProperties DEF CreateFirstRow, TypeOK
  <2>3. intake' = [intake EXCEPT ![s] = [intake[s] EXCEPT !.stage = "attach", !.row = Len(rows')]]
    BY <1>0, <1>4 DEF CreateFirstRow
  <2>4. intake' \in [Sources -> Thing]
    BY <1>0, <2>2, <2>3, ThingFields
  <2>5. QED
    BY <1>4, <2>2, <2>4 DEF CreateFirstRow, TypeOK, Thing, managerVars
<1>5. CASE AttachFirstRow(s)
  <2>1. PICK a \in intake[s].art :
          bindings' = [bindings EXCEPT ![a] =
            {[NewBinding(intake[s].issue) EXCEPT !.row = intake[s].row]}]
    BY <1>5 DEF AttachFirstRow
  <2>2. bindings' \in [Artifacts -> SUBSET Binding]
    <3>1. intake[s].issue \in Nat /\ intake[s].row \in Nat
      BY <1>0, ThingFields
    <3>2. [NewBinding(intake[s].issue) EXCEPT !.row = intake[s].row] \in Binding
      BY <3>1, BindingFields
    <3>3. QED
      BY <2>1, <3>2 DEF TypeOK
  <2>3. intake' \in [Sources -> Thing]
    BY <1>0, <1>5, ThingFields DEF AttachFirstRow
  <2>4. QED
    BY <1>5, <2>2, <2>3 DEF AttachFirstRow, TypeOK, Thing, services, managerVars
<1>6. CASE IntakeFails(s)
  <2>1. intake' \in [Sources -> Thing]
    BY <1>0, <1>6, ThingFields DEF IntakeFails
  <2>2. QED
    BY <1>6, <2>1, FaultTyped DEF IntakeFails, TypeOK, Thing, services, managerVars
<1>7. QED
  BY <1>1, <1>2, <1>3, <1>4, <1>5, <1>6 DEF Intake

LEMMA WorldTyped ==
    ASSUME TypeOK, LinkRow \/ MoveIssue \/ Tick \/ UNCHANGED vars
    PROVE  TypeOK'
<1>1. CASE LinkRow
  <2>1. PICK r \in DOMAIN rows, a \in Artifacts : \E b \in bindings[a] :
          bindings' = [bindings EXCEPT ![a] = {[b EXCEPT !.row = r]}]
    BY <1>1 DEF LinkRow
  <2>2. r \in Nat
    BY Elements
  <2>3. bindings' \in [Artifacts -> SUBSET Binding]
    <3>1. PICK b \in bindings[a] : bindings' = [bindings EXCEPT ![a] = {[b EXCEPT !.row = r]}]
      BY <2>1
    <3>2. b \in Binding
      BY DEF TypeOK
    <3>3. [b EXCEPT !.row = r] \in Binding
      BY <2>2, <3>2, BindingFields
    <3>4. QED
      BY <3>1, <3>3 DEF TypeOK
  <2>4. QED
    BY <1>1, <2>3 DEF LinkRow, TypeOK, services, intakeVars, managerVars
<1>2. CASE MoveIssue
  <2>1. PICK i \in DOMAIN issues, st \in States :
          issues' = [issues EXCEPT ![i].state = st, ![i].at = clock]
    BY <1>2 DEF MoveIssue
  <2>2. issues[i] \in Issue /\ i \in 1..Len(issues)
    BY Elements
  <2>3. [issues[i] EXCEPT !.state = st, !.at = clock] \in Issue
    BY <2>2 DEF TypeOK, Issue
  <2>4. issues' = [issues EXCEPT ![i] = [issues[i] EXCEPT !.state = st, !.at = clock]]
    BY <2>1, <2>2
  <2>5. issues' \in Seq(Issue)
    BY <2>2, <2>3, <2>4, ExceptSeq DEF TypeOK
  <2>6. QED
    BY <1>2, <2>5 DEF MoveIssue, TypeOK, intakeVars, managerVars
<1>3. CASE Tick
  <2>1. clock' \in Times
    BY <1>3 DEF Tick, TypeOK, Times
  <2>2. QED
    BY <1>3, <2>1 DEF Tick, TypeOK, services, intakeVars, managerVars
<1>4. CASE UNCHANGED vars
  BY <1>4 DEF vars, TypeOK, services, intakeVars, managerVars
<1>5. QED
  BY <1>1, <1>2, <1>3, <1>4

LEMMA PollTyped ==
    ASSUME TypeOK, Known, Poll \/ PollEnds \/ Dispatch \/ GiveUp \/ NothingToTell
    PROVE  TypeOK'
<1>1. CASE Poll
  <2>1. PICK page \in SUBSET Updated :
          todo' = {[issue |-> i, state |-> issues[i].state, at |-> issues[i].at] :
                        i \in {j \in page : issues[j].state # "open"}}
    BY <1>1 DEF Poll
  <2>2. \A i \in page : issues[i] \in Issue /\ i \in Nat
    BY <2>1, Elements DEF Updated
  <2>3. \A i \in page : issues[i].state # "open" =>
          [issue |-> i, state |-> issues[i].state, at |-> issues[i].at] \in Seen
    BY <2>2 DEF Issue, Seen, States
  <2>4. todo' \subseteq Seen
    BY <2>1, <2>3
  <2>5. QED
    BY <1>1, <2>4 DEF Poll, Manages, NoFault, TypeOK, Labels, intakeVars
<1>2. CASE PollEnds
  BY <1>2 DEF PollEnds, Manages, NoFault, TypeOK, Labels, intakeVars
<1>3. CASE Dispatch
  <2>1. todo' \subseteq Seen /\ cur' \subseteq Seen
    BY <1>3 DEF Dispatch, TypeOK
  <2>2. copy' \subseteq Binding
    BY <1>3 DEF Dispatch, TypeOK, Bound
  <2>3. pc' \in Labels
    BY <1>3 DEF Dispatch, TypeOK, Labels
  <2>4. QED
    BY <1>3, <2>1, <2>2, <2>3 DEF Dispatch, Manages, NoFault, TypeOK, intakeVars
<1>4. CASE GiveUp
  <2>1. PICK x \in cur : gaveUp' = gaveUp \cup {issues[x.issue].art}
    BY <1>4 DEF GiveUp
  <2>2. issues[x.issue].art \in Artifacts
    BY Elements DEF Known, Issue
  <2>3. gaveUp' \in SUBSET Artifacts
    BY <2>1, <2>2 DEF TypeOK
  <2>4. pc' \in Labels
    BY <1>4 DEF GiveUp, Labels
  <2>5. QED
    BY <1>4, <2>3, <2>4 DEF GiveUp, Manages, NoFault, TypeOK, intakeVars
<1>5. CASE NothingToTell
  BY <1>5 DEF NothingToTell, Manages, NoFault, TypeOK, Labels, intakeVars
<1>6. QED
  BY <1>1, <1>2, <1>3, <1>4, <1>5

LEMMA TellTyped ==
    ASSUME TypeOK, ArchiveMail \/ Reply \/ ReplyRefused
    PROVE  TypeOK'
<1>0. "save" \in Labels
  BY DEF Labels
<1>1. CASE ArchiveMail
  <2>1. PICK x \in cur, b \in copy :
          /\ issues[x.issue].art \in Mails
          /\ archived' = archived \cup {issues[x.issue].art}
          /\ copy' = {[b EXCEPT !.archived = TRUE]}
    BY <1>1 DEF ArchiveMail
  <2>2. copy' \subseteq Binding
    BY <2>1, BindingFields DEF TypeOK
  <2>3. archived' \in SUBSET Mails
    BY <2>1 DEF TypeOK
  <2>4. QED
    BY <1>0, <1>1, <2>2, <2>3 DEF ArchiveMail, Manages, NoFault, TypeOK, intakeVars
<1>2. CASE Reply
  <2>1. PICK x \in cur, b \in copy :
          /\ issues[x.issue].art \in Threads
          /\ replies' = [replies EXCEPT ![issues[x.issue].art] = @ + 1]
          /\ copy' = {[b EXCEPT !.replied = TRUE]}
    BY <1>2 DEF Reply
  <2>2. copy' \subseteq Binding
    BY <2>1, BindingFields DEF TypeOK
  <2>3. replies' \in [Threads -> Nat]
    BY <2>1 DEF TypeOK
  <2>4. QED
    BY <1>0, <1>2, <2>2, <2>3 DEF Reply, Manages, NoFault, TypeOK, intakeVars
<1>3. CASE ReplyRefused
  <2>1. PICK x \in cur, b \in copy :
          /\ issues[x.issue].art \in Threads
          /\ gaveUp' = gaveUp \cup {issues[x.issue].art}
          /\ copy' = {[b EXCEPT !.replied = TRUE]}
    BY <1>3 DEF ReplyRefused
  <2>2. copy' \subseteq Binding
    BY <2>1, BindingFields DEF TypeOK
  <2>3. gaveUp' \in SUBSET Artifacts
    BY <2>1 DEF TypeOK, Artifacts
  <2>4. QED
    BY <1>0, <1>3, <2>2, <2>3, FaultTyped
    DEF ReplyRefused, Manages, services, TypeOK, intakeVars
<1>4. QED
  BY <1>1, <1>2, <1>3

LEMMA RowTyped == ASSUME TypeOK, SyncRow PROVE TypeOK'
<1>1. PICK x \in cur, b \in copy :
         \/ /\ rows' = Append(rows, [issue |-> x.issue, state |-> x.state])
            /\ copy' = {[b EXCEPT !.row = Len(rows'), !.pushed = x.state]}
         \/ /\ rows' = [rows EXCEPT ![b.row].state = x.state]
            /\ copy' = {[b EXCEPT !.pushed = x.state]}
  BY DEF SyncRow
<1>2. x \in Seen /\ b \in Binding
  BY DEF TypeOK
<1>3. x.issue \in Nat /\ x.state \in Finished /\ x.state \in States
  BY <1>2 DEF Seen, States
<1>4. rows' \in Seq(Row)
  <2>1. CASE rows' = Append(rows, [issue |-> x.issue, state |-> x.state])
    <3>1. [issue |-> x.issue, state |-> x.state] \in Row
      BY <1>3 DEF Row
    <3>2. QED
      BY <2>1, <3>1, AppendProperties DEF TypeOK
  <2>2. CASE rows' = [rows EXCEPT ![b.row].state = x.state]
    <3>1. CASE b.row \in DOMAIN rows
      <4>1. [rows[b.row] EXCEPT !.state = x.state] \in Row
        BY <1>3, <3>1, Elements DEF Row
      <4>2. rows' = [rows EXCEPT ![b.row] = [rows[b.row] EXCEPT !.state = x.state]]
        BY <2>2, <3>1
      <4>3. QED
        BY <3>1, <4>1, <4>2, Elements, ExceptSeq DEF TypeOK
    <3>2. CASE b.row \notin DOMAIN rows
      <4>1. rows' = rows
        BY <2>2, <3>2, Elements DEF TypeOK
      <4>2. QED
        BY <4>1 DEF TypeOK
    <3>3. QED
      BY <3>1, <3>2
  <2>3. QED
    BY <1>1, <2>1, <2>2
<1>5. Len(rows') \in Nat
  BY <1>4, LenProperties
<1>6. copy' \subseteq Binding
  <2>1. \A r \in Nat : [b EXCEPT !.row = r, !.pushed = x.state] \in Binding
    BY <1>2, <1>3, BindingFields
  <2>2. [b EXCEPT !.pushed = x.state] \in Binding
    BY <1>2, <1>3, BindingFields
  <2>3. [b EXCEPT !.row = Len(rows'), !.pushed = x.state] \in Binding
    BY <1>5, <2>1
  <2>4. QED
    BY <1>1, <2>2, <2>3
<1>7. pc' \in Labels
  BY DEF SyncRow, Labels
<1>8. QED
  BY <1>4, <1>6, <1>7 DEF SyncRow, Manages, NoFault, TypeOK, intakeVars

LEMMA RecordTyped ==
    ASSUME TypeOK, SaveBinding \/ RecordCompletion \/ MarkHandled \/ ManagerFails
    PROVE  TypeOK'
<1>1. CASE SaveBinding
  <2>1. bindings' \in [Artifacts -> SUBSET Binding]
    BY <1>1 DEF SaveBinding, TypeOK
  <2>2. QED
    BY <1>1, <2>1 DEF SaveBinding, Manages, NoFault, TypeOK, Labels, intakeVars
<1>2. CASE RecordCompletion
  <2>1. \A x \in cur : x.issue \in Nat
    BY DEF TypeOK, Seen
  <2>2. recorded' \in SUBSET Nat
    BY <1>2, <2>1 DEF RecordCompletion, TypeOK
  <2>3. QED
    BY <1>2, <2>2 DEF RecordCompletion, Manages, NoFault, TypeOK, Labels, intakeVars
<1>3. CASE MarkHandled
  BY <1>3 DEF MarkHandled, Manages, NoFault, TypeOK, Labels, intakeVars
<1>4. CASE ManagerFails
  BY <1>4, FaultTyped DEF ManagerFails, Manages, TypeOK, Labels, intakeVars
<1>5. QED
  BY <1>1, <1>2, <1>3, <1>4

LEMMA StepTyped == ASSUME TypeOK, Known, [Next]_vars PROVE TypeOK'
BY IntakeTyped, WorldTyped, PollTyped, TellTyped, RowTyped, RecordTyped
DEF Next, Manager, Tell

-----------------------------------------------------------------------------
(* What only grows *)

\* An issue keeps its number and its origin.
LEMMA IssuesGrow ==
    ASSUME TypeOK, [Next]_vars
    PROVE  \A i \in DOMAIN issues : i \in DOMAIN issues' /\ issues'[i].art = issues[i].art
<1>1. CASE UNCHANGED issues
  BY <1>1
<1>2. ASSUME NEW s \in Sources, CreateIssue(s)
      PROVE  \A i \in DOMAIN issues : i \in DOMAIN issues' /\ issues'[i] = issues[i]
  <2>1. PICK a \in From[s] : issues' = Append(issues, [art |-> a, state |-> "open", at |-> clock])
    BY <1>2 DEF CreateIssue
  <2>2. [art |-> a, state |-> "open", at |-> clock] \in Issue
    BY ArtifactsOf DEF TypeOK, Issue, States
  <2>3. QED
    BY <2>1, <2>2, AppendProperties, Elements DEF TypeOK
<1>3. ASSUME MoveIssue
      PROVE  \A i \in DOMAIN issues : i \in DOMAIN issues' /\ issues'[i].art = issues[i].art
  <2>1. PICK j \in DOMAIN issues, st \in States :
          issues' = [issues EXCEPT ![j].state = st, ![j].at = clock]
    BY <1>3 DEF MoveIssue
  <2>2. DOMAIN issues' = DOMAIN issues
    BY <2>1
  <2>3. \A i \in DOMAIN issues : i # j => issues'[i] = issues[i]
    BY <2>1
  <2>4. issues[j] \in Issue
    BY Elements
  <2>5. issues'[j] = [issues[j] EXCEPT !.state = st, !.at = clock]
    BY <2>1
  <2>6. issues'[j].art = issues[j].art
    BY <2>4, <2>5 DEF Issue
  <2>7. QED
    BY <2>2, <2>3, <2>6
<1>4. \/ UNCHANGED issues \/ MoveIssue \/ \E s \in Sources : CreateIssue(s)
  BY DEF Next, Intake, Bind, MarkRouted, CreateFirstRow, AttachFirstRow, IntakeFails, LinkRow,
         Manager, Tell, Poll, PollEnds, Dispatch, GiveUp, NothingToTell, ArchiveMail, Reply,
         SyncRow, SaveBinding, RecordCompletion, MarkHandled, ManagerFails, ReplyRefused,
         Manages, Tick, vars, services
<1>5. QED
  BY <1>1, <1>2, <1>3, <1>4

LEMMA KnownStep == ASSUME TypeOK, Known, [Next]_vars PROVE Known'
<1>1. CASE UNCHANGED <<todo, cur>>
  BY <1>1, IssuesGrow DEF Known
<1>2. CASE Poll
  <2>1. PICK page \in SUBSET Updated :
          todo' = {[issue |-> i, state |-> issues[i].state, at |-> issues[i].at] :
                        i \in {j \in page : issues[j].state # "open"}}
    BY <1>2 DEF Poll
  <2>2. \A x \in todo' : x.issue \in DOMAIN issues
    BY <2>1 DEF Updated
  <2>3. cur' = cur /\ issues' = issues
    BY <1>2 DEF Poll, Manages
  <2>4. QED
    BY <2>2, <2>3 DEF Known
<1>3. CASE Dispatch
  <2>1. todo' \subseteq todo /\ (cur' = cur \/ \E x \in todo : cur' = {x}) /\ issues' = issues
    BY <1>3 DEF Dispatch, Manages
  <2>2. QED
    BY <2>1 DEF Known
<1>4. CASE MarkHandled
  BY <1>4 DEF MarkHandled, Manages, Known
<1>5. CASE ManagerFails
  BY <1>5 DEF ManagerFails, Manages, Known
<1>6. \/ UNCHANGED <<todo, cur>> \/ Poll \/ Dispatch \/ MarkHandled \/ ManagerFails
  BY DEF Next, Intake, CreateIssue, Bind, MarkRouted, CreateFirstRow, AttachFirstRow,
         IntakeFails, LinkRow, Manager, Tell, PollEnds, GiveUp, NothingToTell, ArchiveMail,
         Reply, SyncRow, SaveBinding, RecordCompletion, ReplyRefused, MoveIssue, Tick, vars,
         managerVars
<1>7. QED
  BY <1>1, <1>2, <1>3, <1>4, <1>5, <1>6

LEMMA AlwaysTyped == Spec => [](TypeOK /\ Known)
<1>1. Init => Known
  BY DEF Init, Known
<1>2. TypeOK /\ Known /\ [Next]_vars => TypeOK' /\ Known'
  BY StepTyped, KnownStep
<1>3. QED
  BY <1>1, <1>2, InitTyped, PTL DEF Spec

\* Every value of the services, the bindings, the intake agents and the manager
\* keeps its type.
THEOREM TypeCorrect == Spec => []TypeOK
BY AlwaysTyped, PTL

-----------------------------------------------------------------------------
(* Rows, bindings and agents name issues of one origin *)

Art(i) == issues[i].art

RowLinks == \A r \in DOMAIN rows : rows[r].issue \in DOMAIN issues
BindingLinks ==
    \A a \in Artifacts : \A b \in bindings[a] : b.issue \in DOMAIN issues /\ Art(b.issue) = a
IntakeLinks ==
    \A s \in Sources :
        /\ intake[s].stage # "idle" =>
             intake[s].issue \in DOMAIN issues /\ intake[s].art = {Art(intake[s].issue)}
        /\ intake[s].stage = "attach" =>
             intake[s].row \in DOMAIN rows /\ rows[intake[s].row].issue = intake[s].issue
CopyLinks ==
    \A x \in cur, b \in copy : b.issue \in DOMAIN issues /\ Art(b.issue) = Art(x.issue)
RecordLinks == recorded \subseteq DOMAIN issues

LinkInv == RowLinks /\ BindingLinks /\ IntakeLinks /\ CopyLinks /\ RecordLinks

\* A row keeps its number and its issue, and is not opened again.
LEMMA RowsGrow ==
    ASSUME TypeOK, [Next]_vars
    PROVE  \A r \in DOMAIN rows :
             /\ r \in DOMAIN rows' /\ rows'[r].issue = rows[r].issue
             /\ rows[r].state # "open" => rows'[r].state # "open"
<1>1. CASE UNCHANGED rows
  BY <1>1
<1>2. ASSUME NEW x \in Row, rows' = Append(rows, x)
      PROVE  \A r \in DOMAIN rows : r \in DOMAIN rows' /\ rows'[r] = rows[r]
  BY <1>2, AppendProperties, Elements DEF TypeOK
<1>3. ASSUME NEW k, NEW st \in Finished, rows' = [rows EXCEPT ![k].state = st]
      PROVE  \A r \in DOMAIN rows :
             /\ r \in DOMAIN rows' /\ rows'[r].issue = rows[r].issue
             /\ rows[r].state # "open" => rows'[r].state # "open"
  <2>1. DOMAIN rows' = DOMAIN rows
    BY <1>3
  <2>2. \A r \in DOMAIN rows : r # k => rows'[r] = rows[r]
    BY <1>3
  <2>3. ASSUME k \in DOMAIN rows PROVE rows'[k].issue = rows[k].issue /\ rows'[k].state = st
    <3>1. rows'[k] = [rows[k] EXCEPT !.state = st] /\ rows[k] \in Row
      BY <1>3, <2>3, Elements
    <3>2. QED
      BY <3>1 DEF Row
  <2>4. st # "open"
    BY OpenAssumption
  <2>5. QED
    BY <2>1, <2>2, <2>3, <2>4
<1>4. ASSUME NEW s \in Sources, CreateFirstRow(s)
      PROVE  \E x \in Row : rows' = Append(rows, x)
  <2>1. intake[s] \in Thing
    BY DEF TypeOK, Thing
  <2>2. [issue |-> intake[s].issue, state |-> "open"] \in Row
    BY <2>1, ThingFields DEF Row, States
  <2>3. QED
    BY <1>4, <2>2 DEF CreateFirstRow
<1>5. ASSUME SyncRow
      PROVE  \/ \E x \in Row : rows' = Append(rows, x)
             \/ \E k : \E st \in Finished : rows' = [rows EXCEPT ![k].state = st]
  <2>1. PICK x \in cur, b \in copy :
           \/ rows' = Append(rows, [issue |-> x.issue, state |-> x.state])
           \/ rows' = [rows EXCEPT ![b.row].state = x.state]
    BY <1>5 DEF SyncRow
  <2>2. x.issue \in Nat /\ x.state \in Finished
    BY DEF TypeOK, Seen
  <2>3. [issue |-> x.issue, state |-> x.state] \in Row
    BY <2>2 DEF Row, States
  <2>4. QED
    BY <2>1, <2>2, <2>3
<1>6. \/ UNCHANGED rows \/ SyncRow \/ \E s \in Sources : CreateFirstRow(s)
  BY DEF Next, Intake, CreateIssue, Bind, MarkRouted, AttachFirstRow, IntakeFails, LinkRow,
         Manager, Tell, Poll, PollEnds, Dispatch, GiveUp, NothingToTell, ArchiveMail, Reply,
         SaveBinding, RecordCompletion, MarkHandled, ManagerFails, ReplyRefused, MoveIssue,
         Tick, vars, services
<1>7. QED
  BY <1>1, <1>2, <1>3, <1>4, <1>5, <1>6

LEMMA RowLinksStep == ASSUME TypeOK, Known, LinkInv, [Next]_vars PROVE RowLinks'
<1>1. ASSUME rows' = rows PROVE RowLinks'
  BY <1>1, IssuesGrow DEF LinkInv, RowLinks
<1>2. ASSUME NEW x \in Row, x.issue \in DOMAIN issues, rows' = Append(rows, x) PROVE RowLinks'
  BY <1>2, AppendProperties, IssuesGrow, Elements DEF LinkInv, RowLinks, TypeOK
<1>3. ASSUME NEW s \in Sources, CreateFirstRow(s) PROVE RowLinks'
  <2>1. intake[s] \in Thing
    BY DEF TypeOK, Thing
  <2>2. [issue |-> intake[s].issue, state |-> "open"] \in Row
    BY <2>1, ThingFields DEF Row, States
  <2>3. intake[s].issue \in DOMAIN issues
    BY <1>3 DEF CreateFirstRow, LinkInv, IntakeLinks
  <2>4. QED
    BY <1>2, <1>3, <2>2, <2>3 DEF CreateFirstRow
<1>4. ASSUME SyncRow PROVE RowLinks'
  <2>1. PICK x \in cur, b \in copy :
           \/ rows' = Append(rows, [issue |-> x.issue, state |-> x.state])
           \/ rows' = [rows EXCEPT ![b.row].state = x.state]
    BY <1>4 DEF SyncRow
  <2>2. CASE rows' = Append(rows, [issue |-> x.issue, state |-> x.state])
    <3>1. x.issue \in Nat /\ x.state \in Finished /\ x.issue \in DOMAIN issues
      BY DEF TypeOK, Seen, Known
    <3>2. [issue |-> x.issue, state |-> x.state] \in Row
      BY <3>1 DEF Row, States
    <3>3. QED
      BY <1>2, <2>2, <3>1, <3>2
  <2>3. CASE rows' = [rows EXCEPT ![b.row].state = x.state]
    <3>1. DOMAIN rows' = DOMAIN rows
      BY <2>3
    <3>2. QED
      BY <3>1, RowsGrow, IssuesGrow DEF LinkInv, RowLinks
  <2>4. QED
    BY <2>1, <2>2, <2>3
<1>5. \/ UNCHANGED rows \/ SyncRow \/ \E s \in Sources : CreateFirstRow(s)
  BY DEF Next, Intake, CreateIssue, Bind, MarkRouted, AttachFirstRow, IntakeFails, LinkRow,
         Manager, Tell, Poll, PollEnds, Dispatch, GiveUp, NothingToTell, ArchiveMail, Reply,
         SaveBinding, RecordCompletion, MarkHandled, ManagerFails, ReplyRefused, MoveIssue,
         Tick, vars, services
<1>6. QED
  BY <1>1, <1>3, <1>4, <1>5

\* A binding that names an issue of a goes on naming an issue of a.
LEMMA StillNamed ==
    ASSUME TypeOK, [Next]_vars
    PROVE  \A i \in DOMAIN issues : i \in DOMAIN issues' /\ Art(i)' = Art(i)
BY IssuesGrow DEF Art

LEMMA IssueOf ==
    /\ \A i \in Nat : NewBinding(i).issue = i
    /\ \A i, r \in Nat : [NewBinding(i) EXCEPT !.row = r].issue = i
    /\ \A b \in Binding :
         /\ \A i \in Nat : [b EXCEPT !.issue = i].issue = i
         /\ \A r \in Nat : [b EXCEPT !.row = r].issue = b.issue
         /\ [b EXCEPT !.archived = TRUE].issue = b.issue
         /\ [b EXCEPT !.replied = TRUE].issue = b.issue
         /\ \A st \in Finished : [b EXCEPT !.pushed = st].issue = b.issue
         /\ \A st \in Finished, r \in Nat : [b EXCEPT !.row = r, !.pushed = st].issue = b.issue
<1>1. \A i \in Nat : NewBinding(i).issue = i
  BY DEF NewBinding
<1>2. \A i, r \in Nat : [NewBinding(i) EXCEPT !.row = r].issue = i
  BY DEF NewBinding
<1>3. ASSUME NEW b \in Binding
      PROVE  /\ \A i \in Nat : [b EXCEPT !.issue = i].issue = i
             /\ \A r \in Nat : [b EXCEPT !.row = r].issue = b.issue
             /\ [b EXCEPT !.archived = TRUE].issue = b.issue
             /\ [b EXCEPT !.replied = TRUE].issue = b.issue
             /\ \A st \in Finished : [b EXCEPT !.pushed = st].issue = b.issue
             /\ \A st \in Finished, r \in Nat :
                    [b EXCEPT !.row = r, !.pushed = st].issue = b.issue
  BY DEF Binding
<1>4. QED
  BY <1>1, <1>2, <1>3

\* Where an intake agent is working, its place is typed and linked.
LEMMA PlaceOf ==
    ASSUME TypeOK, LinkInv, NEW s \in Sources, intake[s].stage # "idle"
    PROVE  /\ intake[s].issue \in Nat /\ intake[s].row \in Nat
           /\ intake[s].issue \in DOMAIN issues /\ intake[s].art = {Art(intake[s].issue)}
           /\ intake[s].art \subseteq Artifacts
<1>1. intake[s] \in Thing
  BY DEF TypeOK, Thing
<1>2. QED
  BY <1>1, ThingFields DEF LinkInv, IntakeLinks

\* One artifact's binding is replaced.
LEMMA BindingLinksSet ==
    ASSUME TypeOK, LinkInv, [Next]_vars, NEW a, NEW S,
           bindings' = [bindings EXCEPT ![a] = S],
           \A b \in S : b.issue \in DOMAIN issues /\ Art(b.issue) = a
    PROVE  BindingLinks'
<1>1. SUFFICES ASSUME NEW x \in Artifacts, NEW b \in bindings'[x]
               PROVE  b.issue \in DOMAIN issues' /\ Art(b.issue)' = x
  BY DEF BindingLinks
<1>2. b.issue \in DOMAIN issues /\ Art(b.issue) = x
  <2>1. CASE x = a
    BY <2>1 DEF TypeOK
  <2>2. CASE x # a
    BY <2>2 DEF TypeOK, LinkInv, BindingLinks
  <2>3. QED
    BY <2>1, <2>2
<1>3. QED
  BY <1>2, StillNamed DEF Art

LEMMA BindingLinksStep == ASSUME TypeOK, Known, LinkInv, [Next]_vars PROVE BindingLinks'
<1>1. ASSUME bindings' = bindings PROVE BindingLinks'
  BY <1>1, StillNamed DEF LinkInv, BindingLinks, Art
<1>2. ASSUME NEW s \in Sources, Bind(s) PROVE BindingLinks'
  <2>0. intake[s].stage # "idle"
    BY <1>2 DEF Bind
  <2>1. PICK a \in intake[s].art : bindings' = [bindings EXCEPT ![a] = Linked(a, intake[s].issue)]
    BY <1>2 DEF Bind
  <2>2. a \in Artifacts /\ intake[s].issue \in DOMAIN issues /\ Art(intake[s].issue) = a
    BY <2>0, PlaceOf
  <2>3. \A b \in bindings[a] : b \in Binding
    BY <2>2 DEF TypeOK
  <2>4. \A b \in Linked(a, intake[s].issue) : b.issue = intake[s].issue
    <3>1. intake[s].issue \in Nat
      BY <2>0, PlaceOf
    <3>2. NewBinding(intake[s].issue).issue = intake[s].issue
      BY <3>1, IssueOf
    <3>3. \A b \in bindings[a] : [b EXCEPT !.issue = intake[s].issue].issue = intake[s].issue
      BY <2>3, <3>1, IssueOf
    <3>4. QED
      BY <3>2, <3>3 DEF Linked
  <2>5. QED
    BY <2>1, <2>2, <2>4, BindingLinksSet
<1>3. ASSUME NEW s \in Sources, AttachFirstRow(s) PROVE BindingLinks'
  <2>0. intake[s].stage # "idle"
    BY <1>3 DEF AttachFirstRow
  <2>1. PICK a \in intake[s].art :
          bindings' = [bindings EXCEPT ![a] =
            {[NewBinding(intake[s].issue) EXCEPT !.row = intake[s].row]}]
    BY <1>3 DEF AttachFirstRow
  <2>2. intake[s].issue \in DOMAIN issues /\ Art(intake[s].issue) = a
    BY <2>0, PlaceOf
  <2>3. [NewBinding(intake[s].issue) EXCEPT !.row = intake[s].row].issue = intake[s].issue
    <3>1. intake[s].issue \in Nat /\ intake[s].row \in Nat
      BY <2>0, PlaceOf
    <3>2. QED
      BY <3>1, IssueOf
  <2> DEFINE S == {[NewBinding(intake[s].issue) EXCEPT !.row = intake[s].row]}
  <2>4. \A b \in S : b.issue \in DOMAIN issues /\ Art(b.issue) = a
    BY <2>2, <2>3
  <2>5. bindings' = [bindings EXCEPT ![a] = S]
    BY <2>1
  <2> HIDE DEF S
  <2>6. QED
    BY <2>4, <2>5, BindingLinksSet
<1>4. ASSUME LinkRow PROVE BindingLinks'
  <2>1. PICK r \in DOMAIN rows, a \in Artifacts : \E b \in bindings[a] :
          bindings' = [bindings EXCEPT ![a] = {[b EXCEPT !.row = r]}]
    BY <1>4 DEF LinkRow
  <2>2. PICK b \in bindings[a] : bindings' = [bindings EXCEPT ![a] = {[b EXCEPT !.row = r]}]
    BY <2>1
  <2>3. b \in Binding /\ r \in Nat
    BY Elements DEF TypeOK
  <2>4. [b EXCEPT !.row = r].issue = b.issue
    BY <2>3, IssueOf
  <2>5. b.issue \in DOMAIN issues /\ Art(b.issue) = a
    BY DEF LinkInv, BindingLinks
  <2> DEFINE S == {[b EXCEPT !.row = r]}
  <2>6. \A c \in S : c.issue \in DOMAIN issues /\ Art(c.issue) = a
    BY <2>4, <2>5
  <2>7. bindings' = [bindings EXCEPT ![a] = S]
    BY <2>2
  <2> HIDE DEF S
  <2>8. QED
    BY <2>6, <2>7, BindingLinksSet
<1>5. ASSUME SaveBinding PROVE BindingLinks'
  <2>1. PICK x \in cur : bindings' = [bindings EXCEPT ![issues[x.issue].art] = copy]
    BY <1>5 DEF SaveBinding
  <2>2. \A b \in copy : b.issue \in DOMAIN issues /\ Art(b.issue) = Art(x.issue)
    BY DEF LinkInv, CopyLinks
  <2>3. QED
    BY <2>1, <2>2, BindingLinksSet DEF Art
<1>6. \/ UNCHANGED bindings \/ LinkRow \/ SaveBinding
      \/ \E s \in Sources : Bind(s) \/ AttachFirstRow(s)
  BY DEF Next, Intake, CreateIssue, MarkRouted, CreateFirstRow, IntakeFails,
         Manager, Tell, Poll, PollEnds, Dispatch, GiveUp, NothingToTell, ArchiveMail, Reply,
         SyncRow, RecordCompletion, MarkHandled, ManagerFails, ReplyRefused, MoveIssue, Tick,
         vars, services
<1>7. QED
  BY <1>1, <1>2, <1>3, <1>4, <1>5, <1>6

LEMMA IntakeLinksStep == ASSUME TypeOK, Known, LinkInv, [Next]_vars PROVE IntakeLinks'
<1>0. /\ intake \in [Sources -> Thing]
      /\ \A g \in Sources : intake[g] \in Thing
  BY DEF TypeOK, Thing
<1>1. ASSUME NEW g \in Sources, intake'[g] = intake[g]
      PROVE  /\ intake'[g].stage # "idle" =>
                  intake'[g].issue \in DOMAIN issues' /\ intake'[g].art = {issues'[intake'[g].issue].art}
             /\ intake'[g].stage = "attach" =>
                  intake'[g].row \in DOMAIN rows' /\ rows'[intake'[g].row].issue = intake'[g].issue
  BY <1>1, StillNamed, RowsGrow DEF LinkInv, IntakeLinks, Art
<1>2. SUFFICES ASSUME NEW s \in Sources
               PROVE  /\ intake'[s].stage # "idle" =>
                           intake'[s].issue \in DOMAIN issues' /\ intake'[s].art = {issues'[intake'[s].issue].art}
                      /\ intake'[s].stage = "attach" =>
                           intake'[s].row \in DOMAIN rows' /\ rows'[intake'[s].row].issue = intake'[s].issue
  BY DEF IntakeLinks, Art
<1>3. CASE intake'[s] = intake[s]
  BY <1>1, <1>3
<1>4. ASSUME CreateIssue(s)
      PROVE  /\ intake'[s].stage = "bind" /\ intake'[s].issue \in DOMAIN issues'
             /\ intake'[s].art = {issues'[intake'[s].issue].art}
  <2>1. PICK a \in From[s] :
          /\ issues' = Append(issues, [art |-> a, state |-> "open", at |-> clock])
          /\ intake' = [intake EXCEPT ![s] =
                [stage |-> "bind", art |-> {a}, issue |-> Len(issues'), row |-> 0]]
    BY <1>4 DEF CreateIssue
  <2>2. [art |-> a, state |-> "open", at |-> clock] \in Issue
    BY ArtifactsOf DEF TypeOK, Issue, States
  <2>3. /\ Len(issues') \in DOMAIN issues'
        /\ issues'[Len(issues')] = [art |-> a, state |-> "open", at |-> clock]
    BY <2>1, <2>2, AppendProperties, Elements DEF TypeOK
  <2>4. intake'[s] = [stage |-> "bind", art |-> {a}, issue |-> Len(issues'), row |-> 0]
    BY <1>0, <2>1
  <2>5. QED
    BY <2>3, <2>4 DEF Art
<1>5. ASSUME Bind(s)
      PROVE  /\ intake'[s].stage # "attach" /\ intake'[s].issue = intake[s].issue
             /\ intake'[s].art = intake[s].art /\ intake[s].stage # "idle"
  <2>1. PICK g \in {"sync", "mark"} : intake' = [intake EXCEPT ![s] = [intake[s] EXCEPT !.stage = g]]
    BY <1>0, <1>5 DEF Bind
  <2>2. intake'[s] = [intake[s] EXCEPT !.stage = g]
    BY <1>0, <2>1
  <2>3. intake[s].stage # "idle"
    BY <1>5 DEF Bind
  <2>4. QED
    BY <1>0, <2>2, <2>3 DEF Thing
<1>6. ASSUME CreateFirstRow(s)
      PROVE  /\ intake'[s].issue = intake[s].issue /\ intake'[s].art = intake[s].art
             /\ intake[s].stage # "idle" /\ intake'[s].row \in DOMAIN rows'
             /\ rows'[intake'[s].row].issue = intake'[s].issue
  <2>1. /\ rows' = Append(rows, [issue |-> intake[s].issue, state |-> "open"])
        /\ intake' = [intake EXCEPT ![s] = [intake[s] EXCEPT !.stage = "attach", !.row = Len(rows')]]
    BY <1>0, <1>6 DEF CreateFirstRow
  <2>2. [issue |-> intake[s].issue, state |-> "open"] \in Row
    BY <1>0, ThingFields DEF Row, States
  <2>3. /\ Len(rows') \in DOMAIN rows'
        /\ rows'[Len(rows')] = [issue |-> intake[s].issue, state |-> "open"]
    BY <2>1, <2>2, AppendProperties, Elements DEF TypeOK
  <2>4. intake'[s] = [intake[s] EXCEPT !.stage = "attach", !.row = Len(rows')]
    BY <1>0, <2>1
  <2>5. intake'[s].issue = intake[s].issue /\ intake'[s].art = intake[s].art /\ intake'[s].row = Len(rows')
    BY <1>0, <2>4 DEF Thing
  <2>6. intake[s].stage # "idle"
    BY <1>6 DEF CreateFirstRow
  <2>7. QED
    BY <2>3, <2>5, <2>6
<1>7. ASSUME MarkRouted(s) \/ AttachFirstRow(s) \/ IntakeFails(s) PROVE intake'[s].stage = "idle"
  BY <1>0, <1>7 DEF MarkRouted, AttachFirstRow, IntakeFails, Idle
<1>8. \/ intake'[s] = intake[s] \/ CreateIssue(s) \/ Bind(s) \/ CreateFirstRow(s)
      \/ MarkRouted(s) \/ AttachFirstRow(s) \/ IntakeFails(s)
  <2>1. ASSUME NEW g \in Sources, Intake(g) \/ IntakeFails(g), g # s PROVE intake'[s] = intake[s]
    BY <1>0, <2>1
    DEF Intake, CreateIssue, Bind, CreateFirstRow, MarkRouted, AttachFirstRow, IntakeFails
  <2>2. \/ UNCHANGED intake \/ \E g \in Sources : Intake(g) \/ IntakeFails(g)
    BY DEF Next, LinkRow, Manager, Tell, Poll, PollEnds, Dispatch, GiveUp, NothingToTell,
           ArchiveMail, Reply, SyncRow, SaveBinding, RecordCompletion, MarkHandled, ManagerFails,
           ReplyRefused, MoveIssue, Tick, Manages, vars, intakeVars
  <2>3. QED
    BY <2>1, <2>2 DEF Intake
<1>9. intake[s].stage # "idle" =>
        intake[s].issue \in DOMAIN issues' /\ intake[s].art = {issues'[intake[s].issue].art}
  BY StillNamed DEF LinkInv, IntakeLinks, Art
<1>10. QED
  BY <1>3, <1>4, <1>5, <1>6, <1>7, <1>8, <1>9 DEF Art

\* Telling changes the copy's flags, and keeps its issue.
LEMMA TellingKeepsIssue ==
    ASSUME TypeOK, ArchiveMail \/ Reply \/ ReplyRefused \/ SyncRow
    PROVE  cur' = cur /\ \A c \in copy' : \E b \in copy : c.issue = b.issue
<1>0. \A b \in copy : b \in Binding
  BY DEF TypeOK
<1>1. CASE ArchiveMail
  <2>1. PICK b \in copy : copy' = {[b EXCEPT !.archived = TRUE]}
    BY <1>1 DEF ArchiveMail
  <2>2. QED
    BY <1>0, <1>1, <2>1, IssueOf DEF ArchiveMail
<1>2. CASE Reply \/ ReplyRefused
  <2>1. PICK b \in copy : copy' = {[b EXCEPT !.replied = TRUE]}
    BY <1>2 DEF Reply, ReplyRefused
  <2>2. QED
    BY <1>0, <1>2, <2>1, IssueOf DEF Reply, ReplyRefused
<1>3. CASE SyncRow
  <2>1. PICK x \in cur, b \in copy :
           \/ /\ rows' = Append(rows, [issue |-> x.issue, state |-> x.state])
              /\ copy' = {[b EXCEPT !.row = Len(rows'), !.pushed = x.state]}
           \/ copy' = {[b EXCEPT !.pushed = x.state]}
    BY <1>3 DEF SyncRow
  <2>2. x.state \in Finished /\ Len(rows') \in Nat
    BY <1>3, RowTyped, LenProperties DEF TypeOK, Seen
  <2>3. [b EXCEPT !.row = Len(rows'), !.pushed = x.state].issue = b.issue
    BY <1>0, <2>2, IssueOf
  <2>4. [b EXCEPT !.pushed = x.state].issue = b.issue
    BY <1>0, <2>2, IssueOf
  <2>5. QED
    BY <1>3, <2>1, <2>3, <2>4 DEF SyncRow
<1>4. QED
  BY <1>1, <1>2, <1>3

LEMMA CopyLinksStep == ASSUME TypeOK, Known, LinkInv, [Next]_vars PROVE CopyLinks'
<1>1. CASE UNCHANGED <<cur, copy>>
  BY <1>1, StillNamed DEF LinkInv, CopyLinks, Known, Art
<1>2. CASE ArchiveMail \/ Reply \/ ReplyRefused \/ SyncRow
  <2>1. cur' = cur /\ \A c \in copy' : \E b \in copy : c.issue = b.issue
    BY <1>2, TellingKeepsIssue
  <2>2. QED
    BY <2>1, StillNamed DEF LinkInv, CopyLinks, Known, Art
<1>3. CASE Dispatch
  <2>1. SUFFICES ASSUME NEW x \in todo, NEW a \in Bound(x.issue), cur' = {x}, copy' = bindings[a]
                 PROVE  CopyLinks'
    BY <1>1, <1>3 DEF Dispatch
  <2>2. a \in Artifacts /\ Art(x.issue) = a
    BY DEF Bound, LinkInv, BindingLinks
  <2>3. \A b \in bindings[a] : b.issue \in DOMAIN issues /\ Art(b.issue) = a
    BY <2>2 DEF LinkInv, BindingLinks
  <2>4. QED
    BY <2>1, <2>2, <2>3, StillNamed DEF CopyLinks, Known, Art
<1>4. CASE MarkHandled \/ ManagerFails
  BY <1>4 DEF MarkHandled, ManagerFails, CopyLinks
<1>5. \/ UNCHANGED <<cur, copy>> \/ Dispatch \/ MarkHandled \/ ManagerFails
      \/ ArchiveMail \/ Reply \/ ReplyRefused \/ SyncRow
  BY DEF Next, Intake, CreateIssue, Bind, MarkRouted, CreateFirstRow, AttachFirstRow,
         IntakeFails, LinkRow, Manager, Tell, Poll, PollEnds, GiveUp, NothingToTell,
         SaveBinding, RecordCompletion, MoveIssue, Tick, vars, managerVars
<1>6. QED
  BY <1>1, <1>2, <1>3, <1>4, <1>5

LEMMA RecordLinksStep == ASSUME TypeOK, Known, LinkInv, [Next]_vars PROVE RecordLinks'
<1>1. CASE UNCHANGED recorded
  BY <1>1, IssuesGrow DEF LinkInv, RecordLinks
<1>2. CASE RecordCompletion
  BY <1>2, IssuesGrow DEF RecordCompletion, LinkInv, RecordLinks, Known
<1>3. UNCHANGED recorded \/ RecordCompletion
  BY DEF Next, Intake, CreateIssue, Bind, MarkRouted, CreateFirstRow, AttachFirstRow,
         IntakeFails, LinkRow, Manager, Tell, Poll, PollEnds, Dispatch, GiveUp, NothingToTell,
         ArchiveMail, Reply, SyncRow, SaveBinding, MarkHandled, ManagerFails, ReplyRefused,
         MoveIssue, Tick, vars, managerVars
<1>4. QED
  BY <1>1, <1>2, <1>3

LEMMA LinkInvStep == ASSUME TypeOK, Known, LinkInv, [Next]_vars PROVE LinkInv'
BY RowLinksStep, BindingLinksStep, IntakeLinksStep, CopyLinksStep, RecordLinksStep DEF LinkInv

LEMMA InitLinked == Init => LinkInv
<1>1. ASSUME Init PROVE \A s \in Sources : intake[s].stage = "idle"
  BY <1>1 DEF Init, Idle
<1>2. QED
  BY <1>1 DEF Init, LinkInv, RowLinks, BindingLinks, IntakeLinks, CopyLinks, RecordLinks

-----------------------------------------------------------------------------
(* The flags of a binding, and of the manager's copy, are true *)

Flagged(a, b) ==
    /\ b.archived => a \in archived
    /\ b.replied => a \in Threads /\ (replies[a] > 0 \/ a \in gaveUp)
    /\ b.row # 0 => b.row \in RowsOf(a)
    /\ b.pushed # "" => \E r \in RowsOf(a) : rows[r].state # "open"

\* The origin was told that its issue was finished, or given up on.
ToldSome(a) ==
    \/ a \in gaveUp \cup archived
    \/ a \in Threads /\ replies[a] > 0
    \/ a \in Notes /\ \E r \in RowsOf(a) : rows[r].state # "open"

BindingFlags == \A a \in Artifacts : \A b \in bindings[a] : Flagged(a, b)
CopyFlags    == \A x \in cur, b \in copy : Flagged(Art(x.issue), b)
ToldBefore   == pc \in {"save", "record"} => \A x \in cur : ToldSome(Art(x.issue))
RecordTold   == \A i \in recorded : ToldSome(Art(i))

FlagInv == BindingFlags /\ CopyFlags /\ ToldBefore /\ RecordTold

\* What was told stays told.
LEMMA ServicesGrow ==
    ASSUME TypeOK, [Next]_vars
    PROVE  /\ archived \subseteq archived' /\ gaveUp \subseteq gaveUp'
           /\ \A t \in Threads : replies[t] > 0 => replies'[t] > 0
<1>0. \A t \in Threads : replies[t] \in Nat
  BY DEF TypeOK
<1>1. archived \subseteq archived' /\ gaveUp \subseteq gaveUp'
  BY DEF Next, Intake, CreateIssue, Bind, MarkRouted, CreateFirstRow, AttachFirstRow,
         IntakeFails, LinkRow, Manager, Tell, Poll, PollEnds, Dispatch, GiveUp, NothingToTell,
         ArchiveMail, Reply, SyncRow, SaveBinding, RecordCompletion, MarkHandled, ManagerFails,
         ReplyRefused, MoveIssue, Tick, vars, services, managerVars
<1>2. UNCHANGED replies \/ Reply
  BY DEF Next, Intake, CreateIssue, Bind, MarkRouted, CreateFirstRow, AttachFirstRow,
         IntakeFails, LinkRow, Manager, Tell, Poll, PollEnds, Dispatch, GiveUp, NothingToTell,
         ArchiveMail, SyncRow, SaveBinding, RecordCompletion, MarkHandled, ManagerFails,
         ReplyRefused, MoveIssue, Tick, vars, services
<1>3. CASE UNCHANGED replies
  BY <1>0, <1>1, <1>3
<1>4. CASE Reply
  <2>1. PICK x \in cur : replies' = [replies EXCEPT ![issues[x.issue].art] = @ + 1]
    BY <1>4 DEF Reply
  <2>2. \A t \in Threads : replies'[t] = replies[t] \/ replies'[t] = replies[t] + 1
    BY <2>1 DEF TypeOK
  <2>3. QED
    BY <1>0, <1>1, <2>2
<1>5. QED
  BY <1>2, <1>3, <1>4

LEMMA RowsOfGrow ==
    ASSUME TypeOK, LinkInv, [Next]_vars, NEW a
    PROVE  /\ RowsOf(a) \subseteq RowsOf(a)'
           /\ \A r \in RowsOf(a) : rows[r].state # "open" => rows'[r].state # "open"
BY RowsGrow, IssuesGrow DEF RowsOf, LinkInv, RowLinks

LEMMA StillTold ==
    ASSUME TypeOK, LinkInv, [Next]_vars
    PROVE  /\ \A a : ToldSome(a) => ToldSome(a)'
           /\ \A a, b : Flagged(a, b) => Flagged(a, b)'
<1>1. \A t \in Threads : replies[t] > 0 => replies'[t] > 0
  BY ServicesGrow
<1>2. ASSUME NEW a, ToldSome(a) PROVE ToldSome(a)'
  BY <1>1, <1>2, ServicesGrow, RowsOfGrow DEF ToldSome
<1>3. ASSUME NEW a, NEW b, Flagged(a, b) PROVE Flagged(a, b)'
  BY <1>1, <1>3, ServicesGrow, RowsOfGrow DEF Flagged
<1>4. QED
  BY <1>2, <1>3

\* One artifact's binding is replaced by one with true flags.
LEMMA BindingFlagsSet ==
    ASSUME TypeOK, LinkInv, FlagInv, [Next]_vars, NEW a, NEW S,
           bindings' = [bindings EXCEPT ![a] = S],
           \A b \in S : Flagged(a, b)
    PROVE  BindingFlags'
<1>1. SUFFICES ASSUME NEW x \in Artifacts, NEW b \in bindings'[x] PROVE Flagged(x, b)'
  BY DEF BindingFlags
<1>2. Flagged(x, b)
  <2>1. CASE x = a
    BY <2>1 DEF TypeOK
  <2>2. CASE x # a
    BY <2>2 DEF TypeOK, FlagInv, BindingFlags
  <2>3. QED
    BY <2>1, <2>2
<1>3. QED
  BY <1>2, StillTold

\* Linking an issue or a row of a leaves the flags of a binding true.
LEMMA LinkingKeepsFlags ==
    ASSUME NEW a
    PROVE  /\ \A i \in Nat : Flagged(a, NewBinding(i))
           /\ \A i \in Nat, r \in RowsOf(a) : Flagged(a, [NewBinding(i) EXCEPT !.row = r])
           /\ \A b \in Binding, i \in Nat : Flagged(a, b) => Flagged(a, [b EXCEPT !.issue = i])
           /\ \A b \in Binding, r \in RowsOf(a) : Flagged(a, b) => Flagged(a, [b EXCEPT !.row = r])
<1>1. \A i \in Nat : Flagged(a, NewBinding(i))
  BY DEF Flagged, NewBinding
<1>2. \A i \in Nat, r \in RowsOf(a) : Flagged(a, [NewBinding(i) EXCEPT !.row = r])
  <2>1. TAKE i \in Nat, r \in RowsOf(a)
  <2> DEFINE c == [NewBinding(i) EXCEPT !.row = r]
  <2>2. ~c.archived /\ ~c.replied /\ c.row = r /\ c.pushed = ""
    BY DEF NewBinding
  <2> HIDE DEF c
  <2>3. Flagged(a, c)
    BY <2>2 DEF Flagged
  <2>4. QED
    BY <2>3 DEF c
<1>3. \A b \in Binding, i \in Nat : Flagged(a, b) => Flagged(a, [b EXCEPT !.issue = i])
  <2>1. TAKE b \in Binding, i \in Nat
  <2> DEFINE c == [b EXCEPT !.issue = i]
  <2>2. /\ c.archived = b.archived /\ c.replied = b.replied
        /\ c.row = b.row /\ c.pushed = b.pushed
    BY DEF Binding
  <2> HIDE DEF c
  <2>3. Flagged(a, b) => Flagged(a, c)
    BY <2>2 DEF Flagged
  <2>4. QED
    BY <2>3 DEF c
<1>4. \A b \in Binding, r \in RowsOf(a) : Flagged(a, b) => Flagged(a, [b EXCEPT !.row = r])
  <2>1. TAKE b \in Binding, r \in RowsOf(a)
  <2> DEFINE c == [b EXCEPT !.row = r]
  <2>2. /\ c.archived = b.archived /\ c.replied = b.replied
        /\ c.row = r /\ c.pushed = b.pushed
    BY DEF Binding
  <2> HIDE DEF c
  <2>3. Flagged(a, b) => Flagged(a, c)
    BY <2>2 DEF Flagged
  <2>4. QED
    BY <2>3 DEF c
<1>5. QED
  BY <1>1, <1>2, <1>3, <1>4

LEMMA BindingFlagsStep == ASSUME TypeOK, Known, LinkInv, FlagInv, [Next]_vars PROVE BindingFlags'
<1>1. ASSUME bindings' = bindings PROVE BindingFlags'
  BY <1>1, StillTold DEF FlagInv, BindingFlags
<1>2. ASSUME NEW s \in Sources, Bind(s) PROVE BindingFlags'
  <2>0. intake[s].stage # "idle"
    BY <1>2 DEF Bind
  <2>1. PICK a \in intake[s].art : bindings' = [bindings EXCEPT ![a] = Linked(a, intake[s].issue)]
    BY <1>2 DEF Bind
  <2>2. a \in Artifacts /\ intake[s].issue \in Nat
    BY <2>0, PlaceOf
  <2>3. \A b \in bindings[a] : b \in Binding /\ Flagged(a, b)
    BY <2>2 DEF TypeOK, FlagInv, BindingFlags
  <2>4. Flagged(a, NewBinding(intake[s].issue))
    BY <2>2, LinkingKeepsFlags
  <2>5. \A b \in bindings[a] : Flagged(a, [b EXCEPT !.issue = intake[s].issue])
    BY <2>2, <2>3, LinkingKeepsFlags
  <2>6. \A b \in Linked(a, intake[s].issue) : Flagged(a, b)
    BY <2>4, <2>5 DEF Linked
  <2>7. QED
    BY <2>1, <2>6, BindingFlagsSet
<1>3. ASSUME NEW s \in Sources, AttachFirstRow(s) PROVE BindingFlags'
  <2>0. intake[s].stage = "attach"
    BY <1>3 DEF AttachFirstRow
  <2>1. PICK a \in intake[s].art :
          bindings' = [bindings EXCEPT ![a] =
            {[NewBinding(intake[s].issue) EXCEPT !.row = intake[s].row]}]
    BY <1>3 DEF AttachFirstRow
  <2>2. /\ intake[s].issue \in Nat /\ intake[s].row \in Nat
        /\ Art(intake[s].issue) = a
    BY <2>0, PlaceOf
  <2>3. intake[s].row \in RowsOf(a)
    BY <2>0, <2>2 DEF LinkInv, IntakeLinks, RowsOf, Art
  <2> DEFINE S == {[NewBinding(intake[s].issue) EXCEPT !.row = intake[s].row]}
  <2>4. Flagged(a, [NewBinding(intake[s].issue) EXCEPT !.row = intake[s].row])
    BY <2>2, <2>3, LinkingKeepsFlags
  <2>5. \A b \in S : Flagged(a, b)
    BY <2>4
  <2>6. bindings' = [bindings EXCEPT ![a] = S]
    BY <2>1
  <2> HIDE DEF S
  <2>7. QED
    BY <2>5, <2>6, BindingFlagsSet
<1>4. ASSUME LinkRow PROVE BindingFlags'
  <2>1. PICK r \in DOMAIN rows, a \in Artifacts : \E b \in bindings[a] :
          b.issue = rows[r].issue /\ bindings' = [bindings EXCEPT ![a] = {[b EXCEPT !.row = r]}]
    BY <1>4 DEF LinkRow
  <2>2. PICK b \in bindings[a] :
          b.issue = rows[r].issue /\ bindings' = [bindings EXCEPT ![a] = {[b EXCEPT !.row = r]}]
    BY <2>1
  <2>3. b \in Binding /\ r \in Nat /\ Flagged(a, b)
    BY Elements DEF TypeOK, FlagInv, BindingFlags
  <2>4. r \in RowsOf(a)
    BY <2>2 DEF LinkInv, BindingLinks, RowsOf, Art
  <2> DEFINE S == {[b EXCEPT !.row = r]}
  <2>5. Flagged(a, [b EXCEPT !.row = r])
    BY <2>3, <2>4, LinkingKeepsFlags
  <2>6. \A c \in S : Flagged(a, c)
    BY <2>5
  <2>7. bindings' = [bindings EXCEPT ![a] = S]
    BY <2>2
  <2> HIDE DEF S
  <2>8. QED
    BY <2>6, <2>7, BindingFlagsSet
<1>5. ASSUME SaveBinding PROVE BindingFlags'
  <2>1. PICK x \in cur : bindings' = [bindings EXCEPT ![issues[x.issue].art] = copy]
    BY <1>5 DEF SaveBinding
  <2>2. \A b \in copy : Flagged(Art(x.issue), b)
    BY DEF FlagInv, CopyFlags
  <2>3. QED
    BY <2>1, <2>2, BindingFlagsSet DEF Art
<1>6. \/ UNCHANGED bindings \/ LinkRow \/ SaveBinding
      \/ \E s \in Sources : Bind(s) \/ AttachFirstRow(s)
  BY DEF Next, Intake, CreateIssue, MarkRouted, CreateFirstRow, IntakeFails,
         Manager, Tell, Poll, PollEnds, Dispatch, GiveUp, NothingToTell, ArchiveMail, Reply,
         SyncRow, RecordCompletion, MarkHandled, ManagerFails, ReplyRefused, MoveIssue, Tick,
         vars, services
<1>7. QED
  BY <1>1, <1>2, <1>3, <1>4, <1>5, <1>6

\* Telling makes the flag true that it sets in the copy.
LEMMA TellingMakesTrue ==
    ASSUME TypeOK, Known, LinkInv, FlagInv, [Next]_vars,
           ArchiveMail \/ Reply \/ ReplyRefused \/ SyncRow
    PROVE  \A x \in cur : /\ \A c \in copy' : Flagged(Art(x.issue), c)'
                         /\ ToldSome(Art(x.issue))'
<1>0. /\ \A b \in copy : b \in Binding
      /\ \A x \in cur, b \in copy : Flagged(Art(x.issue), b)'
      /\ \A x \in cur : Art(x.issue)' = Art(x.issue) /\ x.issue \in DOMAIN issues
  <2>1. \A x \in cur : Art(x.issue)' = Art(x.issue) /\ x.issue \in DOMAIN issues
    BY StillNamed DEF Known
  <2>2. \A x \in cur, b \in copy : Flagged(Art(x.issue), b)
    BY DEF FlagInv, CopyFlags
  <2>3. \A a, b : Flagged(a, b) => Flagged(a, b)'
    BY StillTold
  <2>4. QED
    BY <2>1, <2>2, <2>3 DEF TypeOK, Flagged
<1>1. SUFFICES ASSUME NEW x \in cur
               PROVE  /\ \A c \in copy' : Flagged(Art(x.issue), c)'
                      /\ ToldSome(Art(x.issue))'
  OBVIOUS
<1>2. CASE ArchiveMail
  <2>1. PICK b \in copy : copy' = {[b EXCEPT !.archived = TRUE]} /\ Art(x.issue) \in archived'
    BY <1>2 DEF ArchiveMail, Known, Art
  <2> DEFINE c == [b EXCEPT !.archived = TRUE]
  <2>2. c.replied = b.replied /\ c.row = b.row /\ c.pushed = b.pushed
    BY <1>0 DEF Binding
  <2>3. copy' = {c}
    BY <2>1
  <2> HIDE DEF c
  <2>4. Flagged(Art(x.issue), c)'
    BY <1>0, <2>1, <2>2 DEF Flagged
  <2>5. ToldSome(Art(x.issue))'
    BY <1>0, <2>1 DEF ToldSome
  <2>6. QED
    BY <2>3, <2>4, <2>5
<1>3. CASE Reply \/ ReplyRefused
  <2>1. PICK b \in copy :
          /\ copy' = {[b EXCEPT !.replied = TRUE]}
          /\ Art(x.issue) \in Threads
          /\ \/ replies' = [replies EXCEPT ![Art(x.issue)] = @ + 1]
             \/ Art(x.issue) \in gaveUp'
    BY <1>3 DEF Reply, ReplyRefused, Known, Art
  <2>2. replies'[Art(x.issue)] > 0 \/ Art(x.issue) \in gaveUp'
    BY <2>1 DEF TypeOK
  <2> DEFINE c == [b EXCEPT !.replied = TRUE]
  <2>3. c.archived = b.archived /\ c.row = b.row /\ c.pushed = b.pushed
    BY <1>0 DEF Binding
  <2>4. copy' = {c}
    BY <2>1
  <2> HIDE DEF c
  <2>5. Flagged(Art(x.issue), c)'
    BY <1>0, <2>1, <2>2, <2>3 DEF Flagged
  <2>6. ToldSome(Art(x.issue))'
    BY <1>0, <2>1, <2>2 DEF ToldSome
  <2>7. QED
    BY <2>4, <2>5, <2>6
<1>4. CASE SyncRow
  <2>1. PICK b \in copy :
          /\ Art(x.issue) \in Notes
          /\ \/ /\ rows' = Append(rows, [issue |-> x.issue, state |-> x.state])
                /\ copy' = {[b EXCEPT !.row = Len(rows'), !.pushed = x.state]}
             \/ /\ b.row # 0
                /\ rows' = [rows EXCEPT ![b.row].state = x.state]
                /\ copy' = {[b EXCEPT !.pushed = x.state]}
    BY <1>4 DEF SyncRow, Known, Art
  <2>2. x.issue \in Nat /\ x.state \in Finished /\ x.state \in States /\ x.state # "open"
    BY OpenAssumption DEF TypeOK, Seen, States
  <2> DEFINE Shown(r) ==
        /\ r \in RowsOf(Art(x.issue))' /\ rows'[r].state # "open"
        /\ \A c \in copy' : /\ c.archived = b.archived /\ c.replied = b.replied
                            /\ c.pushed = x.state /\ c.row \in {b.row, r}
  <2>3. \E r : Shown(r)
    <3>1. CASE /\ rows' = Append(rows, [issue |-> x.issue, state |-> x.state])
               /\ copy' = {[b EXCEPT !.row = Len(rows'), !.pushed = x.state]}
      <4>1. [issue |-> x.issue, state |-> x.state] \in Row
        BY <2>2 DEF Row
      <4>2. /\ Len(rows') \in DOMAIN rows'
            /\ rows'[Len(rows')] = [issue |-> x.issue, state |-> x.state]
        BY <3>1, <4>1, AppendProperties, Elements DEF TypeOK
      <4>3. Len(rows') \in RowsOf(Art(x.issue))'
        BY <1>0, <4>2 DEF RowsOf, Art
      <4>4. \A c \in copy' : /\ c.archived = b.archived /\ c.replied = b.replied
                             /\ c.pushed = x.state /\ c.row = Len(rows')
        BY <1>0, <3>1 DEF Binding
      <4>5. Shown(Len(rows'))
        BY <2>2, <4>2, <4>3, <4>4
      <4>6. QED
        BY <4>5
    <3>2. CASE /\ b.row # 0
               /\ rows' = [rows EXCEPT ![b.row].state = x.state]
               /\ copy' = {[b EXCEPT !.pushed = x.state]}
      <4>1. b.row \in RowsOf(Art(x.issue))
        BY <3>2 DEF FlagInv, CopyFlags, Flagged
      <4>2. b.row \in RowsOf(Art(x.issue))'
        BY <1>0, <4>1, RowsOfGrow
      <4>3. b.row \in DOMAIN rows /\ rows[b.row] \in Row
        BY <4>1, Elements DEF RowsOf
      <4>4. rows'[b.row] = [rows[b.row] EXCEPT !.state = x.state]
        BY <3>2, <4>3
      <4>5. rows'[b.row].state = x.state
        BY <4>3, <4>4 DEF Row
      <4>6. \A c \in copy' : /\ c.archived = b.archived /\ c.replied = b.replied
                             /\ c.pushed = x.state /\ c.row = b.row
        BY <1>0, <3>2 DEF Binding
      <4>7. Shown(b.row)
        BY <2>2, <4>2, <4>5, <4>6
      <4>8. QED
        BY <4>7
    <3>3. QED
      BY <2>1, <3>1, <3>2
  <2>4. PICK r : Shown(r)
    BY <2>3
  <2>5. ASSUME NEW c \in copy' PROVE Flagged(Art(x.issue), c)'
    BY <1>0, <2>4 DEF Flagged
  <2>6. ToldSome(Art(x.issue))'
    BY <1>0, <2>1, <2>4 DEF ToldSome
  <2>7. QED
    BY <2>5, <2>6
<1>5. QED
  BY <1>2, <1>3, <1>4

\* What the manager knows it may skip was told.
LEMMA SkippedIsTold ==
    ASSUME TypeOK, Known, LinkInv, FlagInv, NothingToTell, NEW y \in cur
    PROVE  ToldSome(Art(y.issue))
<1>1. PICK x \in cur, b \in copy :
         \/ issues[x.issue].art \in Mails /\ b.archived
         \/ issues[x.issue].art \in Threads /\ b.replied
         \/ issues[x.issue].art \in Notes /\ b.row # 0 /\ b.pushed = x.state
  BY DEF NothingToTell
<1>2. Flagged(Art(x.issue), b) /\ x = y
  BY DEF FlagInv, CopyFlags, Known
<1>3. x.state # ""
  BY OpenAssumption DEF TypeOK, Seen
<1>4. QED
  BY <1>1, <1>2, <1>3 DEF Flagged, ToldSome, Art

LEMMA CopyFlagsStep ==
    ASSUME TypeOK, Known, LinkInv, FlagInv, [Next]_vars
    PROVE  CopyFlags' /\ ToldBefore'
<1>0. /\ \A x \in cur : Art(x.issue)' = Art(x.issue)
      /\ \A a, b : Flagged(a, b) => Flagged(a, b)'
      /\ \A a : ToldSome(a) => ToldSome(a)'
  BY StillNamed, StillTold DEF Known
<1>1. ASSUME cur' = cur, copy' = copy PROVE CopyFlags'
  BY <1>0, <1>1 DEF FlagInv, CopyFlags, Flagged
<1>2. ASSUME cur' = cur, pc' = pc PROVE ToldBefore'
  BY <1>0, <1>2 DEF FlagInv, ToldBefore, ToldSome
<1>3. CASE ArchiveMail \/ Reply \/ ReplyRefused \/ SyncRow
  <2>1. cur' = cur
    BY <1>3, TellingKeepsIssue
  <2>2. QED
    BY <1>0, <1>3, <2>1, TellingMakesTrue DEF CopyFlags, ToldBefore, Flagged, ToldSome
<1>4. CASE Dispatch
  <2>1. CASE UNCHANGED <<pc, cur, copy>>
    BY <1>1, <1>2, <2>1
  <2>2. SUFFICES ASSUME NEW x \in todo, NEW a \in Bound(x.issue), cur' = {x},
                        copy' = bindings[a], pc' = "tell"
                 PROVE  CopyFlags' /\ ToldBefore'
    BY <1>4, <2>1 DEF Dispatch
  <2>3. a \in Artifacts /\ Art(x.issue) = a /\ Art(x.issue)' = Art(x.issue)
    BY StillNamed DEF Bound, LinkInv, BindingLinks, Known
  <2>4. \A b \in copy' : Flagged(Art(x.issue), b)
    BY <2>2, <2>3 DEF FlagInv, BindingFlags
  <2>5. \A b \in copy' : Flagged(Art(x.issue), b)'
    <3>1. SUFFICES ASSUME NEW b \in copy' PROVE Flagged(a, b)'
      BY <2>3 DEF Flagged
    <3>2. QED
      BY <1>0, <2>3, <2>4
  <2>6. QED
    BY <2>2, <2>5 DEF CopyFlags, ToldBefore
<1>5. CASE GiveUp
  <2>1. PICK x \in cur : gaveUp' = gaveUp \cup {issues[x.issue].art}
    BY <1>5 DEF GiveUp
  <2>2. \A y \in cur : Art(y.issue)' \in gaveUp'
    BY <1>0, <2>1 DEF Known, Art
  <2>3. cur' = cur /\ copy' = copy
    BY <1>5 DEF GiveUp
  <2>4. ToldBefore'
    BY <2>2, <2>3 DEF ToldBefore, ToldSome
  <2>5. QED
    BY <1>1, <2>3, <2>4
<1>6. CASE NothingToTell
  <2>1. cur' = cur /\ copy' = copy
    BY <1>6 DEF NothingToTell
  <2>2. ToldBefore'
    BY <1>0, <1>6, <2>1, SkippedIsTold DEF ToldBefore, ToldSome
  <2>3. QED
    BY <1>1, <2>1, <2>2
<1>7. CASE SaveBinding \/ RecordCompletion
  <2>1. cur' = cur /\ copy' = copy
    BY <1>7 DEF SaveBinding, RecordCompletion
  <2>2. ToldBefore'
    BY <1>0, <1>7, <2>1
    DEF SaveBinding, RecordCompletion, FlagInv, ToldBefore, ToldSome
  <2>3. QED
    BY <1>1, <2>1, <2>2
<1>8. CASE Poll \/ PollEnds
  <2>1. cur' = cur /\ copy' = copy /\ pc' \in {"scan", "idle"}
    BY <1>8 DEF Poll, PollEnds
  <2>2. QED
    BY <1>1, <2>1 DEF ToldBefore
<1>9. CASE MarkHandled \/ ManagerFails
  BY <1>9 DEF MarkHandled, ManagerFails, CopyFlags, ToldBefore
<1>10. CASE UNCHANGED <<pc, cur, copy>>
  BY <1>1, <1>2, <1>10
<1>11. \/ UNCHANGED <<pc, cur, copy>> \/ ArchiveMail \/ Reply \/ ReplyRefused \/ SyncRow
       \/ Dispatch \/ GiveUp \/ NothingToTell \/ SaveBinding \/ RecordCompletion
       \/ Poll \/ PollEnds \/ MarkHandled \/ ManagerFails
  BY DEF Next, Intake, CreateIssue, Bind, MarkRouted, CreateFirstRow, AttachFirstRow,
         IntakeFails, LinkRow, Manager, Tell, MoveIssue, Tick, vars, managerVars
<1>12. QED
  BY <1>3, <1>4, <1>5, <1>6, <1>7, <1>8, <1>9, <1>10, <1>11

LEMMA RecordToldStep == ASSUME TypeOK, Known, LinkInv, FlagInv, [Next]_vars PROVE RecordTold'
<1>0. /\ \A i \in recorded : Art(i)' = Art(i)
      /\ \A x \in cur : Art(x.issue)' = Art(x.issue)
      /\ \A a : ToldSome(a) => ToldSome(a)'
  BY StillNamed, StillTold DEF LinkInv, RecordLinks, Known
<1>1. CASE UNCHANGED recorded
  BY <1>0, <1>1 DEF FlagInv, RecordTold, ToldSome
<1>2. CASE RecordCompletion
  BY <1>0, <1>2 DEF RecordCompletion, FlagInv, ToldBefore, RecordTold, ToldSome
<1>3. UNCHANGED recorded \/ RecordCompletion
  BY DEF Next, Intake, CreateIssue, Bind, MarkRouted, CreateFirstRow, AttachFirstRow,
         IntakeFails, LinkRow, Manager, Tell, Poll, PollEnds, Dispatch, GiveUp, NothingToTell,
         ArchiveMail, Reply, SyncRow, SaveBinding, MarkHandled, ManagerFails, ReplyRefused,
         MoveIssue, Tick, vars, managerVars
<1>4. QED
  BY <1>1, <1>2, <1>3

LEMMA AlwaysFlags == Spec => [](TypeOK /\ Known /\ LinkInv /\ FlagInv)
<1>1. Init => FlagInv
  BY DEF Init, FlagInv, BindingFlags, CopyFlags, ToldBefore, RecordTold
<1>2. Init => Known
  BY DEF Init, Known
<1>3. TypeOK /\ Known /\ LinkInv /\ FlagInv /\ [Next]_vars
        => TypeOK' /\ Known' /\ LinkInv' /\ FlagInv'
  <2>1. ASSUME TypeOK, Known, LinkInv, FlagInv, [Next]_vars
        PROVE  BindingFlags' /\ CopyFlags' /\ ToldBefore' /\ RecordTold'
    BY <2>1, BindingFlagsStep, CopyFlagsStep, RecordToldStep
  <2>2. QED
    BY <2>1, StepTyped, KnownStep, LinkInvStep DEF FlagInv
<1>4. QED
  BY <1>1, <1>2, <1>3, InitTyped, InitLinked, PTL DEF Spec

\* What a binding says was archived, answered or shown in Notion was, although
\* bindings are saved as they were read, by three programs, long after.
THEOREM FlagsCorrect == Spec => []FlagsAreTrue
<1>1. FlagInv => FlagsAreTrue
  BY DEF FlagInv, BindingFlags, Flagged, FlagsAreTrue
<1>2. QED
  BY <1>1, AlwaysFlags, PTL

\* A completion is recorded only when its origin was told or given up on.
THEOREM RecordedCorrect == Spec => []RecordedMeansTold
<1>1. FlagInv => RecordedMeansTold
  BY DEF FlagInv, RecordTold, ToldSome, RecordedMeansTold, Art
<1>2. QED
  BY <1>1, AlwaysFlags, PTL

-----------------------------------------------------------------------------
(* A thread gets one reply, and one more for each failure *)

\* Each agent works on what it is for, and Slack's makes bindings only where
\* there are none.
PlaceInv ==
    /\ \A s \in Sources :
         /\ intake[s].art \subseteq From[s]
         /\ intake[s].stage \in {"sync", "attach"} => s = "granola"
    /\ intake["slack"].stage = "bind" => \A t \in intake["slack"].art : bindings[t] = {}

\* There is one binding, and one copy, and the task at work has a binding.
OneInv ==
    /\ \A a \in Artifacts : \A b, c \in bindings[a] : b = c
    /\ \A b, c \in copy : b = c
    /\ pc \in {"tell", "save"} => \A x \in cur : bindings[Art(x.issue)] # {}
    /\ pc = "save" => cur # {} /\ copy # {}

\* The copy of a thread's binding is current while its reply is decided, and
\* says "replied" when it goes back.
FreshInv ==
    \A x \in cur, b \in copy : Art(x.issue) \in Threads =>
        /\ pc = "tell" => \A c \in bindings[Art(x.issue)] : c.replied = b.replied
        /\ pc = "save" => b.replied

WorkInv == PlaceInv /\ OneInv /\ FreshInv

LEMMA FromDisjoint ==
    /\ From["gmail"] = Mails /\ From["slack"] = Threads /\ From["granola"] = Notes
    /\ Sources = {"gmail", "slack", "granola"}
    /\ Artifacts = Mails \cup Threads \cup Notes
BY DEF From, Sources, Artifacts

\* Where the intake agents are, after a step.
LEMMA IntakeMoves ==
    ASSUME TypeOK, PlaceInv, [Next]_vars
    PROVE  \A s \in Sources :
             /\ intake'[s].art \subseteq From[s]
             /\ intake'[s].stage \in {"sync", "attach"} => s = "granola"
<1>0. intake \in [Sources -> Thing] /\ \A s \in Sources : intake[s] \in Thing
  BY DEF TypeOK, Thing
<1>1. ASSUME NEW s \in Sources, Intake(s) \/ IntakeFails(s)
      PROVE  /\ \A g \in Sources : g # s => intake'[g] = intake[g]
             /\ intake'[s].art \subseteq From[s]
             /\ intake'[s].stage \in {"sync", "attach"} => s = "granola"
  <2>1. CASE CreateIssue(s)
    <3>1. PICK a \in From[s] : intake' = [intake EXCEPT ![s] =
             [stage |-> "bind", art |-> {a}, issue |-> Len(issues'), row |-> 0]]
      BY <2>1 DEF CreateIssue
    <3>2. intake'[s] = [stage |-> "bind", art |-> {a}, issue |-> Len(issues'), row |-> 0]
      BY <1>0, <3>1
    <3>3. QED
      BY <1>0, <3>1, <3>2
  <2>2. CASE Bind(s)
    <3>1. PICK g \in Stages : /\ intake' = [intake EXCEPT ![s] = [intake[s] EXCEPT !.stage = g]]
                              /\ g \in {"sync", "attach"} => s = "granola"
      BY <1>0, <2>2 DEF Bind, Stages
    <3>2. intake'[s] = [intake[s] EXCEPT !.stage = g]
      BY <1>0, <3>1
    <3>3. intake'[s].art = intake[s].art /\ intake'[s].stage = g
      BY <1>0, <3>2 DEF Thing
    <3>4. QED
      BY <1>0, <3>1, <3>3 DEF PlaceInv
  <2>3. CASE CreateFirstRow(s)
    <3>1. intake' = [intake EXCEPT ![s] = [intake[s] EXCEPT !.stage = "attach", !.row = Len(rows')]]
      BY <1>0, <2>3 DEF CreateFirstRow
    <3>2. intake'[s] = [intake[s] EXCEPT !.stage = "attach", !.row = Len(rows')]
      BY <1>0, <3>1
    <3>3. intake'[s].art = intake[s].art
      BY <1>0, <3>2 DEF Thing
    <3>4. s = "granola"
      BY <2>3 DEF CreateFirstRow, PlaceInv
    <3>5. QED
      BY <1>0, <3>1, <3>3, <3>4 DEF PlaceInv
  <2>4. CASE MarkRouted(s) \/ AttachFirstRow(s) \/ IntakeFails(s)
    BY <1>0, <2>4 DEF MarkRouted, AttachFirstRow, IntakeFails, Idle
  <2>5. QED
    BY <1>1, <2>1, <2>2, <2>3, <2>4 DEF Intake
<1>2. UNCHANGED intake \/ \E s \in Sources : Intake(s) \/ IntakeFails(s)
  BY DEF Next, LinkRow, Manager, Tell, Poll, PollEnds, Dispatch, GiveUp, NothingToTell,
         ArchiveMail, Reply, SyncRow, SaveBinding, RecordCompletion, MarkHandled, ManagerFails,
         ReplyRefused, MoveIssue, Tick, Manages, vars, intakeVars
<1>3. CASE UNCHANGED intake
  BY <1>3 DEF PlaceInv
<1>4. QED
  BY <1>1, <1>2, <1>3 DEF PlaceInv

\* A binding once made stays, and the bindings of threads are made by Slack's
\* agent, linked to rows by the scanner and saved by the manager.
LEMMA BindingsStay ==
    ASSUME TypeOK, Known, LinkInv, WorkInv, [Next]_vars, NEW a \in Artifacts
    PROVE  /\ bindings[a] # {} => bindings'[a] # {}
           /\ bindings[a] = {} /\ bindings'[a] # {} =>
                \E s \in Sources : (Bind(s) \/ AttachFirstRow(s)) /\ a \in intake[s].art
           /\ \A b, c \in bindings'[a] : b = c
<1>0. \A b, c \in bindings[a] : b = c
  BY DEF WorkInv, OneInv
<1>1. ASSUME bindings'[a] = bindings[a]
      PROVE  /\ bindings[a] # {} => bindings'[a] # {}
             /\ ~(bindings[a] = {} /\ bindings'[a] # {})
             /\ \A b, c \in bindings'[a] : b = c
  BY <1>0, <1>1
<1>2. ASSUME NEW s \in Sources, Bind(s) \/ AttachFirstRow(s), bindings'[a] # bindings[a]
      PROVE  /\ a \in intake[s].art /\ bindings'[a] # {}
             /\ \A b, c \in bindings'[a] : b = c
  <2>1. CASE Bind(s)
    <3>1. PICK x \in intake[s].art : bindings' = [bindings EXCEPT ![x] = Linked(x, intake[s].issue)]
      BY <2>1 DEF Bind
    <3>2. x = a /\ bindings'[a] = Linked(a, intake[s].issue)
      BY <1>2, <3>1 DEF TypeOK
    <3>3. Linked(a, intake[s].issue) # {} /\ \A b, c \in Linked(a, intake[s].issue) : b = c
      BY <1>0 DEF Linked
    <3>4. QED
      BY <3>1, <3>2, <3>3
  <2>2. CASE AttachFirstRow(s)
    <3>1. PICK x \in intake[s].art : bindings' = [bindings EXCEPT ![x] =
             {[NewBinding(intake[s].issue) EXCEPT !.row = intake[s].row]}]
      BY <2>2 DEF AttachFirstRow
    <3>2. x = a
      BY <1>2, <3>1 DEF TypeOK
    <3>3. bindings'[a] = {[NewBinding(intake[s].issue) EXCEPT !.row = intake[s].row]}
      BY <3>1, <3>2 DEF TypeOK
    <3>4. QED
      BY <3>1, <3>2, <3>3
  <2>3. QED
    BY <1>2, <2>1, <2>2
<1>3. ASSUME LinkRow, bindings'[a] # bindings[a]
      PROVE  /\ bindings[a] # {} /\ bindings'[a] # {}
             /\ \A b, c \in bindings'[a] : b = c
  <2>1. PICK r \in DOMAIN rows, x \in Artifacts : \E b \in bindings[x] :
          bindings' = [bindings EXCEPT ![x] = {[b EXCEPT !.row = r]}]
    BY <1>3 DEF LinkRow
  <2>2. PICK b \in bindings[x] : bindings' = [bindings EXCEPT ![x] = {[b EXCEPT !.row = r]}]
    BY <2>1
  <2>3. x = a
    BY <1>3, <2>2 DEF TypeOK
  <2>4. bindings'[a] = {[b EXCEPT !.row = r]}
    BY <2>2, <2>3 DEF TypeOK
  <2>5. QED
    BY <2>2, <2>3, <2>4
<1>4. ASSUME SaveBinding, bindings'[a] # bindings[a]
      PROVE  /\ bindings[a] # {} /\ bindings'[a] # {}
             /\ \A b, c \in bindings'[a] : b = c
  <2>1. PICK x \in cur : bindings' = [bindings EXCEPT ![Art(x.issue)] = copy]
    BY <1>4 DEF SaveBinding, Art
  <2>2. Art(x.issue) = a /\ bindings'[a] = copy
    BY <1>4, <2>1 DEF TypeOK
  <2>3. bindings[a] # {} /\ copy # {} /\ \A b, c \in copy : b = c
    BY <1>4, <2>2 DEF SaveBinding, WorkInv, OneInv
  <2>4. QED
    BY <2>2, <2>3
<1>5. \/ bindings' = bindings \/ LinkRow \/ SaveBinding
      \/ \E s \in Sources : Bind(s) \/ AttachFirstRow(s)
  BY DEF Next, Intake, CreateIssue, MarkRouted, CreateFirstRow, IntakeFails,
         Manager, Tell, Poll, PollEnds, Dispatch, GiveUp, NothingToTell, ArchiveMail, Reply,
         SyncRow, RecordCompletion, MarkHandled, ManagerFails, ReplyRefused, MoveIssue, Tick,
         vars, services
<1>6. QED
  BY <1>1, <1>2, <1>3, <1>4, <1>5

LEMMA PlaceStep == ASSUME TypeOK, Known, LinkInv, WorkInv, [Next]_vars PROVE PlaceInv'
<1>0. intake \in [Sources -> Thing] /\ "slack" \in Sources
  BY FromDisjoint DEF TypeOK, Thing
<1>1. SUFFICES ASSUME intake'["slack"].stage = "bind", NEW t \in intake'["slack"].art
               PROVE  bindings'[t] = {}
  BY IntakeMoves DEF PlaceInv, WorkInv
<1>2. CASE CreateIssue("slack")
  <2>1. PICK a \in From["slack"] : Pending(a) /\ intake' = [intake EXCEPT !["slack"] =
           [stage |-> "bind", art |-> {a}, issue |-> Len(issues'), row |-> 0]]
    BY <1>2 DEF CreateIssue
  <2>2. t = a /\ a \in Threads
    BY <1>0, <2>1, FromDisjoint
  <2>3. bindings[t] = {}
    BY <2>1, <2>2 DEF Pending
  <2>4. QED
    BY <1>2, <2>3 DEF CreateIssue
<1>3. CASE ~CreateIssue("slack")
  <2>1. intake'["slack"] = intake["slack"] /\ ~Bind("slack") /\ ~AttachFirstRow("slack")
    <3>1. ASSUME NEW s \in Sources, Intake(s) \/ IntakeFails(s), s # "slack"
          PROVE  intake'["slack"] = intake["slack"]
      BY <1>0, <3>1
      DEF Intake, CreateIssue, Bind, CreateFirstRow, MarkRouted, AttachFirstRow, IntakeFails
    <3>2. CASE Bind("slack")
      <4>1. intake' = [intake EXCEPT !["slack"] = [intake["slack"] EXCEPT !.stage = "mark"]]
        BY <1>0, <3>2 DEF Bind
      <4>2. intake'["slack"] = [intake["slack"] EXCEPT !.stage = "mark"] /\ intake["slack"] \in Thing
        BY <1>0, <4>1
      <4>3. intake'["slack"].stage = "mark"
        BY <4>2 DEF Thing
      <4>4. QED
        BY <1>1, <4>3
    <3>3. CASE CreateFirstRow("slack")
      BY <1>0, <3>3 DEF CreateFirstRow, WorkInv, PlaceInv
    <3>4. CASE MarkRouted("slack") \/ AttachFirstRow("slack") \/ IntakeFails("slack")
      BY <1>0, <1>1, <3>4 DEF MarkRouted, AttachFirstRow, IntakeFails, Idle
    <3>5. CASE UNCHANGED intake
      <4>1. intake["slack"].stage = "bind"
        BY <1>1, <3>5
      <4>2. ~AttachFirstRow("slack")
        BY <4>1 DEF AttachFirstRow
      <4>3. CASE Bind("slack")
        BY <3>2, <4>3
      <4>4. QED
        BY <3>5, <4>2, <4>3
    <3>6. \/ UNCHANGED intake \/ \E s \in Sources : Intake(s) \/ IntakeFails(s)
      BY DEF Next, LinkRow, Manager, Tell, Poll, PollEnds, Dispatch, GiveUp, NothingToTell,
             ArchiveMail, Reply, SyncRow, SaveBinding, RecordCompletion, MarkHandled,
             ManagerFails, ReplyRefused, MoveIssue, Tick, Manages, vars, intakeVars
    <3>7. CASE Bind("slack") \/ AttachFirstRow("slack")
      BY <3>2, <3>4, <3>7
    <3>8. QED
      BY <1>3, <3>1, <3>2, <3>3, <3>4, <3>5, <3>6, <3>7 DEF Intake
  <2>2. t \in Threads /\ t \in Artifacts /\ bindings[t] = {}
    BY <1>1, <2>1, FromDisjoint DEF WorkInv, PlaceInv
  <2>3. ASSUME NEW s \in Sources, Bind(s) \/ AttachFirstRow(s), t \in intake[s].art PROVE FALSE
    <3>1. s = "slack"
      BY <2>2, <2>3, FromDisjoint, DisjointAssumption DEF WorkInv, PlaceInv
    <3>2. QED
      BY <2>1, <2>3, <3>1
  <2>4. QED
    BY <2>2, <2>3, BindingsStay
<1>4. QED
  BY <1>2, <1>3

\* Telling a task takes it from "tell" to "save".
LEMMA TellingSaves ==
    ASSUME ArchiveMail \/ Reply \/ ReplyRefused \/ SyncRow
    PROVE  /\ pc = "tell" /\ pc' = "save" /\ cur' = cur /\ cur # {} /\ bindings' = bindings
           /\ copy' # {} /\ \A b, c \in copy' : b = c
<1>1. CASE ArchiveMail
  BY <1>1 DEF ArchiveMail
<1>2. CASE Reply
  BY <1>2 DEF Reply
<1>3. CASE ReplyRefused
  BY <1>3 DEF ReplyRefused
<1>4. CASE SyncRow
  BY <1>4 DEF SyncRow
<1>5. QED
  BY <1>1, <1>2, <1>3, <1>4

\* Every step leaves the task at work alone, dispatches one, tells it, or is
\* through with telling it.
LEMMA WorkMoves ==
    ASSUME [Next]_vars
    PROVE  \/ UNCHANGED <<pc, cur, copy>> /\ ~SaveBinding
           \/ Dispatch
           \/ ArchiveMail \/ Reply \/ ReplyRefused \/ SyncRow
           \/ SaveBinding
           \/ ManagerFails
           \/ pc # "save" /\ pc' \notin {"tell", "save"} /\ UNCHANGED bindings /\ copy' \subseteq copy
<1>1. CASE Poll \/ PollEnds
  BY <1>1 DEF Poll, PollEnds
<1>2. CASE GiveUp \/ NothingToTell
  BY <1>2 DEF GiveUp, NothingToTell
<1>3. CASE RecordCompletion \/ MarkHandled
  BY <1>3 DEF RecordCompletion, MarkHandled
<1>4. ASSUME \E s \in Sources : Intake(s) \/ IntakeFails(s) PROVE UNCHANGED <<pc, cur, copy>>
  BY <1>4 DEF Intake, CreateIssue, Bind, MarkRouted, CreateFirstRow, AttachFirstRow, IntakeFails,
              managerVars
<1>5. ASSUME LinkRow \/ MoveIssue \/ Tick \/ UNCHANGED vars PROVE UNCHANGED <<pc, cur, copy>>
  BY <1>5 DEF LinkRow, MoveIssue, Tick, vars, managerVars
<1>6. QED
  BY <1>1, <1>2, <1>3, <1>4, <1>5 DEF Next, Manager, Tell

LEMMA CurArtifact == ASSUME TypeOK, Known PROVE \A x \in cur : Art(x.issue) \in Artifacts
BY Elements DEF Known, Art, Issue

LEMMA OneStep == ASSUME TypeOK, Known, LinkInv, WorkInv, [Next]_vars PROVE OneInv'
<1>0. \A a \in Artifacts : /\ bindings[a] # {} => bindings'[a] # {}
                           /\ \A b, c \in bindings'[a] : b = c
  BY BindingsStay
<1>1. \A x \in cur : Art(x.issue)' = Art(x.issue) /\ Art(x.issue) \in Artifacts
  BY StillNamed, CurArtifact DEF Known
<1>2. SUFFICES /\ \A b, c \in copy' : b = c
               /\ pc' \in {"tell", "save"} => \A x \in cur' : bindings'[Art(x.issue)'] # {}
               /\ pc' = "save" => cur' # {} /\ copy' # {}
  BY <1>0 DEF OneInv, Art
<1>3. CASE UNCHANGED <<pc, cur, copy>>
  BY <1>0, <1>1, <1>3 DEF WorkInv, OneInv
<1>4. CASE Dispatch
  <2>1. CASE UNCHANGED <<pc, cur, copy>>
    BY <1>3, <2>1
  <2>2. SUFFICES ASSUME NEW x \in todo, NEW a \in Bound(x.issue), cur' = {x},
                        copy' = bindings[a], pc' = "tell"
                 PROVE  (\A b, c \in copy' : b = c) /\ bindings'[Art(x.issue)'] # {}
    BY <1>4, <2>1 DEF Dispatch
  <2>3. a \in Artifacts /\ Art(x.issue)' = a /\ bindings[a] # {}
    BY StillNamed DEF Bound, LinkInv, BindingLinks, Known
  <2>4. QED
    BY <1>0, <2>2, <2>3 DEF WorkInv, OneInv
<1>5. CASE ArchiveMail \/ Reply \/ ReplyRefused \/ SyncRow
  BY <1>1, <1>5, TellingSaves DEF WorkInv, OneInv
<1>6. CASE SaveBinding
  BY <1>6 DEF SaveBinding, WorkInv, OneInv
<1>7. CASE ManagerFails
  BY <1>7 DEF ManagerFails
<1>8. CASE pc' \notin {"tell", "save"} /\ copy' \subseteq copy
  BY <1>8 DEF WorkInv, OneInv
<1>9. QED
  BY <1>3, <1>4, <1>5, <1>6, <1>7, <1>8, WorkMoves

\* Only the manager's save changes whether a thread's binding says "replied".
LEMMA RepliedStays ==
    ASSUME TypeOK, Known, LinkInv, WorkInv, [Next]_vars, ~SaveBinding,
           NEW t \in Threads, bindings[t] # {}
    PROVE  \A c \in bindings'[t] : \E b \in bindings[t] : c.replied = b.replied
<1>0. t \in Artifacts
  BY FromDisjoint
<1>1. ASSUME NEW s \in Sources, Bind(s) PROVE bindings'[t] = bindings[t]
  <2>1. PICK x \in intake[s].art : bindings' = [bindings EXCEPT ![x] = Linked(x, intake[s].issue)]
    BY <1>1 DEF Bind
  <2>2. x # t
    <3>1. SUFFICES ASSUME x = t PROVE FALSE
      OBVIOUS
    <3>2. s = "slack"
      BY <3>1, FromDisjoint, DisjointAssumption DEF WorkInv, PlaceInv
    <3>3. QED
      BY <1>1, <3>1, <3>2 DEF Bind, WorkInv, PlaceInv
  <2>3. QED
    BY <1>0, <2>1, <2>2 DEF TypeOK
<1>2. ASSUME NEW s \in Sources, AttachFirstRow(s) PROVE bindings'[t] = bindings[t]
  <2>1. PICK x \in intake[s].art : bindings' = [bindings EXCEPT ![x] =
           {[NewBinding(intake[s].issue) EXCEPT !.row = intake[s].row]}]
    BY <1>2 DEF AttachFirstRow
  <2>2. s = "granola"
    BY <1>2 DEF AttachFirstRow, WorkInv, PlaceInv
  <2>3. x # t
    BY <2>2, FromDisjoint, DisjointAssumption DEF WorkInv, PlaceInv
  <2>4. QED
    BY <1>0, <2>1, <2>3 DEF TypeOK
<1>3. CASE LinkRow
  <2>1. PICK r \in DOMAIN rows, x \in Artifacts : \E b \in bindings[x] :
          bindings' = [bindings EXCEPT ![x] = {[b EXCEPT !.row = r]}]
    BY <1>3 DEF LinkRow
  <2>2. PICK b \in bindings[x] : bindings' = [bindings EXCEPT ![x] = {[b EXCEPT !.row = r]}]
    BY <2>1
  <2>3. b \in Binding
    BY DEF TypeOK
  <2>4. [b EXCEPT !.row = r].replied = b.replied
    BY <2>3 DEF Binding
  <2>5. QED
    BY <1>0, <2>2, <2>4 DEF TypeOK
<1>4. \/ bindings' = bindings \/ LinkRow \/ \E s \in Sources : Bind(s) \/ AttachFirstRow(s)
  BY DEF Next, Intake, CreateIssue, MarkRouted, CreateFirstRow, IntakeFails,
         Manager, Tell, Poll, PollEnds, Dispatch, GiveUp, NothingToTell, ArchiveMail, Reply,
         SyncRow, RecordCompletion, MarkHandled, ManagerFails, ReplyRefused, MoveIssue, Tick,
         vars, services
<1>5. QED
  BY <1>1, <1>2, <1>3, <1>4

LEMMA FreshStep == ASSUME TypeOK, Known, LinkInv, WorkInv, [Next]_vars PROVE FreshInv'
<1>0. \A x \in cur : Art(x.issue)' = Art(x.issue) /\ Art(x.issue) \in Artifacts
  BY StillNamed, CurArtifact DEF Known
<1>1. CASE UNCHANGED <<pc, cur, copy>> /\ ~SaveBinding
  <2>1. SUFFICES ASSUME NEW x \in cur, NEW b \in copy, Art(x.issue) \in Threads
                 PROVE  /\ pc = "tell" => \A c \in bindings'[Art(x.issue)] : c.replied = b.replied
                        /\ pc = "save" => b.replied
    BY <1>0, <1>1 DEF FreshInv
  <2>2. ASSUME pc = "tell" PROVE \A c \in bindings'[Art(x.issue)] : c.replied = b.replied
    <3>1. bindings[Art(x.issue)] # {} /\ \A c \in bindings[Art(x.issue)] : c.replied = b.replied
      BY <2>1, <2>2 DEF WorkInv, OneInv, FreshInv
    <3>2. QED
      BY <1>1, <2>1, <3>1, RepliedStays
  <2>3. QED
    BY <2>1, <2>2 DEF WorkInv, FreshInv
<1>2. CASE Dispatch
  <2>1. CASE UNCHANGED <<pc, cur, copy>>
    BY <1>1, <1>2, <2>1 DEF Dispatch, SaveBinding
  <2>2. SUFFICES ASSUME NEW x \in todo, NEW a \in Bound(x.issue), cur' = {x},
                        copy' = bindings[a], pc' = "tell"
                 PROVE  \A b \in copy', c \in bindings'[Art(x.issue)'] : c.replied = b.replied
    BY <1>2, <2>1 DEF Dispatch, FreshInv
  <2>3. a \in Artifacts /\ Art(x.issue)' = a /\ bindings' = bindings
    BY <1>2, StillNamed DEF Dispatch, Bound, LinkInv, BindingLinks, Known
  <2>4. QED
    BY <2>2, <2>3 DEF WorkInv, OneInv
<1>3. CASE ArchiveMail \/ SyncRow
  <2>1. \A x \in cur : Art(x.issue) \notin Threads
    BY <1>3, DisjointAssumption DEF ArchiveMail, SyncRow, Known, Art
  <2>2. QED
    BY <1>0, <1>3, <2>1, TellingSaves DEF FreshInv
<1>4. CASE Reply \/ ReplyRefused
  <2>1. PICK b \in copy : copy' = {[b EXCEPT !.replied = TRUE]}
    BY <1>4 DEF Reply, ReplyRefused
  <2>2. b \in Binding
    BY DEF TypeOK
  <2>3. [b EXCEPT !.replied = TRUE].replied
    BY <2>2 DEF Binding
  <2>4. QED
    BY <1>4, <2>1, <2>3, TellingSaves DEF FreshInv
<1>5. CASE SaveBinding
  BY <1>5 DEF SaveBinding, FreshInv
<1>6. CASE ManagerFails
  BY <1>6 DEF ManagerFails, FreshInv
<1>7. CASE pc' \notin {"tell", "save"}
  BY <1>7 DEF FreshInv
<1>8. QED
  BY <1>1, <1>2, <1>3, <1>4, <1>5, <1>6, <1>7, WorkMoves

\* The thread is answered in its binding, or is about to be.
Replied(t) ==
    \/ \E b \in bindings[t] : b.replied
    \/ pc = "save" /\ \E x \in cur : Art(x.issue) = t

ReplyInv == \A t \in Threads : replies[t] <= faults + (IF Replied(t) THEN 1 ELSE 0)

LEMMA FaultsGrow == ASSUME TypeOK, [Next]_vars PROVE faults' \in {faults, faults + 1} /\ faults \in Nat
<1>1. CASE \E s \in Sources : IntakeFails(s)
  BY <1>1 DEF IntakeFails, Fault, TypeOK
<1>2. CASE ManagerFails \/ ReplyRefused
  BY <1>2 DEF ManagerFails, ReplyRefused, Fault, TypeOK
<1>3. CASE UNCHANGED faults
  BY <1>3 DEF TypeOK
<1>4. UNCHANGED faults \/ ManagerFails \/ ReplyRefused \/ \E s \in Sources : IntakeFails(s)
  BY DEF Next, Intake, CreateIssue, Bind, MarkRouted, CreateFirstRow, AttachFirstRow, LinkRow,
         Manager, Tell, Poll, PollEnds, Dispatch, GiveUp, NothingToTell, ArchiveMail, Reply,
         SyncRow, SaveBinding, RecordCompletion, MarkHandled, MoveIssue, Tick, NoFault, vars
<1>5. QED
  BY <1>1, <1>2, <1>3, <1>4

\* A thread that is answered stays so, but for a failure.
LEMMA RepliedKept ==
    ASSUME TypeOK, Known, LinkInv, WorkInv, [Next]_vars, NEW t \in Threads, Replied(t)
    PROVE  Replied(t)' \/ faults' = faults + 1
<1>0. /\ t \in Artifacts
      /\ \A x \in cur : Art(x.issue)' = Art(x.issue)
  BY FromDisjoint, StillNamed DEF Known
<1>1. ASSUME NEW b \in bindings[t], b.replied, ~SaveBinding PROVE \E c \in bindings'[t] : c.replied
  <2>1. bindings'[t] # {} /\ \A c \in bindings'[t] : \E d \in bindings[t] : c.replied = d.replied
    BY <1>0, <1>1, BindingsStay, RepliedStays
  <2>2. \A d \in bindings[t] : d = b
    BY <1>0 DEF WorkInv, OneInv
  <2>3. QED
    BY <1>1, <2>1, <2>2
<1>2. CASE SaveBinding
  <2>1. PICK x \in cur : bindings' = [bindings EXCEPT ![Art(x.issue)] = copy]
    BY <1>2 DEF SaveBinding, Art
  <2>2. CASE Art(x.issue) = t
    <3>1. bindings'[t] = copy
      BY <1>0, <2>1, <2>2 DEF TypeOK
    <3>2. copy # {} /\ \A b \in copy : b.replied
      BY <1>2, <2>2 DEF SaveBinding, WorkInv, OneInv, FreshInv
    <3>3. QED
      BY <3>1, <3>2 DEF Replied
  <2>3. CASE Art(x.issue) # t
    <3>1. bindings'[t] = bindings[t]
      BY <1>0, <2>1, <2>3 DEF TypeOK
    <3>2. \A y \in cur : Art(y.issue) # t
      BY <2>3 DEF Known
    <3>3. QED
      BY <3>1, <3>2 DEF Replied
  <2>4. QED
    BY <2>2, <2>3
<1>3. CASE ManagerFails
  BY <1>3 DEF ManagerFails, Fault
<1>4. CASE UNCHANGED <<pc, cur, copy>> /\ ~SaveBinding
  BY <1>0, <1>1, <1>4 DEF Replied
<1>5. CASE pc # "save" /\ ~SaveBinding
  BY <1>1, <1>5 DEF Replied
<1>6. CASE Dispatch \/ ArchiveMail \/ Reply \/ ReplyRefused \/ SyncRow
  <2>1. pc # "save"
    BY <1>6, TellingSaves DEF Dispatch
  <2>2. QED
    BY <1>5, <2>1 DEF SaveBinding
<1>7. QED
  BY <1>2, <1>3, <1>4, <1>5, <1>6, WorkMoves DEF SaveBinding

LEMMA ReplyStep == ASSUME TypeOK, Known, LinkInv, WorkInv, ReplyInv, [Next]_vars PROVE ReplyInv'
<1>0. faults' \in {faults, faults + 1} /\ faults \in Nat
  BY FaultsGrow
<1>1. SUFFICES ASSUME NEW t \in Threads
               PROVE  replies'[t] <= faults' + (IF Replied(t)' THEN 1 ELSE 0)
  BY DEF ReplyInv
<1>2. replies[t] <= faults + (IF Replied(t) THEN 1 ELSE 0) /\ replies[t] \in Nat /\ t \in Artifacts
  BY FromDisjoint DEF ReplyInv, TypeOK
<1>3. CASE replies'[t] = replies[t]
  <2>1. CASE Replied(t)
    <3>1. Replied(t)' \/ faults' = faults + 1
      BY <2>1, RepliedKept
    <3>2. QED
      BY <1>0, <1>2, <1>3, <2>1, <3>1
  <2>2. CASE ~Replied(t)
    BY <1>0, <1>2, <1>3, <2>2
  <2>3. QED
    BY <2>1, <2>2
<1>4. CASE Reply
  <2>1. PICK x \in cur, b \in copy :
          /\ Art(x.issue) \in Threads /\ ~b.replied
          /\ replies' = [replies EXCEPT ![Art(x.issue)] = @ + 1]
    BY <1>4 DEF Reply, Art
  <2>2. CASE Art(x.issue) # t
    BY <1>3, <2>1, <2>2 DEF TypeOK
  <2>3. CASE Art(x.issue) = t
    <3>1. replies'[t] = replies[t] + 1
      BY <2>1, <2>3 DEF TypeOK
    <3>2. pc = "tell" /\ pc' = "save" /\ cur' = cur
      BY <1>4, TellingSaves
    <3>3. ~Replied(t)
      BY <2>1, <2>3, <3>2 DEF Replied, WorkInv, FreshInv
    <3>4. Replied(t)'
      <4>1. Art(x.issue)' = t
        BY <2>3, StillNamed DEF Known
      <4>2. QED
        BY <3>2, <4>1 DEF Replied
    <3>5. QED
      BY <1>0, <1>2, <3>1, <3>3, <3>4
  <2>4. QED
    BY <2>2, <2>3
<1>5. UNCHANGED replies \/ Reply
  BY DEF Next, Intake, CreateIssue, Bind, MarkRouted, CreateFirstRow, AttachFirstRow,
         IntakeFails, LinkRow, Manager, Tell, Poll, PollEnds, Dispatch, GiveUp, NothingToTell,
         ArchiveMail, SyncRow, SaveBinding, RecordCompletion, MarkHandled, ManagerFails,
         ReplyRefused, MoveIssue, Tick, vars, services
<1>6. QED
  BY <1>3, <1>4, <1>5

LEMMA AlwaysWork == Spec => [](TypeOK /\ Known /\ LinkInv /\ WorkInv /\ ReplyInv)
<1>1. ASSUME Init PROVE WorkInv /\ ReplyInv
  <2>1. \A s \in Sources : intake[s] = Idle
    BY <1>1 DEF Init
  <2>2. PlaceInv
    BY <2>1, FromDisjoint DEF PlaceInv, Idle
  <2>3. OneInv /\ FreshInv
    BY <1>1 DEF Init, OneInv, FreshInv
  <2>4. ReplyInv
    BY <1>1 DEF Init, ReplyInv
  <2>5. QED
    BY <2>2, <2>3, <2>4 DEF WorkInv
<1>2. Init => Known
  BY DEF Init, Known
<1>3. TypeOK /\ Known /\ LinkInv /\ WorkInv /\ ReplyInv /\ [Next]_vars
        => TypeOK' /\ Known' /\ LinkInv' /\ WorkInv' /\ ReplyInv'
  <2>1. ASSUME TypeOK, Known, LinkInv, WorkInv, ReplyInv, [Next]_vars
        PROVE  PlaceInv' /\ OneInv' /\ FreshInv' /\ ReplyInv'
    BY <2>1, PlaceStep, OneStep, FreshStep, ReplyStep
  <2>2. QED
    BY <2>1, StepTyped, KnownStep, LinkInvStep DEF WorkInv
<1>4. QED
  BY <1>1, <1>2, <1>3, InitTyped, InitLinked, PTL DEF Spec

\* A thread gets one reply, and one more for each failure, although the manager
\* remembers a single signature: the flag in the binding is what counts.
THEOREM RepliedCorrect == Spec => []RepliedOnce
<1>1. ASSUME TypeOK, ReplyInv PROVE RepliedOnce
  <2>1. faults \in Nat /\ \A t \in Threads : replies[t] \in Nat
    BY <1>1 DEF TypeOK
  <2>2. QED
    BY <1>1, <2>1 DEF ReplyInv, RepliedOnce
<1>2. QED
  BY <1>1, AlwaysWork, PTL

-----------------------------------------------------------------------------
(* A mail, thread or note gets one issue, and one more for each failure *)

\* An intake agent works on one thing, and only Gmail's and Slack's mark the
\* routing record.
IntakeInv ==
    \A s \in Sources :
        /\ intake[s].stage = "mark" => s # "granola"
        /\ \A x, y \in intake[s].art : x = y

LEMMA IntakeInvStep == ASSUME TypeOK, IntakeInv, [Next]_vars PROVE IntakeInv'
<1>0. intake \in [Sources -> Thing] /\ \A s \in Sources : intake[s] \in Thing
  BY DEF TypeOK, Thing
<1>1. ASSUME NEW s \in Sources, Intake(s) \/ IntakeFails(s)
      PROVE  /\ \A g \in Sources : g # s => intake'[g] = intake[g]
             /\ intake'[s].stage = "mark" => s # "granola"
             /\ \A x, y \in intake'[s].art : x = y
  <2>1. CASE CreateIssue(s)
    <3>1. PICK a \in From[s] : intake' = [intake EXCEPT ![s] =
             [stage |-> "bind", art |-> {a}, issue |-> Len(issues'), row |-> 0]]
      BY <2>1 DEF CreateIssue
    <3>2. intake'[s] = [stage |-> "bind", art |-> {a}, issue |-> Len(issues'), row |-> 0]
      BY <1>0, <3>1
    <3>3. QED
      BY <1>0, <3>1, <3>2
  <2>2. CASE Bind(s)
    <3>1. PICK g \in Stages : /\ intake' = [intake EXCEPT ![s] = [intake[s] EXCEPT !.stage = g]]
                              /\ g = "mark" => s # "granola"
      BY <1>0, <2>2 DEF Bind, Stages
    <3>2. intake'[s] = [intake[s] EXCEPT !.stage = g]
      BY <1>0, <3>1
    <3>3. intake'[s].art = intake[s].art /\ intake'[s].stage = g
      BY <1>0, <3>2 DEF Thing
    <3>4. QED
      BY <1>0, <3>1, <3>3 DEF IntakeInv
  <2>3. CASE CreateFirstRow(s)
    <3>1. intake' = [intake EXCEPT ![s] = [intake[s] EXCEPT !.stage = "attach", !.row = Len(rows')]]
      BY <1>0, <2>3 DEF CreateFirstRow
    <3>2. intake'[s] = [intake[s] EXCEPT !.stage = "attach", !.row = Len(rows')]
      BY <1>0, <3>1
    <3>3. intake'[s].art = intake[s].art /\ intake'[s].stage = "attach"
      BY <1>0, <3>2 DEF Thing
    <3>4. QED
      BY <1>0, <3>1, <3>3 DEF IntakeInv
  <2>4. CASE MarkRouted(s) \/ AttachFirstRow(s) \/ IntakeFails(s)
    BY <1>0, <2>4 DEF MarkRouted, AttachFirstRow, IntakeFails, Idle
  <2>5. QED
    BY <1>1, <2>1, <2>2, <2>3, <2>4 DEF Intake
<1>2. UNCHANGED intake \/ \E s \in Sources : Intake(s) \/ IntakeFails(s)
  BY DEF Next, LinkRow, Manager, Tell, Poll, PollEnds, Dispatch, GiveUp, NothingToTell,
         ArchiveMail, Reply, SyncRow, SaveBinding, RecordCompletion, MarkHandled, ManagerFails,
         ReplyRefused, MoveIssue, Tick, Manages, vars, intakeVars
<1>3. CASE UNCHANGED intake
  BY <1>3 DEF IntakeInv
<1>4. QED
  BY <1>1, <1>2, <1>3 DEF IntakeInv

\* An intake agent has a task at work, or will not take it up again.
Working(s, a) == intake[s].stage # "idle" /\ a \in intake[s].art
Done(a) == ~Pending(a) \/ \E s \in Sources : Working(s, a)

\* Only a failure makes a task pending that was taken up.
LEMMA DoneStays ==
    ASSUME TypeOK, Known, LinkInv, WorkInv, IntakeInv, [Next]_vars, NEW a \in Artifacts, Done(a)
    PROVE  Done(a)' \/ faults' = faults + 1
<1>0. intake \in [Sources -> Thing] /\ \A s \in Sources : intake[s] \in Thing
  BY DEF TypeOK, Thing
<1>1. handled \subseteq handled'
  BY DEF Next, Intake, CreateIssue, Bind, MarkRouted, CreateFirstRow, AttachFirstRow,
         IntakeFails, LinkRow, Manager, Tell, Poll, PollEnds, Dispatch, GiveUp, NothingToTell,
         ArchiveMail, Reply, SyncRow, SaveBinding, RecordCompletion, MarkHandled, ManagerFails,
         ReplyRefused, MoveIssue, Tick, Manages, vars, intakeVars
<1>2. CASE ~Pending(a)
  BY <1>1, <1>2, BindingsStay DEF Pending, Done
<1>3. ASSUME NEW s \in Sources, Working(s, a), ~Done(a)' PROVE faults' = faults + 1
  <2>1. CASE intake'[s] = intake[s]
    BY <1>3, <2>1 DEF Working, Done
  <2>2. CASE Bind(s)
    <3>1. PICK g \in Stages \ {"idle"} : intake' = [intake EXCEPT ![s] = [intake[s] EXCEPT !.stage = g]]
      BY <1>0, <2>2 DEF Bind, Stages
    <3>2. intake'[s] = [intake[s] EXCEPT !.stage = g]
      BY <1>0, <3>1
    <3>3. intake'[s].art = intake[s].art /\ intake'[s].stage # "idle"
      BY <1>0, <3>2 DEF Thing
    <3>4. QED
      BY <1>3, <3>3 DEF Working, Done
  <2>3. CASE CreateFirstRow(s)
    <3>1. intake' = [intake EXCEPT ![s] = [intake[s] EXCEPT !.stage = "attach", !.row = Len(rows')]]
      BY <1>0, <2>3 DEF CreateFirstRow
    <3>2. intake'[s] = [intake[s] EXCEPT !.stage = "attach", !.row = Len(rows')]
      BY <1>0, <3>1
    <3>3. intake'[s].art = intake[s].art /\ intake'[s].stage = "attach"
      BY <1>0, <3>2 DEF Thing
    <3>4. QED
      BY <1>3, <3>3 DEF Working, Done
  <2>4. CASE MarkRouted(s)
    <3>1. a \in handled' /\ a \in From[s] /\ s # "granola"
      BY <1>3, <2>4 DEF MarkRouted, Working, IntakeInv, WorkInv, PlaceInv
    <3>2. a \in Mails \cup Threads
      BY <3>1, FromDisjoint
    <3>3. QED
      BY <1>3, <3>1, <3>2 DEF Done, Pending
  <2>5. CASE AttachFirstRow(s)
    <3>1. PICK x \in intake[s].art : bindings' = [bindings EXCEPT ![x] =
             {[NewBinding(intake[s].issue) EXCEPT !.row = intake[s].row]}]
      BY <2>5 DEF AttachFirstRow
    <3>2. x = a
      BY <1>3, <3>1 DEF Working, IntakeInv
    <3>3. bindings'[a] # {}
      BY <3>1, <3>2 DEF TypeOK
    <3>4. a \in Notes
      BY <1>3, <2>5, FromDisjoint DEF AttachFirstRow, Working, WorkInv, PlaceInv
    <3>5. QED
      BY <1>3, <3>3, <3>4 DEF Done, Pending
  <2>6. CASE IntakeFails(s)
    BY <2>6 DEF IntakeFails, Fault
  <2>7. ~CreateIssue(s)
    BY <1>3 DEF CreateIssue, Working
  <2>8. ASSUME NEW g \in Sources, Intake(g) \/ IntakeFails(g), g # s PROVE intake'[s] = intake[s]
    BY <1>0, <2>8
    DEF Intake, CreateIssue, Bind, CreateFirstRow, MarkRouted, AttachFirstRow, IntakeFails
  <2>9. UNCHANGED intake \/ \E g \in Sources : Intake(g) \/ IntakeFails(g)
    BY DEF Next, LinkRow, Manager, Tell, Poll, PollEnds, Dispatch, GiveUp, NothingToTell,
           ArchiveMail, Reply, SyncRow, SaveBinding, RecordCompletion, MarkHandled,
           ManagerFails, ReplyRefused, MoveIssue, Tick, Manages, vars, intakeVars
  <2>10. QED
    BY <2>1, <2>2, <2>3, <2>4, <2>5, <2>6, <2>7, <2>8, <2>9 DEF Intake
<1>4. QED
  BY <1>2, <1>3 DEF Done

\* Where an issue of an artifact can come from.
LEMMA IssuesOfMoves ==
    ASSUME TypeOK, PlaceInv, [Next]_vars, NEW a \in Artifacts
    PROVE  \/ IssuesOf(a)' = IssuesOf(a)
           \/ ~Done(a) /\ Done(a)' /\ faults' = faults /\ \E i : IssuesOf(a)' = IssuesOf(a) \cup {i}
<1>1. CASE UNCHANGED issues
  BY <1>1 DEF IssuesOf
<1>2. CASE MoveIssue
  <2>1. DOMAIN issues' = DOMAIN issues
    BY <1>2 DEF MoveIssue
  <2>2. \A i \in DOMAIN issues : issues'[i].art = issues[i].art
    BY IssuesGrow
  <2>3. QED
    BY <2>1, <2>2 DEF IssuesOf
<1>3. ASSUME NEW s \in Sources, CreateIssue(s)
      PROVE  \/ IssuesOf(a)' = IssuesOf(a)
             \/ ~Done(a) /\ Done(a)' /\ faults' = faults /\ \E i : IssuesOf(a)' = IssuesOf(a) \cup {i}
  <2>1. PICK x \in From[s] :
          /\ Pending(x)
          /\ issues' = Append(issues, [art |-> x, state |-> "open", at |-> clock])
          /\ intake' = [intake EXCEPT ![s] =
                [stage |-> "bind", art |-> {x}, issue |-> Len(issues'), row |-> 0]]
    BY <1>3 DEF CreateIssue
  <2>2. [art |-> x, state |-> "open", at |-> clock] \in Issue /\ x \in Artifacts
    BY ArtifactsOf DEF TypeOK, Issue, States
  <2>3. /\ DOMAIN issues' = 1..(Len(issues) + 1)
        /\ \A i \in 1..Len(issues) : issues'[i] = issues[i]
        /\ issues'[Len(issues) + 1] = [art |-> x, state |-> "open", at |-> clock]
    BY <2>1, <2>2, AppendProperties, LenProperties, Elements DEF TypeOK
  <2>4. IssuesOf(a)' = IssuesOf(a) \cup {i \in {Len(issues) + 1} : x = a}
    BY <2>3, Elements DEF IssuesOf
  <2>5. CASE x # a
    BY <2>4, <2>5
  <2>6. CASE x = a
    <3>1. IssuesOf(a)' = IssuesOf(a) \cup {Len(issues) + 1}
      BY <2>4, <2>6
    <3>2. intake \in [Sources -> Thing] /\ intake[s].stage = "idle" /\ faults' = faults
      BY <1>3 DEF TypeOK, Thing, CreateIssue
    <3>3. \A g \in Sources : a \in intake[g].art => g = s
      BY <2>1, <2>6, FromDisjoint, DisjointAssumption DEF PlaceInv
    <3>4. ~Done(a)
      BY <2>1, <2>6, <3>2, <3>3 DEF Done, Working
    <3>5. intake'[s] = [stage |-> "bind", art |-> {a}, issue |-> Len(issues'), row |-> 0]
      BY <2>1, <2>6, <3>2
    <3>6. Done(a)'
      BY <3>5 DEF Done, Working
    <3>7. QED
      BY <3>1, <3>2, <3>4, <3>6
  <2>7. QED
    BY <2>5, <2>6
<1>4. \/ UNCHANGED issues \/ MoveIssue \/ \E s \in Sources : CreateIssue(s)
  BY DEF Next, Intake, Bind, MarkRouted, CreateFirstRow, AttachFirstRow, IntakeFails, LinkRow,
         Manager, Tell, Poll, PollEnds, Dispatch, GiveUp, NothingToTell, ArchiveMail, Reply,
         SyncRow, SaveBinding, RecordCompletion, MarkHandled, ManagerFails, ReplyRefused,
         Manages, Tick, vars, services
<1>5. QED
  BY <1>1, <1>2, <1>3, <1>4

IssueInv ==
    \A a \in Artifacts : Cardinality(IssuesOf(a)) <= faults + (IF Done(a) THEN 1 ELSE 0)

LEMMA IssuesOfFinite ==
    ASSUME TypeOK, NEW a \in Artifacts
    PROVE  IsFiniteSet(IssuesOf(a)) /\ Cardinality(IssuesOf(a)) \in Nat
<1>1. IssuesOf(a) \in SUBSET (1..Len(issues)) /\ Len(issues) \in Nat
  BY Elements DEF IssuesOf
<1>2. IsFiniteSet(1..Len(issues))
  BY <1>1, FS_Interval
<1>3. IsFiniteSet(IssuesOf(a))
  BY <1>1, <1>2, FS_Subset
<1>4. QED
  BY <1>3, FS_CardinalityType

LEMMA IssueStep ==
    ASSUME TypeOK, Known, LinkInv, WorkInv, IntakeInv, IssueInv, [Next]_vars
    PROVE  IssueInv'
<1>0. faults' \in {faults, faults + 1} /\ faults \in Nat
  BY FaultsGrow
<1>1. SUFFICES ASSUME NEW a \in Artifacts
               PROVE  Cardinality(IssuesOf(a)') <= faults' + (IF Done(a)' THEN 1 ELSE 0)
  BY DEF IssueInv
<1>2. /\ IsFiniteSet(IssuesOf(a)) /\ Cardinality(IssuesOf(a)) \in Nat
      /\ Cardinality(IssuesOf(a)) <= faults + (IF Done(a) THEN 1 ELSE 0)
  BY IssuesOfFinite DEF IssueInv
<1>3. CASE IssuesOf(a)' = IssuesOf(a)
  <2>1. Cardinality(IssuesOf(a)') = Cardinality(IssuesOf(a))
    BY <1>3
  <2>2. Done(a) => Done(a)' \/ faults' = faults + 1
    BY DoneStays
  <2>3. QED
    BY <1>0, <1>2, <2>1, <2>2
<1>4. ASSUME ~Done(a), Done(a)', faults' = faults, NEW i, IssuesOf(a)' = IssuesOf(a) \cup {i}
      PROVE  Cardinality(IssuesOf(a)') <= faults' + (IF Done(a)' THEN 1 ELSE 0)
  <2> DEFINE old == Cardinality(IssuesOf(a))
             new == Cardinality(IssuesOf(a) \cup {i})
  <2>1. new \in {old, old + 1}
    BY <1>2, FS_AddElement
  <2>2. old \in Nat /\ old <= faults
    BY <1>0, <1>2, <1>4
  <2> HIDE DEF old, new
  <2>3. new <= faults + 1
    BY <1>0, <2>1, <2>2
  <2>4. Cardinality(IssuesOf(a)') = new
    BY <1>4 DEF new
  <2>5. QED
    BY <1>4, <2>3, <2>4
<1>5. QED
  BY <1>3, <1>4, IssuesOfMoves DEF WorkInv

\* A mail, thread or note gets one issue, and one more for each failure: an
\* intake agent that has made its issue gets to the binding or the routing record
\* that keeps the others, and itself, from making another.
THEOREM IssuesCorrect == Spec => []OneIssueEach
<1>1. ASSUME Init PROVE IntakeInv /\ IssueInv
  <2>1. \A s \in Sources : intake[s] = Idle
    BY <1>1 DEF Init
  <2>2. IntakeInv
    BY <2>1 DEF IntakeInv, Idle
  <2>3. DOMAIN issues = {} /\ faults = 0
    BY <1>1, EmptySeq DEF Init
  <2>4. \A a \in Artifacts : IssuesOf(a) = {}
    BY <2>3 DEF IssuesOf
  <2>5. Cardinality({}) = 0
    BY FS_EmptySet
  <2>6. ASSUME NEW a \in Artifacts PROVE Cardinality(IssuesOf(a)) <= faults + (IF Done(a) THEN 1 ELSE 0)
    <3>1. Cardinality(IssuesOf(a)) = 0
      BY <2>4, <2>5
    <3>2. QED
      BY <2>3, <3>1
  <2>7. QED
    BY <2>2, <2>6 DEF IssueInv
<1>2. TypeOK /\ Known /\ LinkInv /\ WorkInv /\ IntakeInv /\ IssueInv /\ [Next]_vars
        => IntakeInv' /\ IssueInv'
  BY IntakeInvStep, IssueStep
<1>3. ASSUME TypeOK, IssueInv PROVE OneIssueEach
  <2>1. faults \in Nat /\ \A a \in Artifacts : Cardinality(IssuesOf(a)) \in Nat
    BY <1>3, IssuesOfFinite DEF TypeOK
  <2>2. QED
    BY <1>3, <2>1 DEF IssueInv, OneIssueEach
<1>4. QED
  BY <1>1, <1>2, <1>3, AlwaysWork, PTL DEF Spec

-----------------------------------------------------------------------------
(***************************************************************************)
(* A task has one row, and one more for each failure.  Rows are made in    *)
(* two places, by the intake of a note and by the manager for a binding    *)
(* without a row.  They do not meet, since the manager only works on       *)
(* finished issues; and the manager's copy of the binding says "no row"    *)
(* only if no row is to be found there, or a failure lost the one that was *)
(* made.                                                                   *)
(***************************************************************************)
Draft == intake["granola"]

\* Rows are the rows of notes.
RowsOfNotes == \A r \in DOMAIN rows : Art(rows[r].issue) \in Notes

\* The issue that is being taken in is open, and nobody else has found it.
DraftOpen ==
    Draft.stage # "idle" =>
        issues[Draft.issue].state = "open" /\ \A x \in todo : x.issue # Draft.issue
DraftAlone ==
    Draft.stage # "idle" /\ pc \in {"tell", "save"} =>
        \A x \in cur : Art(x.issue) \notin Draft.art

\* Its binding is the one that the intake made, and has no row before the intake
\* gives it one.
DraftBound ==
    \A a \in Draft.art :
        /\ Draft.stage = "bind" => bindings[a] = {}
        /\ Draft.stage \in {"sync", "attach"} => \A b \in bindings[a] : b.issue = Draft.issue
        /\ Draft.stage = "sync" => \A b \in bindings[a] : b.row = 0
DraftRow ==
    Draft.stage \in {"bind", "sync"} => \A r \in DOMAIN rows : rows[r].issue # Draft.issue

DraftInv == DraftOpen /\ DraftAlone /\ DraftBound /\ DraftRow

\* A row in the manager's copy is in the binding too, or about to be saved.
CopyRowInv ==
    \A x \in cur, b \in copy : Art(x.issue) \in Notes =>
        /\ pc = "tell" /\ b.row # 0 => \A c \in bindings[Art(x.issue)] : c.row # 0
        /\ pc = "save" => b.row # 0

\* The manager is telling a task, and a task's row is known to the binding that
\* will be there when the manager or the intake is done with it.
AtWork(a) == pc \in {"tell", "save"} /\ \E x \in cur : Art(x.issue) = a
Rowed(a) ==
    IF AtWork(a) THEN \E b \in copy : b.row # 0
    ELSE \/ \E b \in bindings[a] : b.row # 0
         \/ Draft.stage = "attach" /\ a \in Draft.art

RowInv == \A a \in Notes : Cardinality(RowsOf(a)) <= faults + (IF Rowed(a) THEN 1 ELSE 0)

LEMMA DraftTyped ==
    ASSUME TypeOK
    PROVE  /\ "granola" \in Sources /\ From["granola"] = Notes /\ Notes \subseteq Artifacts
           /\ intake \in [Sources -> Thing] /\ Draft \in Thing
BY FromDisjoint DEF TypeOK, Thing, Draft

\* Where the rows of a step come from.
NewRow(i) == /\ DOMAIN rows' = DOMAIN rows \cup {Len(rows) + 1}
             /\ Len(rows) + 1 \notin DOMAIN rows /\ rows'[Len(rows) + 1].issue = i

LEMMA RowsMove ==
    ASSUME TypeOK, WorkInv, [Next]_vars
    PROVE  \/ DOMAIN rows' = DOMAIN rows
           \/ CreateFirstRow("granola") /\ NewRow(Draft.issue)
           \/ SyncRow /\ \E x \in cur, b \in copy :
                 Art(x.issue) \in Notes /\ b.row = 0 /\ NewRow(x.issue) /\ \A c \in copy' : c.row # 0
<1>0. ASSUME NEW x \in Row, rows' = Append(rows, x)
      PROVE  NewRow(x.issue) /\ Len(rows') = Len(rows) + 1 /\ Len(rows) \in Nat
  <2>1. /\ Len(rows) \in Nat /\ DOMAIN rows = 1..Len(rows)
        /\ DOMAIN rows' = 1..(Len(rows) + 1) /\ Len(rows') = Len(rows) + 1
        /\ rows'[Len(rows) + 1] = x
    BY <1>0, AppendProperties, LenProperties, Elements DEF TypeOK
  <2>2. QED
    BY <2>1 DEF NewRow
<1>1. ASSUME NEW s \in Sources, CreateFirstRow(s) PROVE s = "granola" /\ NewRow(Draft.issue)
  <2>1. s = "granola"
    BY <1>1 DEF CreateFirstRow, WorkInv, PlaceInv
  <2>2. [issue |-> Draft.issue, state |-> "open"] \in Row
    BY DraftTyped, ThingFields DEF Row, States
  <2>3. rows' = Append(rows, [issue |-> Draft.issue, state |-> "open"])
    BY <1>1, <2>1 DEF CreateFirstRow, Draft
  <2>4. QED
    BY <1>0, <2>1, <2>2, <2>3
<1>2. ASSUME SyncRow
      PROVE  \/ DOMAIN rows' = DOMAIN rows
             \/ \E x \in cur, b \in copy :
                 Art(x.issue) \in Notes /\ b.row = 0 /\ NewRow(x.issue) /\ \A c \in copy' : c.row # 0
  <2>1. PICK x \in cur, b \in copy :
          /\ Art(x.issue) \in Notes
          /\ \/ /\ b.row = 0
                /\ rows' = Append(rows, [issue |-> x.issue, state |-> x.state])
                /\ copy' = {[b EXCEPT !.row = Len(rows'), !.pushed = x.state]}
             \/ rows' = [rows EXCEPT ![b.row].state = x.state]
    BY <1>2 DEF SyncRow, Art
  <2>2. CASE rows' = [rows EXCEPT ![b.row].state = x.state]
    BY <2>2
  <2>3. CASE /\ b.row = 0
             /\ rows' = Append(rows, [issue |-> x.issue, state |-> x.state])
             /\ copy' = {[b EXCEPT !.row = Len(rows'), !.pushed = x.state]}
    <3>1. x.issue \in Nat /\ x.state \in Finished /\ b \in Binding
      BY DEF TypeOK, Seen
    <3>2. [issue |-> x.issue, state |-> x.state] \in Row
      BY <3>1 DEF Row, States
    <3>3. NewRow(x.issue) /\ Len(rows') = Len(rows) + 1 /\ Len(rows) \in Nat
      BY <1>0, <2>3, <3>2
    <3>4. [b EXCEPT !.row = Len(rows'), !.pushed = x.state].row = Len(rows')
      BY <3>1 DEF Binding
    <3>5. Len(rows') # 0
      BY <3>3
    <3>6. \A c \in copy' : c.row # 0
      <4> DEFINE new == [b EXCEPT !.row = Len(rows'), !.pushed = x.state]
      <4>1. copy' = {new} /\ new.row # 0
        BY <2>3, <3>4, <3>5
      <4> HIDE DEF new
      <4>2. QED
        BY <4>1
    <3>7. QED
      BY <2>1, <2>3, <3>3, <3>6
  <2>4. QED
    BY <2>1, <2>2, <2>3
<1>3. \/ UNCHANGED rows \/ SyncRow \/ \E s \in Sources : CreateFirstRow(s)
  BY DEF Next, Intake, CreateIssue, Bind, MarkRouted, AttachFirstRow, IntakeFails, LinkRow,
         Manager, Tell, Poll, PollEnds, Dispatch, GiveUp, NothingToTell, ArchiveMail, Reply,
         SaveBinding, RecordCompletion, MarkHandled, ManagerFails, ReplyRefused, MoveIssue,
         Tick, vars, services
<1>4. QED
  BY <1>1, <1>2, <1>3

\* What the intake of notes does in a step.
LEMMA DraftMoves ==
    ASSUME TypeOK, IntakeInv, [Next]_vars
    PROVE  \/ /\ Draft' = Draft
              /\ ~Bind("granola") /\ ~CreateFirstRow("granola") /\ ~AttachFirstRow("granola")
           \/ /\ CreateIssue("granola") /\ Draft'.stage = "bind" /\ Draft'.issue = Len(issues) + 1
              /\ \E a \in Notes : Draft'.art = {a} /\ bindings[a] = {}
           \/ /\ Bind("granola") /\ Draft.stage = "bind" /\ Draft'.stage = "sync"
              /\ Draft'.issue = Draft.issue /\ Draft'.art = Draft.art
           \/ /\ CreateFirstRow("granola") /\ Draft.stage = "sync" /\ Draft'.stage = "attach"
              /\ Draft'.issue = Draft.issue /\ Draft'.art = Draft.art
           \/ AttachFirstRow("granola") /\ Draft.stage = "attach" /\ Draft'.stage = "idle" /\ Draft'.art = {}
           \/ IntakeFails("granola") /\ Draft'.stage = "idle" /\ Draft'.art = {}
<1>0. "granola" \in Sources /\ intake \in [Sources -> Thing] /\ Draft \in Thing
  BY DraftTyped
<1>1. CASE CreateIssue("granola")
  <2>1. PICK a \in Notes :
          /\ Pending(a)
          /\ issues' = Append(issues, [art |-> a, state |-> "open", at |-> clock])
          /\ intake' = [intake EXCEPT !["granola"] =
                [stage |-> "bind", art |-> {a}, issue |-> Len(issues'), row |-> 0]]
    BY <1>1, FromDisjoint DEF CreateIssue
  <2>2. [art |-> a, state |-> "open", at |-> clock] \in Issue
    BY FromDisjoint DEF TypeOK, Issue, States
  <2>3. Len(issues') = Len(issues) + 1
    BY <2>1, <2>2, AppendProperties DEF TypeOK
  <2>4. Draft' = [stage |-> "bind", art |-> {a}, issue |-> Len(issues'), row |-> 0]
    BY <1>0, <2>1 DEF Draft
  <2>5. bindings[a] = {}
    BY <2>1 DEF Pending
  <2>6. QED
    BY <1>1, <2>3, <2>4, <2>5
<1>2. CASE Bind("granola")
  <2>1. intake' = [intake EXCEPT !["granola"] = [Draft EXCEPT !.stage = "sync"]]
    BY <1>0, <1>2 DEF Bind, Draft
  <2>2. Draft' = [Draft EXCEPT !.stage = "sync"]
    BY <1>0, <2>1 DEF Draft
  <2>3. Draft'.stage = "sync" /\ Draft'.issue = Draft.issue /\ Draft'.art = Draft.art
    BY <1>0, <2>2 DEF Thing
  <2>4. QED
    BY <1>2, <2>3 DEF Bind, Draft
<1>3. CASE CreateFirstRow("granola")
  <2>1. intake' = [intake EXCEPT !["granola"] = [Draft EXCEPT !.stage = "attach", !.row = Len(rows')]]
    BY <1>0, <1>3 DEF CreateFirstRow, Draft
  <2>2. Draft' = [Draft EXCEPT !.stage = "attach", !.row = Len(rows')]
    BY <1>0, <2>1 DEF Draft
  <2>3. Draft'.stage = "attach" /\ Draft'.issue = Draft.issue /\ Draft'.art = Draft.art
    BY <1>0, <2>2 DEF Thing
  <2>4. QED
    BY <1>3, <2>3 DEF CreateFirstRow, Draft
<1>4. CASE AttachFirstRow("granola")
  BY <1>0, <1>4 DEF AttachFirstRow, Draft, Idle
<1>5. CASE IntakeFails("granola")
  BY <1>0, <1>5 DEF IntakeFails, Draft, Idle
<1>6. ~MarkRouted("granola")
  BY <1>0 DEF MarkRouted, IntakeInv
<1>7. ASSUME NEW s \in Sources, Intake(s) \/ IntakeFails(s), s # "granola" PROVE Draft' = Draft
  BY <1>0, <1>7
  DEF Intake, CreateIssue, Bind, CreateFirstRow, MarkRouted, AttachFirstRow, IntakeFails, Draft
<1>8. CASE UNCHANGED intake
  BY <1>1, <1>2, <1>3, <1>4, <1>5, <1>8 DEF Draft
<1>9. UNCHANGED intake \/ \E s \in Sources : Intake(s) \/ IntakeFails(s)
  BY DEF Next, LinkRow, Manager, Tell, Poll, PollEnds, Dispatch, GiveUp, NothingToTell,
         ArchiveMail, Reply, SyncRow, SaveBinding, RecordCompletion, MarkHandled, ManagerFails,
         ReplyRefused, MoveIssue, Tick, Manages, vars, intakeVars
<1>10. QED
  BY <1>1, <1>2, <1>3, <1>4, <1>5, <1>6, <1>7, <1>8, <1>9 DEF Intake

\* What a step does to the binding of a note.
LEMMA NoteBindingMoves ==
    ASSUME TypeOK, Known, LinkInv, WorkInv, [Next]_vars, NEW a \in Notes
    PROVE  \/ bindings'[a] = bindings[a]
           \/ /\ Bind("granola") /\ a \in Draft.art
              /\ \A c \in bindings'[a] : c.issue = Draft.issue /\ c.row = 0
           \/ /\ AttachFirstRow("granola") /\ a \in Draft.art
              /\ \E c \in bindings'[a] : c.row # 0
           \/ /\ LinkRow
              /\ \A c \in bindings'[a] : c.row # 0 /\ \E b \in bindings[a] : c.issue = b.issue
              /\ bindings'[a] # {}
           \/ SaveBinding /\ bindings'[a] = copy /\ \E x \in cur : Art(x.issue) = a
<1>0. a \in Artifacts /\ "granola" \in Sources /\ Draft \in Thing
  BY DraftTyped
<1>g. ASSUME NEW s \in Sources, a \in intake[s].art PROVE s = "granola"
  BY <1>g, FromDisjoint, DisjointAssumption DEF WorkInv, PlaceInv
<1>1. ASSUME NEW s \in Sources, Bind(s), bindings'[a] # bindings[a]
      PROVE  /\ s = "granola" /\ a \in Draft.art
             /\ \A c \in bindings'[a] : c.issue = Draft.issue /\ c.row = 0
  <2>1. PICK x \in intake[s].art : bindings' = [bindings EXCEPT ![x] = Linked(x, intake[s].issue)]
    BY <1>1 DEF Bind
  <2>2. x = a /\ bindings'[a] = Linked(a, intake[s].issue)
    BY <1>0, <1>1, <2>1 DEF TypeOK
  <2>3. s = "granola" /\ a \in Draft.art
    BY <2>1, <2>2, <1>g DEF Draft
  <2>4. bindings'[a] = {NewBinding(Draft.issue)}
    BY <2>2, <2>3 DEF Linked, Draft
  <2>5. NewBinding(Draft.issue).issue = Draft.issue /\ NewBinding(Draft.issue).row = 0
    BY DEF NewBinding
  <2>6. QED
    BY <2>3, <2>4, <2>5
<1>2. ASSUME NEW s \in Sources, AttachFirstRow(s), bindings'[a] # bindings[a]
      PROVE  s = "granola" /\ a \in Draft.art /\ \E c \in bindings'[a] : c.row # 0
  <2>1. PICK x \in intake[s].art : bindings' = [bindings EXCEPT ![x] =
           {[NewBinding(intake[s].issue) EXCEPT !.row = intake[s].row]}]
    BY <1>2 DEF AttachFirstRow
  <2>2. x = a
    BY <1>2, <2>1 DEF TypeOK
  <2>3. s = "granola" /\ a \in Draft.art
    BY <2>1, <2>2, <1>g DEF Draft
  <2>4. bindings'[a] = {[NewBinding(Draft.issue) EXCEPT !.row = Draft.row]}
    BY <1>0, <2>1, <2>2, <2>3 DEF TypeOK, Draft
  <2>5. [NewBinding(Draft.issue) EXCEPT !.row = Draft.row].row = Draft.row
    BY DEF NewBinding
  <2>6. Draft.row \in DOMAIN rows
    BY <1>2, <2>3 DEF AttachFirstRow, Draft, LinkInv, IntakeLinks
  <2>7. Draft.row # 0
    BY <2>6, Elements
  <2>8. QED
    BY <2>3, <2>4, <2>5, <2>7
<1>3. ASSUME LinkRow, bindings'[a] # bindings[a]
      PROVE  /\ \A c \in bindings'[a] : c.row # 0 /\ \E b \in bindings[a] : c.issue = b.issue
             /\ bindings'[a] # {}
  <2>1. PICK r \in DOMAIN rows, x \in Artifacts : \E b \in bindings[x] :
          bindings' = [bindings EXCEPT ![x] = {[b EXCEPT !.row = r]}]
    BY <1>3 DEF LinkRow
  <2>2. PICK b \in bindings[x] : bindings' = [bindings EXCEPT ![x] = {[b EXCEPT !.row = r]}]
    BY <2>1
  <2>3. x = a /\ bindings'[a] = {[b EXCEPT !.row = r]}
    BY <1>0, <1>3, <2>2 DEF TypeOK
  <2>4. b \in Binding /\ r \in Nat /\ r # 0
    BY Elements DEF TypeOK
  <2>5. [b EXCEPT !.row = r].row = r /\ [b EXCEPT !.row = r].issue = b.issue
    BY <2>4 DEF Binding
  <2>6. QED
    BY <2>2, <2>3, <2>4, <2>5
<1>4. ASSUME SaveBinding, bindings'[a] # bindings[a]
      PROVE  bindings'[a] = copy /\ \E x \in cur : Art(x.issue) = a
  BY <1>0, <1>4 DEF SaveBinding, Art, TypeOK
<1>5. \/ bindings' = bindings \/ LinkRow \/ SaveBinding
      \/ \E s \in Sources : Bind(s) \/ AttachFirstRow(s)
  BY DEF Next, Intake, CreateIssue, MarkRouted, CreateFirstRow, IntakeFails,
         Manager, Tell, Poll, PollEnds, Dispatch, GiveUp, NothingToTell, ArchiveMail, Reply,
         SyncRow, RecordCompletion, MarkHandled, ManagerFails, ReplyRefused, MoveIssue, Tick,
         vars, services
<1>6. QED
  BY <1>1, <1>2, <1>3, <1>4, <1>5

LEMMA RowsOfNotesStep ==
    ASSUME TypeOK, Known, LinkInv, WorkInv, RowsOfNotes, [Next]_vars
    PROVE  RowsOfNotes'
<1>1. \A r \in DOMAIN rows :
        rows'[r].issue = rows[r].issue /\ issues'[rows[r].issue].art = issues[rows[r].issue].art
  BY RowsGrow, IssuesGrow DEF LinkInv, RowLinks
<1>2. \A r \in DOMAIN rows : issues'[rows'[r].issue].art \in Notes
  BY <1>1 DEF RowsOfNotes, Art
<1>3. CASE DOMAIN rows' = DOMAIN rows
  BY <1>2, <1>3 DEF RowsOfNotes, Art
<1>4. ASSUME NEW i \in DOMAIN issues, NewRow(i), Art(i) \in Notes PROVE RowsOfNotes'
  <2>1. issues'[i].art \in Notes
    BY <1>4, IssuesGrow DEF Art
  <2>2. QED
    BY <1>2, <1>4, <2>1 DEF RowsOfNotes, NewRow, Art
<1>5. CASE CreateFirstRow("granola") /\ NewRow(Draft.issue)
  <2>1. Draft.issue \in DOMAIN issues /\ Draft.art = {Art(Draft.issue)} /\ Draft.art \subseteq Notes
    BY <1>5, DraftTyped DEF CreateFirstRow, Draft, LinkInv, IntakeLinks, WorkInv, PlaceInv
  <2>2. QED
    BY <1>4, <1>5, <2>1
<1>6. ASSUME NEW x \in cur, Art(x.issue) \in Notes, NewRow(x.issue) PROVE RowsOfNotes'
  BY <1>4, <1>6 DEF Known
<1>7. QED
  BY <1>3, <1>5, <1>6, RowsMove

\* The issue of a note that is being taken in does not move.
LEMMA DraftKept ==
    ASSUME TypeOK, LinkInv, [Next]_vars, Draft.stage # "idle"
    PROVE  /\ Draft.issue \in DOMAIN issues /\ issues'[Draft.issue] = issues[Draft.issue]
           /\ Draft.art = {Art(Draft.issue)}
<1>0. "granola" \in Sources /\ Draft.issue \in DOMAIN issues /\ Draft.art = {Art(Draft.issue)}
  BY DraftTyped DEF Draft, LinkInv, IntakeLinks
<1>1. CASE UNCHANGED issues
  BY <1>0, <1>1
<1>2. ASSUME NEW s \in Sources, CreateIssue(s) PROVE issues'[Draft.issue] = issues[Draft.issue]
  <2>1. PICK a \in From[s] : issues' = Append(issues, [art |-> a, state |-> "open", at |-> clock])
    BY <1>2 DEF CreateIssue
  <2>2. [art |-> a, state |-> "open", at |-> clock] \in Issue
    BY ArtifactsOf DEF TypeOK, Issue, States
  <2>3. QED
    BY <1>0, <2>1, <2>2, AppendProperties, Elements DEF TypeOK
<1>3. ASSUME MoveIssue PROVE issues'[Draft.issue] = issues[Draft.issue]
  BY <1>0, <1>3 DEF MoveIssue, Draft
<1>4. \/ UNCHANGED issues \/ MoveIssue \/ \E s \in Sources : CreateIssue(s)
  BY DEF Next, Intake, Bind, MarkRouted, CreateFirstRow, AttachFirstRow, IntakeFails, LinkRow,
         Manager, Tell, Poll, PollEnds, Dispatch, GiveUp, NothingToTell, ArchiveMail, Reply,
         SyncRow, SaveBinding, RecordCompletion, MarkHandled, ManagerFails, ReplyRefused,
         Manages, Tick, vars, services
<1>5. QED
  BY <1>0, <1>1, <1>2, <1>3, <1>4

\* A poll finds issues that are not open; the rest of the manager's steps take
\* issues off its list.
LEMMA TodoMoves ==
    ASSUME [Next]_vars
    PROVE  \A x \in todo' : x \in todo \/ (issues[x.issue].state # "open" /\ Poll)
<1>1. CASE Poll
  BY <1>1 DEF Poll
<1>2. CASE Dispatch
  BY <1>2 DEF Dispatch
<1>3. CASE ManagerFails
  BY <1>3 DEF ManagerFails
<1>4. UNCHANGED todo \/ Poll \/ Dispatch \/ ManagerFails
  BY DEF Next, Intake, CreateIssue, Bind, MarkRouted, CreateFirstRow, AttachFirstRow,
         IntakeFails, LinkRow, Manager, Tell, PollEnds, GiveUp, NothingToTell, ArchiveMail,
         Reply, SyncRow, SaveBinding, RecordCompletion, MarkHandled, ReplyRefused, MoveIssue,
         Tick, vars, managerVars
<1>5. QED
  BY <1>1, <1>2, <1>3, <1>4

LEMMA DraftOpenStep ==
    ASSUME TypeOK, Known, LinkInv, WorkInv, IntakeInv, DraftInv, [Next]_vars
    PROVE  DraftOpen'
<1>1. SUFFICES ASSUME Draft'.stage # "idle"
               PROVE  issues'[Draft'.issue].state = "open" /\ \A x \in todo' : x.issue # Draft'.issue
  BY DEF DraftOpen
<1>2. ASSUME Draft.stage # "idle"
      PROVE  issues'[Draft.issue].state = "open" /\ \A x \in todo' : x.issue # Draft.issue
  BY <1>2, DraftKept, TodoMoves DEF DraftInv, DraftOpen
<1>3. CASE CreateIssue("granola") /\ Draft'.issue = Len(issues) + 1
  <2>1. PICK a \in Notes : issues' = Append(issues, [art |-> a, state |-> "open", at |-> clock])
    BY <1>3, FromDisjoint DEF CreateIssue
  <2>2. [art |-> a, state |-> "open", at |-> clock] \in Issue
    BY FromDisjoint DEF TypeOK, Issue, States
  <2>3. issues'[Len(issues) + 1] = [art |-> a, state |-> "open", at |-> clock]
    BY <2>1, <2>2, AppendProperties DEF TypeOK
  <2>4. todo' = todo
    BY <1>3 DEF CreateIssue, managerVars
  <2>5. \A x \in todo : x.issue # Len(issues) + 1
    BY Elements DEF Known
  <2>6. QED
    BY <1>3, <2>3, <2>4, <2>5
<1>4. CASE Draft'.issue = Draft.issue /\ Draft.stage # "idle"
  BY <1>2, <1>4
<1>5. QED
  BY <1>1, <1>3, <1>4, DraftMoves

LEMMA DraftRowStep ==
    ASSUME TypeOK, Known, LinkInv, WorkInv, IntakeInv, DraftInv, [Next]_vars
    PROVE  DraftRow'
<1>1. SUFFICES ASSUME Draft'.stage \in {"bind", "sync"}
               PROVE  \A r \in DOMAIN rows' : rows'[r].issue # Draft'.issue
  BY DEF DraftRow
<1>2. \A r \in DOMAIN rows : rows'[r].issue = rows[r].issue
  BY RowsGrow
<1>3. CASE CreateIssue("granola") /\ Draft'.issue = Len(issues) + 1
  <2>1. rows' = rows
    BY <1>3 DEF CreateIssue
  <2>2. QED
    BY <1>3, <2>1, Elements DEF LinkInv, RowLinks
<1>f. ~CreateFirstRow("granola")
  BY <1>1, DraftMoves DEF CreateFirstRow, CreateIssue, Draft
<1>4. CASE Draft.stage \in {"bind", "sync"} /\ Draft'.issue = Draft.issue
  <2>1. CASE DOMAIN rows' = DOMAIN rows
    BY <1>2, <1>4, <2>1 DEF DraftInv, DraftRow
  <2>2. ASSUME SyncRow, NEW x \in cur, NewRow(x.issue)
        PROVE  \A r \in DOMAIN rows' : rows'[r].issue # Draft'.issue
    <3>1. Art(x.issue) \notin Draft.art
      BY <1>4, <2>2 DEF SyncRow, DraftInv, DraftAlone
    <3>2. x.issue # Draft.issue
      BY <1>4, <3>1, DraftKept
    <3>3. QED
      BY <1>2, <1>4, <2>2, <3>2 DEF DraftInv, DraftRow, NewRow
  <2>3. CASE SyncRow /\ \E x \in cur : NewRow(x.issue)
    BY <2>2, <2>3
  <2>4. \/ DOMAIN rows' = DOMAIN rows
        \/ SyncRow /\ \E x \in cur : NewRow(x.issue)
    BY <1>f, RowsMove
  <2>5. QED
    BY <2>1, <2>3, <2>4
<1>5. QED
  BY <1>1, <1>3, <1>4, DraftMoves

LEMMA DraftBoundStep ==
    ASSUME TypeOK, Known, LinkInv, WorkInv, IntakeInv, DraftInv, [Next]_vars
    PROVE  DraftBound'
<1>1. SUFFICES ASSUME NEW a \in Draft'.art
               PROVE  /\ Draft'.stage = "bind" => bindings'[a] = {}
                      /\ Draft'.stage \in {"sync", "attach"} =>
                             \A b \in bindings'[a] : b.issue = Draft'.issue
                      /\ Draft'.stage = "sync" => \A b \in bindings'[a] : b.row = 0
  BY DEF DraftBound
<1>2. CASE CreateIssue("granola") /\ Draft'.stage = "bind"
           /\ \E x \in Notes : Draft'.art = {x} /\ bindings[x] = {}
  <2>1. bindings' = bindings
    BY <1>2 DEF CreateIssue
  <2>2. QED
    BY <1>2, <2>1
<1>3. CASE Bind("granola") /\ Draft'.stage = "sync" /\ Draft'.issue = Draft.issue
  <2>1. PICK x \in Draft.art : bindings' = [bindings EXCEPT ![x] = Linked(x, Draft.issue)]
    BY <1>3 DEF Bind, Draft
  <2>2. x = a /\ a \in Notes
    BY <1>1, <1>3, DraftTyped, DraftMoves DEF Bind, Draft, IntakeInv, WorkInv, PlaceInv
  <2>3. bindings'[a] = {NewBinding(Draft.issue)}
    BY <2>1, <2>2, DraftTyped DEF TypeOK, Linked
  <2>4. NewBinding(Draft.issue).issue = Draft.issue /\ NewBinding(Draft.issue).row = 0
    BY DEF NewBinding
  <2>5. QED
    BY <1>3, <2>3, <2>4
<1>4. ASSUME Draft'.art = Draft.art, Draft.stage # "idle", ~Bind("granola"),
             ~AttachFirstRow("granola")
      PROVE  bindings'[a] = bindings[a] \/ LinkRow
  <2>1. a \in Notes
    BY <1>1, <1>4, DraftTyped DEF Draft, WorkInv, PlaceInv
  <2>2. ASSUME SaveBinding, NEW x \in cur, Art(x.issue) = a PROVE FALSE
    BY <1>1, <1>4, <2>2 DEF SaveBinding, DraftInv, DraftAlone
  <2>3. QED
    BY <1>4, <2>1, <2>2, NoteBindingMoves
<1>5. CASE Draft' = Draft /\ Draft.stage # "idle" /\ ~Bind("granola") /\ ~AttachFirstRow("granola")
  <2>1. bindings'[a] = bindings[a] \/ LinkRow
    BY <1>4, <1>5
  <2>2. CASE bindings'[a] = bindings[a]
    BY <1>1, <1>5, <2>2 DEF DraftInv, DraftBound
  <2>3. CASE LinkRow
    <3>1. a \in Notes /\ a \in Artifacts /\ a \in Draft.art
      BY <1>1, <1>5, DraftTyped DEF Draft, WorkInv, PlaceInv
    <3>2. PICK r \in DOMAIN rows, x \in Artifacts : \E b \in bindings[x] :
            b.issue = rows[r].issue /\ bindings' = [bindings EXCEPT ![x] = {[b EXCEPT !.row = r]}]
      BY <2>3 DEF LinkRow
    <3>3. PICK b \in bindings[x] :
            b.issue = rows[r].issue /\ bindings' = [bindings EXCEPT ![x] = {[b EXCEPT !.row = r]}]
      BY <3>2
    <3>4. CASE x # a
      <4>1. bindings'[a] = bindings[a]
        BY <3>1, <3>3, <3>4 DEF TypeOK
      <4>2. QED
        BY <2>2, <4>1
    <3>5. CASE x = a
      <4>1. Draft.stage \notin {"bind", "sync"}
        BY <3>1, <3>3, <3>5 DEF DraftInv, DraftBound, DraftRow
      <4>2. b \in Binding /\ r \in Nat
        BY Elements DEF TypeOK
      <4>3. bindings'[a] = {[b EXCEPT !.row = r]} /\ [b EXCEPT !.row = r].issue = b.issue
        BY <3>3, <3>5, <4>2, IssueOf DEF TypeOK
      <4>4. Draft.stage = "attach" => b.issue = Draft.issue
        BY <3>1, <3>5 DEF DraftInv, DraftBound
      <4>5. QED
        BY <1>5, <4>1, <4>3, <4>4
    <3>6. QED
      BY <3>4, <3>5
  <2>4. QED
    BY <2>1, <2>2, <2>3
<1>6. CASE CreateFirstRow("granola") /\ Draft.stage = "sync" /\ Draft'.stage = "attach"
           /\ Draft'.issue = Draft.issue /\ Draft'.art = Draft.art
  <2>1. bindings' = bindings
    BY <1>6 DEF CreateFirstRow
  <2>2. QED
    BY <1>1, <1>6, <2>1 DEF DraftInv, DraftBound
<1>7. CASE Draft' = Draft /\ Draft.stage = "idle"
  BY <1>7
<1>8. QED
  BY <1>1, <1>2, <1>3, <1>5, <1>6, <1>7, DraftMoves

\* The manager tells a finished issue, so not the one that is being taken in.
LEMMA DraftAloneStep ==
    ASSUME TypeOK, Known, LinkInv, WorkInv, IntakeInv, DraftInv, [Next]_vars
    PROVE  DraftAlone'
<1>0. \A x \in cur : issues'[x.issue].art = Art(x.issue) /\ Art(x.issue) \in Artifacts
  BY IssuesGrow, CurArtifact DEF Known, Art
<1>1. SUFFICES ASSUME Draft'.stage # "idle", pc' \in {"tell", "save"}
               PROVE  \A x \in cur' : issues'[x.issue].art \notin Draft'.art
  BY DEF DraftAlone, Art
<1>2. CASE cur' = cur /\ pc \in {"tell", "save"}
  <2>1. CASE Draft.stage # "idle" /\ Draft'.art = Draft.art
    BY <1>0, <1>2, <2>1 DEF DraftInv, DraftAlone
  <2>2. CASE \E a \in Notes : Draft'.art = {a} /\ bindings[a] = {}
    BY <1>0, <1>2, <2>2 DEF WorkInv, OneInv
  <2>3. Draft'.stage # "idle" => \/ Draft.stage # "idle" /\ Draft'.art = Draft.art
                                 \/ \E a \in Notes : Draft'.art = {a} /\ bindings[a] = {}
    BY DraftMoves
  <2>4. QED
    BY <1>1, <2>1, <2>2, <2>3
<1>3. CASE Dispatch /\ ~UNCHANGED <<pc, cur, copy>>
  <2>1. PICK x \in todo : cur' = {x} /\ Bound(x.issue) # {}
    BY <1>3 DEF Dispatch
  <2>2. PICK a \in Artifacts : \E b \in bindings[a] : b.issue = x.issue
    BY <2>1 DEF Bound
  <2>3. PICK b \in bindings[a] : b.issue = x.issue
    BY <2>2
  <2>4. Draft' = Draft /\ issues' = issues
    BY <1>3 DEF Dispatch, Manages, intakeVars, Draft
  <2>5. Art(x.issue) = a
    BY <2>2, <2>3 DEF LinkInv, BindingLinks
  <2>6. Draft.stage \in {"bind", "sync", "attach"}
    BY <1>1, <2>4, DraftTyped DEF Thing, Stages, IntakeInv, Draft
  <2>7. b.issue # Draft.issue
    BY <2>3, <2>6 DEF DraftInv, DraftOpen
  <2>8. a \notin Draft.art
    BY <2>3, <2>6, <2>7 DEF DraftInv, DraftBound
  <2>9. QED
    BY <2>1, <2>4, <2>5, <2>8 DEF Art
<1>4. CASE ArchiveMail \/ Reply \/ ReplyRefused \/ SyncRow
  BY <1>2, <1>4, TellingSaves
<1>5. CASE SaveBinding \/ ManagerFails
  BY <1>1, <1>5 DEF SaveBinding, ManagerFails
<1>6. QED
  BY <1>1, <1>2, <1>3, <1>4, <1>5, WorkMoves

LEMMA DraftInvStep ==
    ASSUME TypeOK, Known, LinkInv, WorkInv, IntakeInv, DraftInv, [Next]_vars
    PROVE  DraftInv'
BY DraftOpenStep, DraftAloneStep, DraftBoundStep, DraftRowStep DEF DraftInv

\* TaskSyncAgent's copy of the binding has a row.
LEMMA SyncingMakesRow == ASSUME TypeOK, SyncRow PROVE \A c \in copy' : c.row # 0
<1>1. PICK x \in cur, b \in copy :
         \/ /\ rows' = Append(rows, [issue |-> x.issue, state |-> x.state])
            /\ copy' = {[b EXCEPT !.row = Len(rows'), !.pushed = x.state]}
         \/ /\ b.row # 0
            /\ copy' = {[b EXCEPT !.pushed = x.state]}
  BY DEF SyncRow
<1>2. b \in Binding /\ x.issue \in Nat /\ x.state \in Finished
  BY DEF TypeOK, Seen
<1>3. CASE /\ rows' = Append(rows, [issue |-> x.issue, state |-> x.state])
           /\ copy' = {[b EXCEPT !.row = Len(rows'), !.pushed = x.state]}
  <2>1. [issue |-> x.issue, state |-> x.state] \in Row
    BY <1>2 DEF Row, States
  <2>2. Len(rows') = Len(rows) + 1 /\ Len(rows) \in Nat
    BY <1>3, <2>1, AppendProperties, LenProperties DEF TypeOK
  <2>3. [b EXCEPT !.row = Len(rows'), !.pushed = x.state].row = Len(rows')
    BY <1>2 DEF Binding
  <2>4. Len(rows') # 0
    BY <2>2
  <2>5. QED
    BY <1>3, <2>3, <2>4
<1>4. CASE b.row # 0 /\ copy' = {[b EXCEPT !.pushed = x.state]}
  <2>1. [b EXCEPT !.pushed = x.state].row = b.row
    BY <1>2 DEF Binding
  <2>2. QED
    BY <1>4, <2>1
<1>5. QED
  BY <1>1, <1>3, <1>4

\* A note that the manager is telling is not at intake.
LEMMA ToldApart ==
    ASSUME DraftInv, NEW a, AtWork(a), Draft.stage # "idle"
    PROVE  a \notin Draft.art
BY DEF AtWork, DraftInv, DraftAlone

LEMMA CopyRowStep ==
    ASSUME TypeOK, Known, LinkInv, WorkInv, IntakeInv, DraftInv, CopyRowInv, [Next]_vars
    PROVE  CopyRowInv'
<1>0. \A x \in cur : issues'[x.issue].art = Art(x.issue)
  BY IssuesGrow DEF Known, Art
<1>1. CASE UNCHANGED <<pc, cur, copy>> /\ ~SaveBinding
  <2>1. SUFFICES ASSUME NEW x \in cur, NEW b \in copy, Art(x.issue) \in Notes, pc = "tell", b.row # 0,
                        \A c \in bindings[Art(x.issue)] : c.row # 0
                 PROVE  \A c \in bindings'[Art(x.issue)] : c.row # 0
    BY <1>0, <1>1 DEF CopyRowInv, Art
  <2>2. ASSUME Draft.stage # "idle" PROVE Art(x.issue) \notin Draft.art
    BY <2>1, <2>2, ToldApart DEF AtWork
  <2>3. (Bind("granola") \/ AttachFirstRow("granola")) => Draft.stage # "idle"
    BY DEF Bind, AttachFirstRow, Draft
  <2>4. QED
    BY <1>1, <2>1, <2>2, <2>3, NoteBindingMoves
<1>2. CASE Dispatch /\ ~UNCHANGED <<pc, cur, copy>>
  <2>0. PICK x \in todo : /\ cur' = {x} /\ pc' = "tell"
                          /\ \E a \in Bound(x.issue) : copy' = bindings[a]
    BY <1>2 DEF Dispatch
  <2>1. PICK a \in Bound(x.issue) : copy' = bindings[a]
    BY <2>0
  <2>2. a \in Artifacts /\ Art(x.issue) = a
    BY DEF Bound, LinkInv, BindingLinks
  <2>3. \A b, c \in bindings[a] : b = c
    BY <2>2 DEF WorkInv, OneInv
  <2>4. bindings' = bindings /\ issues' = issues
    BY <1>2 DEF Dispatch, Manages
  <2>5. QED
    BY <2>0, <2>1, <2>2, <2>3, <2>4 DEF CopyRowInv, Art
<1>3. CASE ArchiveMail \/ Reply \/ ReplyRefused
  <2>1. \A x \in cur : Art(x.issue) \notin Notes
    BY <1>3, DisjointAssumption DEF ArchiveMail, Reply, ReplyRefused, Known, Art
  <2>2. QED
    BY <1>0, <1>3, <2>1, TellingSaves DEF CopyRowInv, Art
<1>4. CASE SyncRow
  BY <1>4, SyncingMakesRow, TellingSaves DEF CopyRowInv
<1>5. CASE SaveBinding \/ ManagerFails
  BY <1>5 DEF SaveBinding, ManagerFails, CopyRowInv
<1>6. CASE pc' \notin {"tell", "save"}
  BY <1>6 DEF CopyRowInv
<1>7. QED
  BY <1>1, <1>2, <1>3, <1>4, <1>5, <1>6, WorkMoves

\* The intake saves its row, or fails.
LEMMA AttachKept ==
    ASSUME TypeOK, LinkInv, IntakeInv, [Next]_vars, NEW a \in Notes,
           Draft.stage = "attach", a \in Draft.art, ~AtWork(a)'
    PROVE  Rowed(a)' \/ faults' = faults + 1
<1>1. CASE Draft' = Draft
  BY <1>1 DEF Rowed
<1>2. CASE AttachFirstRow("granola")
  <2>1. PICK x \in Draft.art : bindings' = [bindings EXCEPT ![x] =
           {[NewBinding(Draft.issue) EXCEPT !.row = Draft.row]}]
    BY <1>2 DEF AttachFirstRow, Draft
  <2>2. x = a
    BY <2>1, DraftTyped DEF IntakeInv, Draft
  <2>3. bindings'[a] = {[NewBinding(Draft.issue) EXCEPT !.row = Draft.row]}
    BY <2>1, <2>2, DraftTyped DEF TypeOK
  <2>4. [NewBinding(Draft.issue) EXCEPT !.row = Draft.row].row = Draft.row
    BY DEF NewBinding
  <2>5. Draft.row \in DOMAIN rows
    BY DraftTyped DEF Draft, LinkInv, IntakeLinks
  <2>6. Draft.row # 0
    BY <2>5, Elements
  <2>7. QED
    BY <2>3, <2>4, <2>6 DEF Rowed
<1>3. CASE IntakeFails("granola")
  BY <1>3 DEF IntakeFails, Fault
<1>4. QED
  BY <1>1, <1>2, <1>3, DraftMoves DEF Draft, CreateIssue

\* Only a failure makes a task's row unknown.
LEMMA RowedKept ==
    ASSUME TypeOK, Known, LinkInv, WorkInv, IntakeInv, DraftInv, CopyRowInv, [Next]_vars,
           NEW a \in Notes, Rowed(a)
    PROVE  Rowed(a)' \/ faults' = faults + 1
<1>0. a \in Artifacts /\ \A x \in cur : issues'[x.issue].art = Art(x.issue)
  BY IssuesGrow, DraftTyped DEF Known, Art
<1>1. CASE UNCHANGED <<pc, cur, copy>> /\ ~SaveBinding
  <2>1. AtWork(a)' <=> AtWork(a)
    BY <1>0, <1>1 DEF AtWork, Art
  <2>2. CASE AtWork(a)
    BY <1>1, <2>1, <2>2 DEF Rowed
  <2>3. CASE ~AtWork(a) /\ \E b \in bindings[a] : b.row # 0
    <3>1. ~(Bind("granola") /\ a \in Draft.art)
      BY <2>3 DEF Bind, Draft, DraftInv, DraftBound
    <3>2. \E c \in bindings'[a] : c.row # 0
      BY <1>1, <2>3, <3>1, NoteBindingMoves
    <3>3. QED
      BY <2>1, <2>3, <3>2 DEF Rowed
  <2>4. CASE ~AtWork(a) /\ Draft.stage = "attach" /\ a \in Draft.art
    BY <2>1, <2>4, AttachKept
  <2>5. QED
    BY <2>2, <2>3, <2>4 DEF Rowed
<1>2. CASE Dispatch /\ ~UNCHANGED <<pc, cur, copy>>
  <2>0. PICK x \in todo : /\ cur' = {x} /\ pc' = "tell"
                          /\ \E y \in Bound(x.issue) : copy' = bindings[y]
    BY <1>2 DEF Dispatch
  <2>1. PICK y \in Bound(x.issue) : copy' = bindings[y]
    BY <2>0
  <2>2. Art(x.issue) = y
    BY DEF Bound, LinkInv, BindingLinks
  <2>3. bindings' = bindings /\ issues' = issues /\ Draft' = Draft /\ ~AtWork(a)
    BY <1>2 DEF Dispatch, Manages, intakeVars, Draft, AtWork
  <2>4. AtWork(a)' <=> y = a
    BY <2>0, <2>2, <2>3 DEF AtWork, Art
  <2>5. CASE y = a
    <3>1. ~(Draft.stage = "attach" /\ a \in Draft.art)
      <4>1. DraftAlone'
        BY DraftAloneStep
      <4>2. issues'[x.issue].art = a
        BY <2>2, <2>3, <2>5 DEF Art
      <4>3. QED
        BY <2>0, <2>3, <4>1, <4>2 DEF DraftAlone, Art
    <3>2. \E b \in copy' : b.row # 0
      BY <2>1, <2>3, <2>5, <3>1 DEF Rowed
    <3>3. QED
      BY <2>4, <2>5, <3>2 DEF Rowed
  <2>6. CASE y # a
    BY <2>3, <2>4, <2>6 DEF Rowed
  <2>7. QED
    BY <2>5, <2>6
<1>3. CASE ArchiveMail \/ Reply \/ ReplyRefused
  <2>1. \A x \in cur : Art(x.issue) \notin Notes
    BY <1>3, DisjointAssumption DEF ArchiveMail, Reply, ReplyRefused, Known, Art
  <2>2. cur' = cur /\ bindings' = bindings /\ Draft' = Draft
    BY <1>3, TellingSaves DEF ArchiveMail, Reply, ReplyRefused, Manages, intakeVars, Draft
  <2>3. ~AtWork(a) /\ ~AtWork(a)'
    BY <1>0, <2>1, <2>2 DEF AtWork, Art
  <2>4. QED
    BY <2>2, <2>3 DEF Rowed
<1>4. CASE SyncRow
  <2>1. /\ cur' = cur /\ bindings' = bindings /\ Draft' = Draft
        /\ pc = "tell" /\ pc' = "save" /\ copy' # {}
    BY <1>4, TellingSaves DEF SyncRow, Manages, intakeVars, Draft
  <2>2. AtWork(a)' <=> AtWork(a)
    BY <1>0, <2>1 DEF AtWork, Art
  <2>3. CASE AtWork(a)
    BY <1>4, <2>1, <2>2, <2>3, SyncingMakesRow DEF Rowed
  <2>4. CASE ~AtWork(a)
    BY <2>1, <2>2, <2>4 DEF Rowed
  <2>5. QED
    BY <2>3, <2>4
<1>5. CASE SaveBinding
  <2>1. pc = "save" /\ pc' = "record" /\ Draft' = Draft
    BY <1>5 DEF SaveBinding, Manages, intakeVars, Draft
  <2>2. PICK x \in cur : bindings' = [bindings EXCEPT ![Art(x.issue)] = copy]
    BY <1>5 DEF SaveBinding, Art
  <2>3. ~AtWork(a)' /\ (AtWork(a) <=> Art(x.issue) = a)
    BY <2>1, <2>2 DEF AtWork, Known
  <2>4. CASE AtWork(a)
    <3>1. bindings'[a] = copy
      BY <1>0, <2>2, <2>3, <2>4 DEF TypeOK
    <3>2. QED
      BY <2>3, <2>4, <3>1 DEF Rowed
  <2>5. CASE ~AtWork(a)
    <3>1. bindings'[a] = bindings[a]
      BY <1>0, <2>2, <2>3, <2>5 DEF TypeOK
    <3>2. QED
      BY <2>1, <2>3, <2>5, <3>1 DEF Rowed
  <2>6. QED
    BY <2>4, <2>5
<1>6. CASE ManagerFails
  BY <1>6 DEF ManagerFails, Fault
<1>7. CASE pc # "save" /\ pc' \notin {"tell", "save"} /\ UNCHANGED bindings
  <2>1. ~AtWork(a)'
    BY <1>7 DEF AtWork
  <2>2. CASE AtWork(a)
    <3>1. PICK x \in cur : Art(x.issue) = a /\ pc = "tell"
      BY <1>7, <2>2 DEF AtWork
    <3>2. \A c \in bindings[a] : c.row # 0
      BY <2>2, <3>1 DEF Rowed, CopyRowInv
    <3>3. bindings[a] # {}
      BY <3>1 DEF WorkInv, OneInv
    <3>4. QED
      BY <1>7, <2>1, <3>2, <3>3 DEF Rowed
  <2>3. CASE ~AtWork(a) /\ \E b \in bindings[a] : b.row # 0
    BY <1>7, <2>1, <2>3 DEF Rowed
  <2>4. CASE Draft.stage = "attach" /\ a \in Draft.art
    BY <2>1, <2>4, AttachKept
  <2>5. QED
    BY <2>2, <2>3, <2>4 DEF Rowed
<1>8. QED
  BY <1>1, <1>2, <1>3, <1>4, <1>5, <1>6, <1>7, WorkMoves

\* Where a row of a task can come from.
LEMMA RowsOfMoves ==
    ASSUME TypeOK, Known, LinkInv, WorkInv, IntakeInv, DraftInv, [Next]_vars, NEW a \in Notes
    PROVE  \/ RowsOf(a)' = RowsOf(a)
           \/ ~Rowed(a) /\ Rowed(a)' /\ faults' = faults /\ \E r : RowsOf(a)' = RowsOf(a) \cup {r}
<1>1. \A r \in DOMAIN rows :
        rows'[r].issue = rows[r].issue /\ issues'[rows[r].issue].art = issues[rows[r].issue].art
  BY RowsGrow, IssuesGrow DEF LinkInv, RowLinks
<1>2. CASE DOMAIN rows' = DOMAIN rows
  BY <1>1, <1>2 DEF RowsOf
<1>3. ASSUME NEW i \in DOMAIN issues, NewRow(i)
      PROVE  /\ Art(i) # a => RowsOf(a)' = RowsOf(a)
             /\ Art(i) = a => RowsOf(a)' = RowsOf(a) \cup {Len(rows) + 1}
  <2>1. issues'[i].art = Art(i)
    BY IssuesGrow DEF Art
  <2>2. QED
    BY <1>1, <1>3, <2>1 DEF RowsOf, NewRow
<1>4. CASE CreateFirstRow("granola") /\ NewRow(Draft.issue)
  <2>1. /\ Draft.stage = "sync" /\ Draft'.stage = "attach" /\ Draft'.art = Draft.art
        /\ faults' = faults /\ bindings' = bindings /\ UNCHANGED <<pc, cur>> /\ issues' = issues
    <3>1. Draft.stage = "sync" /\ UNCHANGED <<faults, bindings, pc, cur, issues>>
      BY <1>4 DEF CreateFirstRow, Draft, managerVars
    <3>2. intake' = [intake EXCEPT !["granola"] = [Draft EXCEPT !.stage = "attach", !.row = Len(rows')]]
      BY <1>4, DraftTyped DEF CreateFirstRow, Draft
    <3>3. Draft' = [Draft EXCEPT !.stage = "attach", !.row = Len(rows')]
      BY <3>2, DraftTyped DEF Draft
    <3>4. Draft'.stage = "attach" /\ Draft'.art = Draft.art
      BY <3>3, DraftTyped DEF Thing
    <3>5. QED
      BY <3>1, <3>4
  <2>2. Draft.issue \in DOMAIN issues /\ Draft.art = {Art(Draft.issue)}
    BY <2>1, DraftKept
  <2>3. CASE Art(Draft.issue) # a
    BY <1>3, <1>4, <2>2, <2>3
  <2>4. CASE Art(Draft.issue) = a
    <3>1. ~AtWork(a) /\ ~AtWork(a)'
      BY <2>1, <2>2, <2>4, ToldApart DEF AtWork, Art
    <3>2. ~Rowed(a)
      BY <2>1, <2>2, <2>4, <3>1 DEF Rowed, DraftInv, DraftBound
    <3>3. Rowed(a)'
      BY <2>1, <2>2, <2>4, <3>1 DEF Rowed
    <3>4. QED
      BY <1>3, <1>4, <2>1, <2>2, <2>4, <3>2, <3>3
  <2>5. QED
    BY <2>3, <2>4
<1>5. ASSUME SyncRow, NEW x \in cur, NEW b \in copy, b.row = 0, NewRow(x.issue),
             \A c \in copy' : c.row # 0
      PROVE  \/ RowsOf(a)' = RowsOf(a)
             \/ ~Rowed(a) /\ Rowed(a)' /\ faults' = faults /\ \E r : RowsOf(a)' = RowsOf(a) \cup {r}
  <2>1. x.issue \in DOMAIN issues /\ pc = "tell" /\ pc' = "save" /\ cur' = cur /\ faults' = faults
        /\ issues' = issues /\ copy' # {}
    BY <1>5, TellingSaves DEF Known, SyncRow, NoFault, Manages
  <2>2. CASE Art(x.issue) # a
    BY <1>3, <1>5, <2>1, <2>2
  <2>3. CASE Art(x.issue) = a
    <3>1. AtWork(a) /\ AtWork(a)'
      BY <2>1, <2>3 DEF AtWork, Art
    <3>2. ~Rowed(a)
      BY <1>5, <3>1 DEF Rowed, WorkInv, OneInv
    <3>3. Rowed(a)'
      BY <1>5, <2>1, <3>1 DEF Rowed
    <3>4. QED
      BY <1>3, <1>5, <2>1, <2>3, <3>2, <3>3
  <2>4. QED
    BY <2>2, <2>3
<1>6. QED
  BY <1>2, <1>4, <1>5, RowsMove

LEMMA RowsOfFinite ==
    ASSUME TypeOK, NEW a
    PROVE  IsFiniteSet(RowsOf(a)) /\ Cardinality(RowsOf(a)) \in Nat
<1>1. RowsOf(a) \in SUBSET (1..Len(rows)) /\ Len(rows) \in Nat
  BY Elements DEF RowsOf
<1>2. IsFiniteSet(1..Len(rows))
  BY <1>1, FS_Interval
<1>3. IsFiniteSet(RowsOf(a))
  BY <1>1, <1>2, FS_Subset
<1>4. QED
  BY <1>3, FS_CardinalityType

LEMMA RowStep ==
    ASSUME TypeOK, Known, LinkInv, WorkInv, IntakeInv, DraftInv, CopyRowInv, RowInv, [Next]_vars
    PROVE  RowInv'
<1>0. faults' \in {faults, faults + 1} /\ faults \in Nat
  BY FaultsGrow
<1>1. SUFFICES ASSUME NEW a \in Notes
               PROVE  Cardinality(RowsOf(a)') <= faults' + (IF Rowed(a)' THEN 1 ELSE 0)
  BY DEF RowInv
<1>2. /\ IsFiniteSet(RowsOf(a)) /\ Cardinality(RowsOf(a)) \in Nat
      /\ Cardinality(RowsOf(a)) <= faults + (IF Rowed(a) THEN 1 ELSE 0)
  BY RowsOfFinite DEF RowInv
<1>3. CASE RowsOf(a)' = RowsOf(a)
  <2>1. Cardinality(RowsOf(a)') = Cardinality(RowsOf(a))
    BY <1>3
  <2>2. Rowed(a) => Rowed(a)' \/ faults' = faults + 1
    BY RowedKept
  <2>3. QED
    BY <1>0, <1>2, <2>1, <2>2
<1>4. ASSUME ~Rowed(a), Rowed(a)', faults' = faults, NEW r, RowsOf(a)' = RowsOf(a) \cup {r}
      PROVE  Cardinality(RowsOf(a)') <= faults' + (IF Rowed(a)' THEN 1 ELSE 0)
  <2> DEFINE old == Cardinality(RowsOf(a))
             new == Cardinality(RowsOf(a) \cup {r})
  <2>1. new \in {old, old + 1}
    BY <1>2, FS_AddElement
  <2>2. old \in Nat /\ old <= faults
    BY <1>0, <1>2, <1>4
  <2> HIDE DEF old, new
  <2>3. new <= faults + 1
    BY <1>0, <2>1, <2>2
  <2>4. Cardinality(RowsOf(a)') = new
    BY <1>4 DEF new
  <2>5. QED
    BY <1>4, <2>3, <2>4
<1>5. QED
  BY <1>3, <1>4, RowsOfMoves

\* A task has one Notion row, and one more for each failure, although the
\* intake, the manager and the scanner all write the binding that names it: the
\* manager makes a row only where none is known, and the scanner gives back to
\* the binding a row that a failure cut off.
THEOREM RowsCorrect == Spec => []OneRowEach
<1> DEFINE Rest == RowsOfNotes /\ IntakeInv /\ DraftInv /\ CopyRowInv /\ RowInv
<1>1. ASSUME Init PROVE Rest
  <2>1. intake["granola"] = Idle /\ \A s \in Sources : intake[s] = Idle
    BY <1>1, DraftTyped DEF Init, Sources
  <2>2. IntakeInv /\ DraftInv
    BY <2>1 DEF IntakeInv, DraftInv, DraftOpen, DraftAlone, DraftBound, DraftRow, Draft, Idle
  <2>3. DOMAIN rows = {} /\ faults = 0
    BY <1>1, EmptySeq DEF Init
  <2>4. RowsOfNotes /\ CopyRowInv /\ \A a \in Notes : RowsOf(a) = {}
    BY <1>1, <2>3 DEF Init, RowsOfNotes, CopyRowInv, RowsOf
  <2>5. Cardinality({}) = 0
    BY FS_EmptySet
  <2>6. ASSUME NEW a \in Notes PROVE Cardinality(RowsOf(a)) <= faults + (IF Rowed(a) THEN 1 ELSE 0)
    <3>1. Cardinality(RowsOf(a)) = 0
      BY <2>4, <2>5
    <3>2. QED
      BY <2>3, <3>1
  <2>7. QED
    BY <2>2, <2>4, <2>6 DEF RowInv
<1>2. TypeOK /\ Known /\ LinkInv /\ WorkInv /\ Rest /\ [Next]_vars => Rest'
  BY RowsOfNotesStep, IntakeInvStep, DraftInvStep, CopyRowStep, RowStep
<1>3. ASSUME TypeOK, Rest PROVE OneRowEach
  <2>1. faults \in Nat /\ \A a \in Artifacts : Cardinality(RowsOf(a)) \in Nat
    BY <1>3, RowsOfFinite DEF TypeOK
  <2>2. ASSUME NEW a \in Artifacts \ Notes PROVE Cardinality(RowsOf(a)) = 0
    <3>1. RowsOf(a) = {}
      BY <1>3 DEF RowsOfNotes, RowsOf, Art
    <3>2. QED
      BY <3>1, FS_EmptySet
  <2>3. QED
    BY <1>3, <2>1, <2>2 DEF RowInv, OneRowEach
<1> HIDE DEF Rest
<1>4. QED
  BY <1>1, <1>2, <1>3, AlwaysWork, PTL DEF Spec

=============================================================================
