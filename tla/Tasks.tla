------------------------------- MODULE Tasks -------------------------------
(***************************************************************************)
(* A mail, a Slack thread or a meeting note becomes a Linear issue and a   *)
(* binding (task_bindings.json) that ties the two together; when the issue *)
(* is finished the Linear manager tells the place the task came from:      *)
(* it archives the mail, replies in the thread, or updates the task's row  *)
(* in Notion.                                                              *)
(*                                                                         *)
(* Three intake agents (Gmail, Slack, Granola), the Linear manager and the *)
(* Notion task scanner run concurrently.  A step ends where a program      *)
(* calls another service; saving a binding is one step, but it saves the   *)
(* whole record as the program read it before its calls.                   *)
(***************************************************************************)
EXTENDS Naturals, Sequences, FiniteSets

CONSTANTS
    Mails, Threads, Notes,   \* what tasks are made from
    Finished,    \* terminal states of an issue: completed, canceled
    PageSize,    \* issues one request to Linear returns at most
    MaxIssues,   \* bound on issues created
    MaxTime,     \* bound on the clock
    MaxFaults    \* bound on failed calls and killed processes

ASSUME PositiveAssumption == PageSize \in Nat \ {0} /\ MaxTime \in Nat
ASSUME BoundsAssumption == MaxIssues \in Nat /\ MaxFaults \in Nat
ASSUME OpenAssumption == Finished \cap {"open", ""} = {}
ASSUME DisjointAssumption ==
    Mails \cap Threads = {} /\ Mails \cap Notes = {} /\ Threads \cap Notes = {}

Sources   == {"gmail", "slack", "granola"}
From      == [s \in Sources |-> CASE s = "gmail" -> Mails
                                  [] s = "slack" -> Threads
                                  [] s = "granola" -> Notes]
Artifacts == Mails \cup Threads \cup Notes
States    == Finished \cup {"open"}
Times     == 0..MaxTime

VARIABLES
    clock,
    issues,     \* Linear: the issues, in the order of creation
    rows,       \* Notion: the rows of the task database
    archived,   \* Gmail: archived mails
    replies,    \* Slack: replies sent to each thread
    bindings,   \* task_bindings.json: {} or one binding for each artifact
    handled,    \* artifacts whose routing record says the intake is done
    intake,     \* each intake agent: where it is, on which artifact, which issue
    pc,         \* where the Linear manager is
    start,      \* when its poll began
    since,      \* start of its last complete poll, from state.json
    todo,       \* finished issues of the poll, as Linear returned them
    slot,       \* the one signature kept under handled:linear_completed
    cur,        \* the issue it dispatched
    copy,       \* the binding as the dispatched agent read it
    recorded,   \* issues with a completion event in the ledger
    gaveUp,     \* artifacts not told because of a refused run or a reply Slack refused
    faults

services == <<issues, rows, archived, replies>>
intakeVars == <<handled, intake>>
managerVars == <<pc, start, since, todo, slot, cur, copy, recorded, gaveUp>>
vars == <<clock, services, bindings, intakeVars, managerVars, faults>>

Issue   == [art : Artifacts, state : States, at : Times]
Binding == [issue : Nat, archived : BOOLEAN, replied : BOOLEAN,
            row : Nat,                      \* platforms.notion.page_id, 0 if none
            pushed : Finished \cup {""}]    \* Notion status in the status track
Row     == [issue : Nat, state : States]
Seen    == [issue : Nat, state : Finished, at : Times]

Stages == {"idle", "bind", "mark", "sync", "attach"}
Labels == {"idle", "scan", "tell", "save", "record", "mark"}

TypeOK ==
    /\ clock \in Times
    /\ issues \in Seq(Issue)
    /\ rows \in Seq(Row)
    /\ archived \in SUBSET Mails
    /\ replies \in [Threads -> Nat]
    /\ bindings \in [Artifacts -> SUBSET Binding]
    /\ handled \in SUBSET Artifacts
    /\ intake \in [Sources -> [stage : Stages, art : SUBSET Artifacts, issue : Nat, row : Nat]]
    /\ pc \in Labels
    /\ start \in Times /\ since \in Times
    /\ todo \in SUBSET Seen
    /\ slot \in SUBSET Seen
    /\ cur \in SUBSET Seen
    /\ copy \in SUBSET Binding
    /\ recorded \in SUBSET Nat
    /\ gaveUp \in SUBSET Artifacts
    /\ faults \in 0..MaxFaults

Idle == [stage |-> "idle", art |-> {}, issue |-> 0, row |-> 0]

Init ==
    /\ clock = 0
    /\ issues = <<>> /\ rows = <<>>
    /\ archived = {} /\ replies = [t \in Threads |-> 0]
    /\ bindings = [a \in Artifacts |-> {}]
    /\ handled = {}
    /\ intake = [s \in Sources |-> Idle]
    /\ pc = "idle"
    /\ start = 0 /\ since = 0
    /\ todo = {} /\ slot = {} /\ cur = {} /\ copy = {}
    /\ recorded = {} /\ gaveUp = {}
    /\ faults = 0

Fault == faults < MaxFaults /\ faults' = faults + 1

-----------------------------------------------------------------------------
(* Intake: InboxTaskAgent and TeamOnItAgent, ActionItemsAgent, TaskAgent *)

NewBinding(i) == [issue |-> i, archived |-> FALSE, replied |-> FALSE, row |-> 0, pushed |-> ""]

\* Faulty variant: a note is not looked up in the bindings.
Pending_Granola(a) ==
    /\ a \in Mails \cup Threads => a \notin handled
    /\ a \in Threads => bindings[a] = {}

\* Gmail looks at the routing record, Granola at the bindings, Slack at both.
Pending(a) ==
    /\ a \in Mails \cup Threads => a \notin handled
    /\ a \in Threads \cup Notes => bindings[a] = {}

CreateIssue(s) ==
    /\ intake[s].stage = "idle"
    /\ Len(issues) < MaxIssues
    /\ \E a \in From[s] :
         /\ Pending(a)
         /\ issues' = Append(issues, [art |-> a, state |-> "open", at |-> clock])
         /\ intake' = [intake EXCEPT ![s] =
                [stage |-> "bind", art |-> {a}, issue |-> Len(issues'), row |-> 0]]
    /\ UNCHANGED <<clock, rows, archived, replies, bindings, handled, managerVars, faults>>

\* create_gmail_binding and create_slack_binding move an existing binding to
\* the new issue and keep the rest; create_granola_binding makes a new one.
Linked(a, i) ==
    IF a \in Notes \/ bindings[a] = {} THEN {NewBinding(i)}
    ELSE {[b EXCEPT !.issue = i] : b \in bindings[a]}

Bind(s) ==
    /\ intake[s].stage = "bind"
    /\ \E a \in intake[s].art : bindings' = [bindings EXCEPT ![a] = Linked(a, intake[s].issue)]
    /\ intake' = [intake EXCEPT ![s].stage = IF s = "granola" THEN "sync" ELSE "mark"]
    /\ UNCHANGED <<clock, services, handled, managerVars, faults>>

\* mark_handled on the routing record
MarkRouted(s) ==
    /\ intake[s].stage = "mark"
    /\ handled' = handled \cup intake[s].art
    /\ intake' = [intake EXCEPT ![s] = Idle]
    /\ UNCHANGED <<clock, services, bindings, managerVars, faults>>

\* TaskSyncAgent with create_if_missing and no status, called by TaskAgent: the
\* row is created, then the binding that TaskAgent made is saved with it.
CreateFirstRow(s) ==
    /\ intake[s].stage = "sync"
    /\ rows' = Append(rows, [issue |-> intake[s].issue, state |-> "open"])
    /\ intake' = [intake EXCEPT ![s].stage = "attach", ![s].row = Len(rows')]
    /\ UNCHANGED <<clock, issues, archived, replies, bindings, handled, managerVars, faults>>

\* Faulty variant: the binding is saved without the row.
AttachFirstRow_Forgets(s) ==
    /\ intake[s].stage = "attach"
    /\ \E a \in intake[s].art :
         bindings' = [bindings EXCEPT ![a] = {NewBinding(intake[s].issue)}]
    /\ intake' = [intake EXCEPT ![s] = Idle]
    /\ UNCHANGED <<clock, services, handled, managerVars, faults>>

AttachFirstRow(s) ==
    /\ intake[s].stage = "attach"
    /\ \E a \in intake[s].art :
         bindings' = [bindings EXCEPT ![a] =
            {[NewBinding(intake[s].issue) EXCEPT !.row = intake[s].row]}]
    /\ intake' = [intake EXCEPT ![s] = Idle]
    /\ UNCHANGED <<clock, services, handled, managerVars, faults>>

\* A call raises, the fleet gate refuses TaskSyncAgent, or the process is killed.
IntakeFails(s) ==
    /\ intake[s].stage # "idle"
    /\ Fault
    /\ intake' = [intake EXCEPT ![s] = Idle]
    /\ UNCHANGED <<clock, services, bindings, handled, managerVars>>

Intake(s) ==
    CreateIssue(s) \/ Bind(s) \/ MarkRouted(s) \/ CreateFirstRow(s) \/ AttachFirstRow(s)

-----------------------------------------------------------------------------
(* TaskScannerAgent._link_row: a row that no binding names is linked to the *)
(* binding of the issue it names.                                           *)

LinkRow ==
    /\ \E r \in DOMAIN rows, a \in Artifacts :
         /\ \A x \in Artifacts : \A b \in bindings[x] : b.row # r
         /\ \E b \in bindings[a] :
              /\ b.issue = rows[r].issue
              /\ bindings' = [bindings EXCEPT ![a] = {[b EXCEPT !.row = r]}]
    /\ UNCHANGED <<clock, services, intakeVars, managerVars, faults>>

-----------------------------------------------------------------------------
(* LinearManagerAgent.run_once *)

Manages == UNCHANGED <<clock, issues, intakeVars>>
NoFault == UNCHANGED faults

\* list_issues_updated_since asks for updatedAt >= since.
Updated == {i \in DOMAIN issues : issues[i].at >= since}

\* One page of them; only the finished ones matter.
Poll ==
    /\ pc = "idle"
    /\ start' = clock
    /\ \E page \in SUBSET Updated :
         /\ page = Updated \/ Cardinality(page) = PageSize
         /\ Cardinality(page) <= PageSize
         /\ todo' = {[issue |-> i, state |-> issues[i].state, at |-> issues[i].at] :
                        i \in {j \in page : issues[j].state # "open"}}
    /\ pc' = "scan"
    /\ Manages /\ NoFault
    /\ UNCHANGED <<rows, archived, replies, bindings, since, slot, cur, copy, recorded, gaveUp>>

\* Nothing left to look at: the next poll goes back to the start of this one.
PollEnds ==
    /\ pc = "scan" /\ todo = {}
    /\ since' = start
    /\ pc' = "idle"
    /\ Manages /\ NoFault
    /\ UNCHANGED <<rows, archived, replies, bindings, start, todo, slot, cur, copy, recorded, gaveUp>>

Bound(i) == {a \in Artifacts : \E b \in bindings[a] : b.issue = i}

\* The next issue of the poll is dropped when its signature is the last one
\* handled or no binding names it; otherwise LinearCompletedAgent reads the
\* binding.
Dispatch ==
    /\ pc = "scan"
    /\ \E x \in todo :
         /\ todo' = todo \ {x}
         /\ \/ /\ slot = {x} \/ Bound(x.issue) = {}
               /\ UNCHANGED <<pc, cur, copy>>
            \/ /\ slot # {x}
               /\ \E a \in Bound(x.issue) : copy' = bindings[a]
               /\ cur' = {x}
               /\ pc' = "tell"
    /\ Manages /\ NoFault
    /\ UNCHANGED <<rows, archived, replies, bindings, start, since, slot, recorded, gaveUp>>

\* LinearCompletedAgent or the platform's agent is refused by the fleet gate.
\* The manager goes on as if the task had been told.
GiveUp ==
    /\ pc = "tell"
    /\ \E x \in cur : gaveUp' = gaveUp \cup {issues[x.issue].art}
    /\ pc' \in {"record", "mark"}
    /\ Manages /\ NoFault
    /\ UNCHANGED <<rows, archived, replies, bindings, start, since, todo, slot, cur, copy, recorded>>

\* Already told: already_archived, already_replied, already_propagated.
NothingToTell ==
    /\ pc = "tell"
    /\ \E x \in cur, b \in copy :
         \/ issues[x.issue].art \in Mails /\ b.archived
         \/ issues[x.issue].art \in Threads /\ b.replied
         \/ issues[x.issue].art \in Notes /\ b.row # 0 /\ b.pushed = x.state
    /\ pc' = "record"
    /\ Manages /\ NoFault
    /\ UNCHANGED <<rows, archived, replies, bindings, start, since, todo, slot, cur, copy, recorded, gaveUp>>

\* Faulty variant: the flag is set although the call to Gmail may have failed.
ArchiveMail_Unchecked ==
    /\ pc = "tell"
    /\ \E x \in cur, b \in copy :
         /\ issues[x.issue].art \in Mails
         /\ ~b.archived
         /\ archived' \in {archived, archived \cup {issues[x.issue].art}}
         /\ copy' = {[b EXCEPT !.archived = TRUE]}
    /\ pc' = "save"
    /\ Manages /\ NoFault
    /\ UNCHANGED <<rows, replies, bindings, start, since, todo, slot, cur, recorded, gaveUp>>

\* ArchiveGmailAgent
ArchiveMail ==
    /\ pc = "tell"
    /\ \E x \in cur, b \in copy :
         /\ issues[x.issue].art \in Mails
         /\ ~b.archived
         /\ archived' = archived \cup {issues[x.issue].art}
         /\ copy' = {[b EXCEPT !.archived = TRUE]}
    /\ pc' = "save"
    /\ Manages /\ NoFault
    /\ UNCHANGED <<rows, replies, bindings, start, since, todo, slot, cur, recorded, gaveUp>>

\* Faulty variant: replies without looking at the flag.
Reply_Again ==
    /\ pc = "tell"
    /\ \E x \in cur, b \in copy :
         /\ issues[x.issue].art \in Threads
         /\ replies' = [replies EXCEPT ![issues[x.issue].art] = @ + 1]
         /\ copy' = {[b EXCEPT !.replied = TRUE]}
    /\ pc' = "save"
    /\ Manages /\ NoFault
    /\ UNCHANGED <<rows, archived, bindings, start, since, todo, slot, cur, recorded, gaveUp>>

\* SlackThreadRespondAgent
Reply ==
    /\ pc = "tell"
    /\ \E x \in cur, b \in copy :
         /\ issues[x.issue].art \in Threads
         /\ ~b.replied
         /\ replies' = [replies EXCEPT ![issues[x.issue].art] = @ + 1]
         /\ copy' = {[b EXCEPT !.replied = TRUE]}
    /\ pc' = "save"
    /\ Manages /\ NoFault
    /\ UNCHANGED <<rows, archived, bindings, start, since, todo, slot, cur, recorded, gaveUp>>

\* Slack refuses the reply.  reply_in_thread catches the error, and emit answers
\* "delivered" for every signal it does not suppress: the flag is set as well.
ReplyRefused ==
    /\ pc = "tell"
    /\ Fault
    /\ \E x \in cur, b \in copy :
         /\ issues[x.issue].art \in Threads
         /\ ~b.replied
         /\ gaveUp' = gaveUp \cup {issues[x.issue].art}
         /\ copy' = {[b EXCEPT !.replied = TRUE]}
    /\ pc' = "save"
    /\ Manages
    /\ UNCHANGED <<services, bindings, start, since, todo, slot, cur, recorded>>

\* TaskSyncAgent: the row is created when the binding names none, and updated
\* when the status track does not show this status as propagated.
SyncRow ==
    /\ pc = "tell"
    /\ \E x \in cur, b \in copy :
         /\ issues[x.issue].art \in Notes
         /\ \/ /\ b.row = 0
               /\ rows' = Append(rows, [issue |-> x.issue, state |-> x.state])
               /\ copy' = {[b EXCEPT !.row = Len(rows'), !.pushed = x.state]}
            \/ /\ b.row # 0 /\ b.pushed # x.state
               /\ rows' = [rows EXCEPT ![b.row].state = x.state]
               /\ copy' = {[b EXCEPT !.pushed = x.state]}
    /\ pc' = "save"
    /\ Manages /\ NoFault
    /\ UNCHANGED <<archived, replies, bindings, start, since, todo, slot, cur, recorded, gaveUp>>

\* The whole binding goes back as it was read, with the new flag.
SaveBinding ==
    /\ pc = "save"
    /\ \E x \in cur : bindings' = [bindings EXCEPT ![issues[x.issue].art] = copy]
    /\ pc' = "record"
    /\ Manages /\ NoFault
    /\ UNCHANGED <<rows, archived, replies, start, since, todo, slot, cur, copy, recorded, gaveUp>>

\* _record_employee_work_event
RecordCompletion ==
    /\ pc = "record"
    /\ recorded' = recorded \cup {x.issue : x \in cur}
    /\ pc' = "mark"
    /\ Manages /\ NoFault
    /\ UNCHANGED <<rows, archived, replies, bindings, start, since, todo, slot, cur, copy, gaveUp>>

\* mark_handled: the signature replaces the one kept before.
MarkHandled ==
    /\ pc = "mark"
    /\ slot' = cur
    /\ pc' = "scan"
    /\ cur' = {} /\ copy' = {}
    /\ Manages /\ NoFault
    /\ UNCHANGED <<rows, archived, replies, bindings, start, since, todo, recorded, gaveUp>>

\* Faulty variant: a poll that failed also moves the time of the last poll.
ManagerFails_Advances ==
    /\ pc # "idle"
    /\ Fault
    /\ pc' = "idle"
    /\ since' = start
    /\ todo' = {} /\ cur' = {} /\ copy' = {}
    /\ Manages
    /\ UNCHANGED <<rows, archived, replies, bindings, start, slot, recorded, gaveUp>>

\* Faulty variant: an agent's exception is logged and the manager goes on.
ManagerFails_Swallowed ==
    /\ pc # "idle"
    /\ Fault
    /\ pc' = IF pc = "tell" THEN "record" ELSE "idle"
    /\ IF pc = "tell" THEN UNCHANGED <<todo, cur, copy>> ELSE todo' = {} /\ cur' = {} /\ copy' = {}
    /\ Manages
    /\ UNCHANGED <<rows, archived, replies, bindings, start, since, slot, recorded, gaveUp>>

\* A call raises and ends the poll, or the process is killed.
ManagerFails ==
    /\ pc # "idle"
    /\ Fault
    /\ pc' = "idle"
    /\ todo' = {} /\ cur' = {} /\ copy' = {}
    /\ Manages
    /\ UNCHANGED <<rows, archived, replies, bindings, start, since, slot, recorded, gaveUp>>

Tell == GiveUp \/ NothingToTell \/ ArchiveMail \/ Reply \/ SyncRow

Manager ==
    \/ Poll \/ PollEnds \/ Dispatch \/ Tell
    \/ SaveBinding \/ RecordCompletion \/ MarkHandled

-----------------------------------------------------------------------------
(* People and time *)

\* Somebody finishes or reopens an issue.  Nobody does while the intake agent
\* that created it is still saving it.
MoveIssue ==
    /\ clock < MaxTime
    /\ \E i \in DOMAIN issues, st \in States :
         /\ \A s \in Sources : intake[s].issue # i
         /\ issues[i].state # st
         /\ issues' = [issues EXCEPT ![i].state = st, ![i].at = clock]
    /\ UNCHANGED <<clock, rows, archived, replies, bindings, intakeVars, managerVars, faults>>

Tick ==
    /\ clock < MaxTime
    /\ clock' = clock + 1
    /\ UNCHANGED <<services, bindings, intakeVars, managerVars, faults>>

Next ==
    \/ \E s \in Sources : Intake(s) \/ IntakeFails(s)
    \/ LinkRow
    \/ Manager \/ ManagerFails \/ ReplyRefused
    \/ MoveIssue \/ Tick

Fairness ==
    /\ WF_vars(Manager) /\ WF_vars(Tick)
    /\ \A s \in Sources : WF_vars(Intake(s))

Spec == Init /\ [][Next]_vars /\ Fairness

-----------------------------------------------------------------------------
(* Properties *)

IssuesOf(a) == {i \in DOMAIN issues : issues[i].art = a}
RowsOf(a)   == {r \in DOMAIN rows : issues[rows[r].issue].art = a}

\* A mail, thread or note gets one issue, and one more for each failure: the
\* intake is not repeated once its binding or routing record is there.
OneIssueEach ==
    \A a \in Artifacts : Cardinality(IssuesOf(a)) <= 1 + faults

\* A task has one Notion row, and one more for each failure, although the
\* intake, the manager and the scanner all write the binding that names it.
OneRowEach ==
    \A a \in Artifacts : Cardinality(RowsOf(a)) <= 1 + faults

\* A thread gets one reply, and one more for each failure, although the issue
\* is listed, reopened and finished again, and only one signature is kept.
RepliedOnce ==
    \A t \in Threads : replies[t] <= 1 + faults

\* The flags of a binding never run ahead of the services: what a stale save
\* puts back was done, or was a reply that Slack refused.
FlagsAreTrue ==
    \A a \in Artifacts : \A b \in bindings[a] :
        /\ b.archived => a \in archived
        /\ b.replied => replies[a] > 0 \/ a \in gaveUp
        /\ b.row # 0 => b.row \in RowsOf(a)
        /\ b.pushed # "" => \E r \in RowsOf(a) : rows[r].state # "open"

\* The place an issue came from was told that it was finished.  A Notion row
\* shows how it was finished as long as no failure came between the row's update
\* and the saving of its status track.
Told(a, i) ==
    \/ a \in Mails /\ a \in archived
    \/ a \in Threads /\ replies[a] > 0
    \/ a \in Notes /\ \E r \in RowsOf(a) :
            IF faults = 0 THEN rows[r].state = issues[i].state ELSE rows[r].state # "open"

\* A completion is in the work-event ledger only when its origin was told, or
\* the manager had given up on telling it.
RecordedMeansTold ==
    \A i \in recorded :
        LET a == issues[i].art IN
        \/ a \in gaveUp \cup archived
        \/ a \in Threads /\ replies[a] > 0
        \/ a \in Notes /\ \E r \in RowsOf(a) : rows[r].state # "open"

\* Issue i is finished, the binding of its origin names it, and the origin was
\* neither told nor given up on.
Owed(i) ==
    /\ i \in DOMAIN issues
    /\ issues[i].state # "open"
    /\ LET a == issues[i].art IN
       /\ \E b \in bindings[a] : b.issue = i
       /\ a \notin gaveUp
       /\ ~Told(a, i)

\* A finished issue that a binding names is told to its origin, unless it is
\* reopened, its origin is bound to another issue, or the manager gives up.
ReachesOrigin ==
    \A i \in 1..MaxIssues : Owed(i) ~> ~Owed(i)

=============================================================================
