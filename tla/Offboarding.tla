---------------------------- MODULE Offboarding -----------------------------
(***************************************************************************)
(* One member of the company, from the first day to the archive of the     *)
(* employee wiki and, for some, back: members.yaml (agents/hr), the bridge *)
(* token and the blockers reported over the bridge (bridge,                *)
(* agents/bridge), and the member's tree of pages on the wiki volume.      *)
(*                                                                         *)
(* The admin's commands, the HR manager's daily pass, the threads of the   *)
(* bridge server and the bridge manager run concurrently.  A step ends     *)
(* where a program goes from one store to the next or calls git; a write   *)
(* of members.yaml or of the tokens file is one step.  Members share no    *)
(* more than those files, so the module follows one of them.  Confirming   *)
(* and onboarding are commands of one admin, who runs one at a time.       *)
(***************************************************************************)
EXTENDS Naturals, FiniteSets

CONSTANTS
    Pages, Index,  \* pages of the tree; the one that onboarding writes
    Keys,          \* idempotency keys of the member's reports
    Threads,       \* threads of the bridge server
    Delay,         \* archive_delay_days
    MaxEvents,     \* bound on events in the ledger
    MaxHires,      \* bound on employments
    MaxLeaves,     \* bound on those that end
    MaxFaults      \* bound on failed pushes and killed processes

ASSUME IndexAssumption == Index \in Pages /\ Pages \cap Nat = {}
ASSUME BoundsAssumption ==
    Delay \in Nat /\ MaxEvents \in Nat /\ MaxHires \in Nat \ {0}
    /\ MaxLeaves \in Nat /\ MaxFaults \in Nat

VARIABLES
    status,    \* members.yaml: "active" or "departed"
    age,       \* days since departed_at
    filed,     \* members.yaml: wiki_archived
    token,     \* whether the member has an active bridge token
    confirm,   \* where confirm-offboard is
    hire,      \* where the onboarding of a rehired member is
    ranToday,  \* the HR manager has set its day key
    archive,   \* where the archive pass is
    tree,      \* pages on the volume, with Root when there is a directory for them
    branch,    \* pages on archive/employee/{member}
    packed,    \* pages in the work directory of the push
    events,    \* the bridge's ledger of blockers
    request,   \* each server thread: where it is and with which key
    bridge,    \* where the bridge manager is
    batch,     \* unmaterialized events it listed
    cur,       \* the event it is materializing
    copy,      \* the ledger as mark_materialized read it
    hires,     \* history: employments so far
    written,   \* history: pages ever written
    late,      \* history: a page was written while the first tree was being archived
    torn,      \* history: the removal of the first tree stopped midway, what it left was pushed
    reissued,  \* history: a token was issued since confirm-offboard began
    lost,      \* history: events that a rewrite of the ledger dropped
    faults

hrVars     == <<status, age, filed, hires>>
archiveVars == <<archive, packed, branch, ranToday, torn>>
bridgeVars == <<bridge, batch, cur, copy, lost>>
vars == <<hrVars, token, confirm, hire, archiveVars, tree, written, late, reissued,
          events, request, bridgeVars, faults>>

Ids   == 1..MaxEvents
Event == [id : Ids, key : Keys, done : BOOLEAN]

\* The member's directory itself.
Root    == 0
OnDisk  == Pages \cup Ids \cup {Root}

Free == [at |-> "free", key |-> {}]

TypeOK ==
    /\ status \in {"active", "departed"}
    /\ age \in 0..Delay
    /\ filed \in BOOLEAN
    /\ token \in BOOLEAN
    /\ confirm \in {"idle", "revoke"}
    /\ hire \in {"idle", "bootstrap"}
    /\ ranToday \in BOOLEAN
    /\ archive \in {"idle", "push", "remove", "file"}
    /\ tree \in SUBSET OnDisk
    /\ branch \in SUBSET OnDisk
    /\ packed \in SUBSET OnDisk
    /\ torn \in {"no", "left", "pushed"}
    /\ events \in SUBSET Event
    /\ request \in [Threads -> [at : {"free", "verified", "append"}, key : SUBSET Keys]]
    /\ bridge \in {"idle", "next", "read", "rewrite"}
    /\ batch \in SUBSET Event
    /\ cur \in SUBSET Event
    /\ copy \in SUBSET Event
    /\ hires \in 1..MaxHires
    /\ written \in SUBSET (Pages \cup Ids)
    /\ late \in BOOLEAN /\ reissued \in BOOLEAN
    /\ lost \in SUBSET Ids
    /\ faults \in 0..MaxFaults

Init ==
    /\ status = "active" /\ age = 0 /\ filed = FALSE
    /\ token = FALSE
    /\ confirm = "idle" /\ hire = "idle"
    /\ ranToday = FALSE /\ archive = "idle" /\ packed = {} /\ branch = {}
    /\ torn = "no"
    /\ tree = {Root, Index} /\ written = {Index}
    /\ events = {}
    /\ request = [t \in Threads |-> Free]
    /\ bridge = "idle" /\ batch = {} /\ cur = {} /\ copy = {}
    /\ hires = 1 /\ late = FALSE /\ reissued = FALSE /\ lost = {}
    /\ faults = 0

Fault == faults < MaxFaults /\ faults' = faults + 1

\* The tree is being archived: from the copy for the push until members.yaml
\* says so, with or without a kill in between.
Archiving ==
    archive \in {"push", "remove"} \/ (status = "departed" /\ tree = {} /\ ~filed)

\* A page of the member is written, whatever the state of the member.
Write(page) ==
    /\ tree' = tree \cup {Root, page}
    /\ written' = written \cup {page}
    /\ late' = (late \/ (hires = 1 /\ Archiving))

-----------------------------------------------------------------------------
(* The admin: tokens, confirm-offboard, onboarding; the member at work *)

IssueToken ==
    /\ token' = TRUE
    /\ reissued' = (status = "departed")
    /\ UNCHANGED <<hrVars, confirm, hire, archiveVars, tree, written, late, events, request,
                   bridgeVars, faults>>

RevokeToken ==
    /\ token
    /\ token' = FALSE
    /\ UNCHANGED <<hrVars, confirm, hire, archiveVars, tree, written, late, reissued, events,
                   request, bridgeVars, faults>>

\* OffboardConfirmAgent: members.yaml first; a member already departed is skipped.
Confirm ==
    /\ confirm = "idle" /\ hire = "idle"
    /\ status = "active"
    /\ hires <= MaxLeaves
    /\ status' = "departed" /\ age' = 0 /\ filed' = FALSE
    /\ reissued' = FALSE
    /\ confirm' = "revoke"
    /\ UNCHANGED <<hires, token, hire, archiveVars, tree, written, late, events, request,
                   bridgeVars, faults>>

\* Faulty variant: the token is left to expire.
Revoke_Later ==
    /\ confirm = "revoke"
    /\ confirm' = "idle"
    /\ UNCHANGED <<hrVars, token, hire, archiveVars, tree, written, late, reissued, events,
                   request, bridgeVars, faults>>

\* The proposal page and the hiring log follow; they are no pages of the member.
Revoke ==
    /\ confirm = "revoke"
    /\ token' = FALSE
    /\ reissued' = FALSE
    /\ confirm' = "idle"
    /\ UNCHANGED <<hrVars, hire, archiveVars, tree, written, late, events, request,
                   bridgeVars, faults>>

\* HrOnboardingAgent._ensure_member
Rehire ==
    /\ status = "departed" /\ confirm = "idle"
    /\ hires < MaxHires
    /\ hires' = hires + 1
    /\ status' = "active" /\ age' = 0 /\ filed' = FALSE
    /\ hire' = "bootstrap"
    /\ late' = FALSE /\ torn' = "no" /\ reissued' = FALSE
    /\ UNCHANGED <<token, confirm, archive, packed, branch, ranToday, tree, written, events, request,
                   bridgeVars, faults>>

\* EmployeeWikiOnboardingAgent, ensure_member_wiki
Bootstrap ==
    /\ hire = "bootstrap"
    /\ Write(Index)
    /\ hire' = "idle"
    /\ UNCHANGED <<hrVars, token, confirm, archiveVars, reissued, events, request, bridgeVars, faults>>

\* The member, or an agent for the member, writes a page.
Work ==
    /\ status = "active" /\ hire = "idle"
    /\ \E page \in Pages \ tree : Write(page)
    /\ UNCHANGED <<hrVars, token, confirm, hire, archiveVars, reissued, events, request,
                   bridgeVars, faults>>

-----------------------------------------------------------------------------
(* HrManagerAgent, WikiArchiveAgent *)

\* Faulty variant: the key of the pass outlives its day.
NewDay_SameKey ==
    /\ age' = IF status = "departed" /\ age < Delay THEN age + 1 ELSE age
    /\ UNCHANGED <<status, filed, hires, token, confirm, hire, archiveVars, tree, written, late,
                   reissued, events, request, bridgeVars, faults>>

\* Days go on; departed_at recedes until the archive is due.
NewDay ==
    /\ age' = IF status = "departed" /\ age < Delay THEN age + 1 ELSE age
    /\ ranToday' = FALSE
    /\ UNCHANGED <<status, filed, hires, token, confirm, hire, archive, packed, branch, torn, tree,
                   written, late, reissued, events, request, bridgeVars, faults>>

Due == status = "departed" /\ ~filed /\ age >= Delay

\* The day's pass.  The day key is set when it returns, and nothing runs it
\* again before the next day.  A tree that is due is copied for the push, a
\* missing one is marked at once.
Pass ==
    /\ archive = "idle" /\ ~ranToday
    /\ IF Due /\ tree # {}
         THEN /\ archive' = "push" /\ packed' = tree
              /\ UNCHANGED <<filed, ranToday>>
         ELSE /\ filed' = (filed \/ Due) /\ ranToday' = TRUE
              /\ UNCHANGED <<archive, packed>>
    /\ UNCHANGED <<status, age, hires, token, confirm, hire, branch, torn, tree, written, late,
                   reissued, events, request, bridgeVars, faults>>

\* The branch is built afresh and pushed with --force, over what an earlier push
\* may have saved.
Push ==
    /\ archive = "push"
    /\ packed # {Root}
    /\ branch' = packed
    /\ archive' = "remove"
    /\ torn' = IF torn = "left" THEN "pushed" ELSE torn
    /\ UNCHANGED <<hrVars, token, confirm, hire, packed, ranToday, tree, written, late, reissued,
                   events, request, bridgeVars, faults>>

\* A directory without pages gives a branch without a commit, which git does not
\* push.
PushNothing ==
    /\ archive = "push"
    /\ packed = {Root}
    /\ archive' = "idle" /\ packed' = {}
    /\ ranToday' = TRUE
    /\ UNCHANGED <<hrVars, token, confirm, hire, branch, torn, tree, written, late, reissued, events,
                   request, bridgeVars, faults>>

\* Faulty variant: the return code of git push is not looked at.
PushFails_Unchecked ==
    /\ archive = "push"
    /\ Fault
    /\ archive' = "remove"
    /\ UNCHANGED <<hrVars, token, confirm, hire, packed, branch, torn, ranToday, tree, written, late,
                   reissued, events, request, bridgeVars>>

\* git fails: the tree stays, and the pass of the next day tries again.
PushFails ==
    /\ archive = "push"
    /\ Fault
    /\ archive' = "idle" /\ packed' = {}
    /\ ranToday' = TRUE
    /\ UNCHANGED <<hrVars, token, confirm, hire, branch, torn, tree, written, late, reissued, events,
                   request, bridgeVars>>

\* shutil.rmtree removes page by page, whatever was written since the copy,
RemovePage ==
    /\ archive = "remove"
    /\ \E page \in tree \ {Root} : tree' = tree \ {page}
    /\ UNCHANGED <<hrVars, token, confirm, hire, archiveVars, written, late, reissued, events,
                   request, bridgeVars, faults>>

\* Faulty variant: with ignore_errors the removal is over when pages are left.
RemoveRoot_IgnoreErrors ==
    /\ archive = "remove"
    /\ tree' = IF tree = {Root} THEN {} ELSE tree
    /\ archive' = "file" /\ packed' = {}
    /\ UNCHANGED <<hrVars, token, confirm, hire, branch, torn, ranToday, written, late, reissued,
                   events, request, bridgeVars, faults>>

\* and the directory last.
RemoveRoot ==
    /\ archive = "remove"
    /\ tree = {Root}
    /\ tree' = {}
    /\ archive' = "file" /\ packed' = {}
    /\ UNCHANGED <<hrVars, token, confirm, hire, branch, torn, ranToday, written, late, reissued,
                   events, request, bridgeVars, faults>>

\* A removal that stops has torn the first tree when something of it is gone.
Torn == IF hires = 1 /\ torn = "no" /\ ~(packed \subseteq tree) THEN "left" ELSE torn

\* It raises, as it does when a page was written into a directory it had listed.
\* The manager's loop goes on, and the pass of the same day tries again.
RemoveFails ==
    /\ archive = "remove"
    /\ Fault \/ (tree \ packed # {} /\ UNCHANGED faults)
    /\ torn' = Torn
    /\ archive' = "idle" /\ packed' = {}
    /\ UNCHANGED <<hrVars, token, confirm, hire, branch, ranToday, tree, written, late, reissued,
                   events, request, bridgeVars>>

\* update_member, whoever the member is by now
FileMember ==
    /\ archive = "file"
    /\ filed' = TRUE
    /\ archive' = "idle" /\ ranToday' = TRUE
    /\ UNCHANGED <<status, age, hires, token, confirm, hire, packed, branch, torn, tree, written, late,
                   reissued, events, request, bridgeVars, faults>>

-----------------------------------------------------------------------------
(* The bridge server: do_POST, dispatch_tool, report_blocker *)

Verify(t) ==
    /\ request[t] = Free
    /\ token
    /\ request' = [request EXCEPT ![t].at = "verified"]
    /\ UNCHANGED <<hrVars, token, confirm, hire, archiveVars, tree, written, late, reissued,
                   events, bridgeVars, faults>>

Known(k) == \E e \in events : e.key = k

\* Faulty variant: the key is not looked up.
Admitted_Unseen(k) == status = "active"

\* The member is active, and no event has the idempotency key.
Admitted(k) == status = "active" /\ ~Known(k)

Admit(t) ==
    /\ request[t].at = "verified"
    /\ \E k \in Keys : request' = [request EXCEPT ![t] =
            IF Admitted(k) THEN [at |-> "append", key |-> {k}] ELSE Free]
    /\ UNCHANGED <<hrVars, token, confirm, hire, archiveVars, tree, written, late, reissued,
                   events, bridgeVars, faults>>

\* Event ids are never used twice, by a lost event either.
Unused == Ids \ ({e.id : e \in events} \cup lost)

AppendEvent(t) ==
    /\ request[t].at = "append"
    /\ Unused # {}
    /\ \E k \in request[t].key :
         events' = events \cup {[id |-> CHOOSE i \in Unused : TRUE, key |-> k, done |-> FALSE]}
    /\ request' = [request EXCEPT ![t] = Free]
    /\ UNCHANGED <<hrVars, token, confirm, hire, archiveVars, tree, written, late, reissued,
                   bridgeVars, faults>>

-----------------------------------------------------------------------------
(* BridgeManagerAgent, BridgeEventMaterializerAgent *)

List ==
    /\ bridge = "idle"
    /\ batch' = {e \in events : ~e.done}
    /\ batch' # {}
    /\ bridge' = "next"
    /\ UNCHANGED <<hrVars, token, confirm, hire, archiveVars, tree, written, late, reissued,
                   events, request, cur, copy, lost, faults>>

\* Faulty variant: an exception while writing the page is swallowed.
Materialize_Swallowed ==
    /\ bridge = "next"
    /\ \E e \in batch :
         /\ \/ Write(e.id)
            \/ UNCHANGED <<tree, written, late>>
         /\ cur' = {e}
         /\ batch' = batch \ {e}
    /\ bridge' = "read"
    /\ UNCHANGED <<hrVars, token, confirm, hire, archiveVars, reissued, events, request, copy,
                   lost, faults>>

\* write_employee_wiki_page makes the member's directory when it is not there.
Materialize ==
    /\ bridge = "next"
    /\ \E e \in batch :
         /\ Write(e.id)
         /\ cur' = {e}
         /\ batch' = batch \ {e}
    /\ bridge' = "read"
    /\ UNCHANGED <<hrVars, token, confirm, hire, archiveVars, reissued, events, request, copy,
                   lost, faults>>

\* mark_materialized reads the ledger
MarkRead ==
    /\ bridge = "read"
    /\ copy' = events
    /\ bridge' = "rewrite"
    /\ UNCHANGED <<hrVars, token, confirm, hire, archiveVars, tree, written, late, reissued,
                   events, request, batch, cur, lost, faults>>

\* Faulty variant: the mark is set on the event in hand, not in the ledger.
Marked_Copy == copy

\* The ledger with the event marked, if it is still there.
Marked == {IF \E c \in cur : e.id = c.id THEN [e EXCEPT !.done = TRUE] ELSE e : e \in copy}

\* and writes it back: what was appended in between is gone.
MarkWrite ==
    /\ bridge = "rewrite"
    /\ events' = IF \E e \in copy, c \in cur : e.id = c.id THEN Marked ELSE events
    /\ lost' = lost \cup ({e.id : e \in events} \ {e.id : e \in events'})
    /\ bridge' = IF batch = {} THEN "idle" ELSE "next"
    /\ cur' = {} /\ copy' = {}
    /\ UNCHANGED <<hrVars, token, confirm, hire, archiveVars, tree, written, late, reissued,
                   request, batch, faults>>

-----------------------------------------------------------------------------
(* A process is killed: the admin's command, the HR manager, a server thread *)
(* or the bridge manager.                                                    *)

KillCommand ==
    /\ confirm # "idle" \/ hire # "idle"
    /\ Fault
    /\ confirm' = "idle" /\ hire' = "idle"
    /\ UNCHANGED <<hrVars, token, archiveVars, tree, written, late, reissued, events, request,
                   bridgeVars>>

KillPass ==
    /\ archive # "idle"
    /\ Fault
    /\ torn' = IF archive = "remove" THEN Torn ELSE torn
    /\ archive' = "idle" /\ packed' = {}
    /\ UNCHANGED <<hrVars, token, confirm, hire, branch, ranToday, tree, written, late, reissued,
                   events, request, bridgeVars>>

KillRequest(t) ==
    /\ request[t] # Free
    /\ Fault
    /\ request' = [request EXCEPT ![t] = Free]
    /\ UNCHANGED <<hrVars, token, confirm, hire, archiveVars, tree, written, late, reissued,
                   events, bridgeVars>>

KillBridge ==
    /\ bridge # "idle"
    /\ Fault
    /\ bridge' = "idle" /\ batch' = {} /\ cur' = {} /\ copy' = {}
    /\ UNCHANGED <<hrVars, token, confirm, hire, archiveVars, tree, written, late, reissued,
                   events, request, lost>>

Command == Confirm \/ Revoke \/ Rehire \/ Bootstrap
Archive == Pass \/ Push \/ PushNothing \/ RemovePage \/ RemoveRoot \/ FileMember
Serve(t) == Verify(t) \/ Admit(t) \/ AppendEvent(t)
BridgeManager == List \/ Materialize \/ MarkRead \/ MarkWrite

Next ==
    \/ IssueToken \/ RevokeToken \/ Command \/ Work
    \/ NewDay \/ Archive \/ PushFails \/ RemoveFails
    \/ \E t \in Threads : Serve(t) \/ KillRequest(t)
    \/ BridgeManager
    \/ KillCommand \/ KillPass \/ KillBridge

\* The managers' loops go on, and so do the days.
Fairness == WF_vars(NewDay) /\ WF_vars(Archive) /\ WF_vars(BridgeManager)

Spec == Init /\ [][Next]_vars /\ Fairness

-----------------------------------------------------------------------------
(* Properties *)

\* During a first employment no page of the member is ever lost: it is on the
\* volume or on the archive branch, whatever fails and whoever is killed.  There
\* are two ways to lose one: it is written while the tree is being archived, or a
\* removal stops midway and the next pass forces what is left over the branch.
NothingLost == hires = 1 /\ ~late /\ torn # "pushed" => written \subseteq tree \cup branch

\* Once confirm-offboard is through, the member has no active token, unless an
\* admin issues a new one or the command was killed on the way.
CutOff == status = "departed" /\ confirm = "idle" /\ ~reissued /\ faults = 0 => ~token

\* A retried report is one event: two only when two threads take the same key at
\* the same time.
ReportedOnce ==
    \A k \in Keys : Cardinality({e \in events : e.key = k}) <= Cardinality(Threads)

\* An event is marked only after its page was written.
MarkedMeansWritten == \A e \in events : e.done => e.id \in written

\* What comes back to the volume of a member whose tree is archived is a blocker
\* reported before the departure and materialized after it, and nothing else.
OnlyBlockersReturn ==
    status = "departed" /\ filed /\ hires = 1 => tree \subseteq Ids \cup {Root}

\* A departed member's wiki is archived when the delay is over, unless the
\* member comes back, or a removal stopped when no page was left: the empty
\* directory is in the way of every pass after that.
ArchivedAtLast == status = "departed" ~> (filed \/ status = "active" \/ (tree = {Root} /\ archive = "idle"))

\* Every reported blocker is materialized, unless the rewriting of another
\* event's mark dropped it from the ledger.
MaterializedAtLast ==
    \A i \in Ids :
        (\E e \in events : e.id = i) ~>
            (i \in lost \/ \E e \in events : e.id = i /\ e.done)

=============================================================================
