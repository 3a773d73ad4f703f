----------------------------- MODULE NotionSync -----------------------------
(***************************************************************************)
(* One wiki page and its Notion mirror, with everything that writes them:  *)
(*                                                                         *)
(*   - the Notion manager, which polls in one process and runs, in this    *)
(*     order, sync_pull, wiki_directive, conflict_resolution and           *)
(*     conflict_apply over the page;                                       *)
(*   - writers: department agents and the admin console, which call        *)
(*     write_wiki_page, and the absorb pass, which ends in sync_all;       *)
(*   - people, who edit the Markdown file, edit the Notion page, relabel   *)
(*     the page, and settle rows of the Conflict Resolutions database.     *)
(*                                                                         *)
(* The processes share files and the Notion API and take no lock, so one   *)
(* step is one read or one write of the store, or one call of the API.     *)
(* A call of the API may raise, and a process may be killed between two    *)
(* steps; both are counted against MaxFaults.                              *)
(***************************************************************************)
EXTENDS NotionPolicy, Naturals, FiniteSets

CONSTANTS
    Manager,        \* the notion_manager process
    Writers,        \* processes calling write_wiki_page or sync_all
    Rows,           \* rows the Conflict Resolutions database can hold
    Modes,          \* subset of {"update", "append", "sync_all"}: what writers do
    SyncFlags,      \* subset of BOOLEAN: the sync argument writers pass
    Labels,         \* subset of BOOLEAN: values a relabelling gives to "local"
    Evidence,       \* subset of {"md", "notion"}: sides wiki evidence can favour
    Choices,        \* subset of {"resolved_md", "resolved_notion"}: what the admin picks
    Editors,        \* subset of {"md", "notion"}: sides people edit
    Watched,        \* subset of {"md", "notion", "agent"}: whose lines are tracked in owed
    MirrorEnabled,  \* notion.is_mirror_enabled()
    Additive,       \* people only add lines
    Overlap,        \* processes and people may interleave with a pass
    MaxEdits,       \* bound on edits, writer runs and relabellings
    MaxFaults       \* bound on failed calls and killed processes

ASSUME ProcessAssumption == Manager \notin Writers
ASSUME ValuesAssumption == Labels \subseteq BOOLEAN /\ Choices \subseteq {"resolved_md", "resolved_notion"}
ASSUME BoundsAssumption == MaxEdits \in Nat /\ MaxFaults \in Nat

VARIABLES
    md,      \* the Markdown file
    notion,  \* the Notion page's body, {} while there is no such page
    rows,    \* status of every row of the Conflict Resolutions database
    pc,      \* where each process is
    reg,     \* each process's local variables
    owed,    \* history: lines watched authors typed that nobody has chosen to drop
    edits,   \* edits made so far
    faults   \* faults so far

vars == <<md, notion, rows, pc, reg, owed, edits, faults>>

Procs == {Manager} \cup Writers

Statuses == {"none", "open", "resolved_md", "resolved_notion", "applied"}
Resolved == {"resolved_md", "resolved_notion"}

SyncLabels == {"S_read", "S_discover", "S_fetch", "S_override", "S_push",
               "S_create", "S_stamp"}
PassLabels == {"P_fetch", "P_pull", "P_merge", "P_mark", "D_read", "D_write",
               "R_read", "R_fetch", "R_apply", "R_escalate", "R_row",
               "A_query", "A_next", "A_fetch", "A_write", "A_mark"}
WriterLabels == {"W_prepend", "W_write"}
PcLabels == {"idle"} \cup SyncLabels \cup PassLabels \cup WriterLabels

EmptyDoc == [body |-> {}, page |-> FALSE, synced |-> {}, sig |-> {}, pushed |-> {},
             local |-> FALSE, conflict |-> FALSE, enqueued |-> FALSE, stash |-> {}]

Blank == [doc   |-> EmptyDoc,   \* the document as this process read it
          seen  |-> {},         \* the Notion body as this process fetched it
          new   |-> {},         \* the body this process is about to write
          force |-> FALSE,      \* sync_doc(force=...)
          ret   |-> "idle",     \* where sync_doc returns to
          row   |-> {},         \* the resolved row conflict_apply is working on
          todo  |-> {}]         \* the resolved rows of its query still to do

Reg == [doc : Doc, seen : Maybe(Body), new : Body, force : BOOLEAN,
        ret : {"idle", "D_read", "R_read", "A_query", "A_mark"},
        row : Maybe(Rows \X Resolved), todo : SUBSET (Rows \X Resolved)]

TypeOK ==
    /\ md \in Doc
    /\ notion \in Maybe(Body)
    /\ rows \in [Rows -> Statuses]
    /\ pc \in [Procs -> PcLabels]
    /\ reg \in [Procs -> Reg]
    /\ owed \in Body
    /\ edits \in 0..MaxEdits
    /\ faults \in 0..MaxFaults

\* Agents sign their pages when there are signatures to sign with.
Signed == IF Signatures = {} THEN {{}} ELSE {{s} : s \in Signatures}

\* A page that was never mirrored, or one mirrored and in step with Notion.
Init ==
    /\ \E b \in {{}} \cup {{l} : l \in Lines \ Directives} :
         \/ md = [EmptyDoc EXCEPT !.body = b] /\ notion = {}
         \/ \E s \in Signed :
              /\ md = [EmptyDoc EXCEPT !.body = b, !.page = TRUE, !.synced = {b},
                                       !.sig = s, !.pushed = s]
              /\ notion = {b}
    /\ rows = [r \in Rows |-> "none"]
    /\ pc = [p \in Procs |-> "idle"]
    /\ reg = [p \in Procs |-> Blank]
    /\ owed = {}
    /\ edits = 0
    /\ faults = 0

-----------------------------------------------------------------------------
(* Control *)

Quiet == Overlap \/ \A p \in Procs : pc[p] = "idle"

Goto(p, label) == pc' = [pc EXCEPT ![p] = label]

Call(p, force, ret) ==
    /\ pc' = [pc EXCEPT ![p] = "S_read"]
    /\ reg' = [reg EXCEPT ![p] = [Blank EXCEPT !.force = force, !.ret = ret,
                                               !.row = reg[p].row, !.todo = reg[p].todo]]

\* Leave for label, keeping only what conflict_apply still has to do.
Leave(p, label) ==
    /\ pc' = [pc EXCEPT ![p] = label]
    /\ reg' = [reg EXCEPT ![p] = [Blank EXCEPT !.row = IF label = "A_mark" THEN reg[p].row ELSE {},
                                               !.todo = reg[p].todo]]

Return(p) == Leave(p, reg[p].ret)

\* What the caller of sync_doc does with an exception: every agent of the
\* pass goes on to the next page or agent, conflict_apply without marking the
\* row; write_wiki_page swallows it.
Raise(p) == Leave(p, IF reg[p].ret = "A_mark" THEN "A_next" ELSE reg[p].ret)

Fault == faults < MaxFaults /\ faults' = faults + 1
NoFault == UNCHANGED faults

Edit == edits < MaxEdits /\ edits' = edits + 1

(***************************************************************************)
(* The history variable.  A line is owed to the author who typed it until  *)
(* someone drops it knowingly: an author deleting it, an agent reasserting *)
(* under a new factual signature, evidence or an admin deciding a conflict *)
(* against it, or the gate giving an agent's text up for a human's.  An    *)
(* update of an unsigned page replaces it and drops the rest too; one      *)
(* under the signature that was pushed last says nothing new, and drops    *)
(* no line that somebody typed, not even one pulled into the page.         *)
(***************************************************************************)
Authored(who, old, new) ==
    owed' = (owed \ (old \ new)) \cup (IF who \in Watched THEN new \ old ELSE {})

Added(who, old, new) == owed' = owed \cup (IF who \in Watched THEN new \ old ELSE {})

Dropped(lines) == owed' = owed \ lines

-----------------------------------------------------------------------------
(* NotionSync.sync_doc *)

\* Faulty variant: a forced push does not look at the sync label.
SyncRead_ForceIgnoresLabel(p) ==
    /\ pc[p] = "S_read"
    /\ LET skip == \/ md.local /\ ~reg[p].force
                   \/ md.page /\ ~reg[p].force /\ md.synced = {md.body}
           next == CASE ~md.page -> "S_discover"
                     [] md.page /\ reg[p].force -> "S_push"
                     [] OTHER -> "S_fetch"
       IN IF skip THEN Return(p)
          ELSE Goto(p, next) /\ reg' = [reg EXCEPT ![p].doc = md]
    /\ NoFault
    /\ UNCHANGED <<md, notion, rows, owed, edits>>

\* Reads the page; the signature gate only concerns unforced pushes.
SyncRead(p) ==
    /\ pc[p] = "S_read"
    /\ LET skip == \/ md.local
                   \/ md.page /\ ~reg[p].force /\ md.synced = {md.body}
           next == CASE ~md.page -> "S_discover"
                     [] md.page /\ reg[p].force -> "S_push"
                     [] OTHER -> "S_fetch"
       IN IF skip THEN Return(p)
          ELSE Goto(p, next) /\ reg' = [reg EXCEPT ![p].doc = md]
    /\ NoFault
    /\ UNCHANGED <<md, notion, rows, owed, edits>>

\* _discover finds a page by its title; a failed search counts as "not found".
SyncDiscover(p) ==
    /\ pc[p] = "S_discover"
    /\ \E found \in BOOLEAN :
         /\ found => notion # {}
         /\ IF notion # {} /\ ~found THEN Fault ELSE NoFault
         /\ CASE found /\ reg[p].force -> Goto(p, "S_push") /\ UNCHANGED reg
              [] found /\ ~reg[p].force -> Goto(p, "S_fetch") /\ UNCHANGED reg
              [] ~found /\ MirrorEnabled -> Goto(p, "S_create") /\ UNCHANGED reg
              [] OTHER -> Return(p)
    /\ UNCHANGED <<md, notion, rows, owed, edits>>

\* _fetch_notion_body gives None when the call fails.
SyncFetch(p) ==
    /\ pc[p] = "S_fetch"
    /\ \E seen \in {notion, {}} :
         /\ IF seen = notion THEN NoFault ELSE Fault
         /\ reg' = [reg EXCEPT ![p].seen = seen]
         /\ Goto(p, IF ShouldSkipPush(reg[p].doc, seen) THEN "S_override" ELSE "S_push")
    /\ UNCHANGED <<md, notion, rows, owed, edits>>

\* _apply_human_notion_body: the human's Notion text replaces the page.
SyncOverride(p) ==
    /\ pc[p] = "S_override"
    /\ LET doc == reg[p].doc
           human == UNION reg[p].seen
       IN /\ md' = [StampHumanOverride(doc) EXCEPT !.body = human, !.synced = {human}]
          /\ IF reg[p].seen # doc.synced THEN Dropped(doc.body \ human) ELSE UNCHANGED owed
    /\ Return(p)
    /\ NoFault
    /\ UNCHANGED <<notion, rows, edits>>

\* client.update_page, or create_page when no page was found.
SyncPush(p) ==
    /\ pc[p] \in {"S_push", "S_create"}
    /\ \/ /\ notion' = {reg[p].doc.body}
          /\ Goto(p, "S_stamp")
          /\ NoFault
          /\ UNCHANGED reg
       \/ /\ notion' \in {notion, {reg[p].doc.body}}   \* the call may time out after it took effect
          /\ Raise(p)
          /\ Fault
    /\ UNCHANGED <<md, rows, owed, edits>>

\* Writes the whole page back as it was read, with the new binding and baseline.
SyncStamp(p) ==
    /\ pc[p] = "S_stamp"
    /\ LET doc == reg[p].doc IN
       md' = [StampAgentPush(doc) EXCEPT !.page = TRUE, !.synced = {doc.body}]
    /\ Return(p)
    /\ NoFault
    /\ UNCHANGED <<notion, rows, owed, edits>>

SyncDoc(p) == \/ SyncRead(p) \/ SyncDiscover(p) \/ SyncFetch(p)
              \/ SyncOverride(p) \/ SyncPush(p) \/ SyncStamp(p)

-----------------------------------------------------------------------------
(* sync_pull: SyncPullAgent._sync_one *)

\* A pass starts here: notion_manager.run_once, from its poll loop.
PullRead ==
    /\ Quiet
    /\ pc[Manager] = "idle"
    /\ IF md.page /\ ~md.local
       THEN Goto(Manager, "P_fetch") /\ reg' = [reg EXCEPT ![Manager].doc = md]
       ELSE Goto(Manager, "D_read") /\ UNCHANGED reg
    /\ NoFault
    /\ UNCHANGED <<md, notion, rows, owed, edits>>

PullDecide ==
    /\ pc[Manager] = "P_fetch"
    /\ \E contiguous \in BOOLEAN :
       LET doc == reg[Manager].doc
           seen == UNION notion
           action == DecidePullPush(doc.body, seen, doc.synced, contiguous)
       IN \/ /\ NoFault
             /\ CASE action = "noop" -> Leave(Manager, "D_read")
                  [] action = "push" -> Call(Manager, FALSE, "D_read")
                  [] OTHER ->
                       /\ reg' = [reg EXCEPT ![Manager].seen = notion,
                             ![Manager].new = UNION TryCompatibleMerge(doc.body, seen, contiguous)]
                       /\ Goto(Manager, CASE action = "pull" -> "P_pull"
                                          [] action = "merge" -> "P_merge"
                                          [] OTHER -> "P_mark")
          \/ Fault /\ Leave(Manager, "D_read")
    /\ UNCHANGED <<md, notion, rows, owed, edits>>

\* _write_pulled
PullWrite ==
    /\ pc[Manager] = "P_pull"
    /\ LET body == UNION reg[Manager].seen IN
       md' = [StampHumanOverride(reg[Manager].doc) EXCEPT !.body = body, !.synced = {body}]
    /\ Leave(Manager, "D_read")
    /\ NoFault
    /\ UNCHANGED <<notion, rows, owed, edits>>

\* _write_body: the merged body is recorded as mirrored, and then force-pushed.
MergeWrite ==
    /\ pc[Manager] = "P_merge"
    /\ LET doc == reg[Manager].doc
           body == reg[Manager].new
       IN md' = [doc EXCEPT !.body = body, !.synced = {body}, !.conflict = FALSE]
    /\ Call(Manager, TRUE, "D_read")
    /\ NoFault
    /\ UNCHANGED <<notion, rows, owed, edits>>

ConflictMark ==
    /\ pc[Manager] = "P_mark"
    /\ md' = [MarkSyncConflict(reg[Manager].doc) EXCEPT !.stash = reg[Manager].seen]
    /\ Leave(Manager, "D_read")
    /\ NoFault
    /\ UNCHANGED <<notion, rows, owed, edits>>

SyncPull == PullRead \/ PullDecide \/ PullWrite \/ MergeWrite \/ ConflictMark

-----------------------------------------------------------------------------
(* wiki_directive: fill the page and strip its @wiki lines (moves: not here) *)

DirectiveRead ==
    /\ pc[Manager] = "D_read"
    /\ IF md.body \cap Directives = {}
       THEN Goto(Manager, "R_read") /\ UNCHANGED reg
       ELSE Goto(Manager, "D_write") /\ reg' = [reg EXCEPT ![Manager].doc = md]
    /\ NoFault
    /\ UNCHANGED <<md, notion, rows, owed, edits>>

\* No line, or a line of the agent's own.
AddedLine == {{}} \cup {{l} : l \in Lines \ Directives}

\* Faulty variant: the instruction is carried out and left in the page.
DirectiveWrite_Unstripped ==
    /\ pc[Manager] = "D_write"
    /\ \E fill \in AddedLine :
         LET doc == reg[Manager].doc
             body == doc.body \cup fill
         IN /\ md' = [doc EXCEPT !.body = body, !.synced = {body}]
            /\ Authored("agent", doc.body, body)
    /\ Call(Manager, FALSE, "R_read")
    /\ NoFault
    /\ UNCHANGED <<notion, rows, edits>>

\* The filled body is recorded as mirrored before the unforced sync_doc.  The
\* heading a page may get after that is no line: body_hash leaves it out.
DirectiveWrite ==
    /\ pc[Manager] = "D_write"
    /\ \E fill \in AddedLine :
         LET doc == reg[Manager].doc
             body == (doc.body \ Directives) \cup fill
         IN /\ md' = [doc EXCEPT !.body = body, !.synced = {body}]
            /\ Authored("agent", doc.body, body)
    /\ Call(Manager, FALSE, "R_read")
    /\ NoFault
    /\ UNCHANGED <<notion, rows, edits>>

WikiDirective == DirectiveRead \/ DirectiveWrite

-----------------------------------------------------------------------------
(* conflict_resolution: ConflictResolutionAgent.run and _handle *)

ResolutionRead ==
    /\ pc[Manager] = "R_read"
    /\ IF md.conflict
       THEN Goto(Manager, "R_fetch") /\ reg' = [reg EXCEPT ![Manager].doc = md]
       ELSE Goto(Manager, "A_query") /\ UNCHANGED reg
    /\ NoFault
    /\ UNCHANGED <<md, notion, rows, owed, edits>>

\* Compares both bodies with the rest of the wiki.  Without a page id, or when
\* the fetch fails, the stash stands in for Notion's body.
ResolutionFetch ==
    /\ pc[Manager] = "R_fetch"
    /\ \E live \in BOOLEAN, winner \in Evidence \cup {"unclear"} :
         LET doc == reg[Manager].doc
             body == IF live THEN UNION notion ELSE UNION doc.stash
             wins == \/ winner = "md" /\ doc.body # {}
                     \/ winner = "notion" /\ body # {}
         IN /\ live => doc.page
            /\ IF doc.page /\ ~live THEN Fault ELSE NoFault
            /\ CASE wins -> /\ Goto(Manager, "R_apply")
                            /\ reg' = [reg EXCEPT ![Manager].seen = {body},
                                         ![Manager].new = IF winner = "md" THEN doc.body ELSE body]
                 [] ~wins /\ ~doc.enqueued -> /\ Goto(Manager, "R_escalate")
                                              /\ reg' = [reg EXCEPT ![Manager].seen = {body}]
                 [] OTHER -> Leave(Manager, "A_query")
    /\ UNCHANGED <<md, notion, rows, owed, edits>>

\* Faulty variant: the page stays marked as enqueued.
Settle_StillEnqueued(doc, body) ==
    [doc EXCEPT !.body = body, !.synced = {body}, !.conflict = FALSE, !.stash = {}]

\* The winner is recorded as mirrored, and then force-pushed.
Settle(doc, body) ==
    [doc EXCEPT !.body = body, !.synced = {body}, !.conflict = FALSE,
                !.enqueued = FALSE, !.stash = {}]

ResolutionApply ==
    /\ pc[Manager] = "R_apply"
    /\ LET doc == reg[Manager].doc IN
       /\ md' = Settle(doc, reg[Manager].new)
       /\ Dropped((doc.body \cup UNION reg[Manager].seen) \ reg[Manager].new)
    /\ Call(Manager, TRUE, "A_query")
    /\ NoFault
    /\ UNCHANGED <<notion, rows, edits>>

\* Faulty variant: the page is not marked as enqueued.
Escalate_Unmarked ==
    /\ pc[Manager] = "R_escalate"
    /\ md' = [reg[Manager].doc EXCEPT !.stash = reg[Manager].seen]
    /\ Goto(Manager, "R_row")
    /\ NoFault
    /\ UNCHANGED <<notion, rows, reg, owed, edits>>

Escalate ==
    /\ pc[Manager] = "R_escalate"
    /\ md' = [reg[Manager].doc EXCEPT !.enqueued = TRUE, !.stash = reg[Manager].seen]
    /\ Goto(Manager, "R_row")
    /\ NoFault
    /\ UNCHANGED <<notion, rows, reg, owed, edits>>

\* Nobody reads an applied row again, so Rows holds the rows that still matter.
Free(r) == rows[r] \in {"none", "applied"}

\* create_conflict_row raises when the API call fails; the pass goes on.
CreateRow ==
    /\ pc[Manager] = "R_row"
    /\ \/ /\ \E r \in Rows : Free(r) /\ rows' = [rows EXCEPT ![r] = "open"]
          /\ NoFault
       \/ Fault /\ UNCHANGED rows
    /\ Leave(Manager, "A_query")
    /\ UNCHANGED <<md, notion, owed, edits>>

ConflictResolution ==
    ResolutionRead \/ ResolutionFetch \/ ResolutionApply \/ Escalate \/ CreateRow

-----------------------------------------------------------------------------
(* conflict_apply: ConflictApplyAgent.run and _apply_row *)

QueryRows ==
    /\ pc[Manager] = "A_query"
    /\ \/ /\ reg' = [reg EXCEPT ![Manager].todo = {x \in Rows \X Resolved : rows[x[1]] = x[2]}]
          /\ Goto(Manager, "A_next")
          /\ NoFault
       \/ Fault /\ Leave(Manager, "idle")
    /\ UNCHANGED <<md, notion, rows, owed, edits>>

\* Takes the next row, all resolved_md rows first, and reads the page.
NextRow ==
    /\ pc[Manager] = "A_next"
    /\ LET todo == reg[Manager].todo
           first == {x \in todo : x[2] = "resolved_md"}
           body(x) == IF x[2] = "resolved_md" THEN md.body ELSE UNION md.stash
       IN \/ /\ todo = {}
             /\ Leave(Manager, "idle")
          \/ \E x \in IF first # {} THEN first ELSE todo :
               /\ reg' = [reg EXCEPT ![Manager].doc = md,
                                     ![Manager].row = {x},
                                     ![Manager].new = body(x),
                                     ![Manager].todo = todo \ {x}]
               /\ Goto(Manager, IF x[2] = "resolved_notion" /\ body(x) = {}
                                THEN "A_fetch" ELSE "A_write")
    /\ NoFault
    /\ UNCHANGED <<md, notion, rows, owed, edits>>

\* No stashed body: read Notion's.  Give the row up when there is none either.
ApplyFetch ==
    /\ pc[Manager] = "A_fetch"
    /\ LET body == IF reg[Manager].doc.page THEN UNION notion ELSE {} IN
       \/ /\ body # {}
          /\ reg' = [reg EXCEPT ![Manager].new = body]
          /\ Goto(Manager, "A_write")
          /\ NoFault
       \/ /\ body = {}
          /\ Leave(Manager, "A_next")
          /\ NoFault
       \/ Fault /\ Leave(Manager, "A_next")
    /\ UNCHANGED <<md, notion, rows, owed, edits>>

\* Faulty variant: the push is not forced, after synced_hash was set already.
ApplyWrite_Unforced ==
    /\ pc[Manager] = "A_write"
    /\ LET doc == reg[Manager].doc
           body == reg[Manager].new
       IN /\ md' = Settle(doc, body)
          /\ IF doc.conflict THEN Dropped((doc.body \cup UNION doc.stash) \ body)
                             ELSE UNCHANGED owed
    /\ Call(Manager, FALSE, "A_mark")
    /\ NoFault
    /\ UNCHANGED <<notion, rows, edits>>

\* Applies the row whatever the page's sync_conflict says.
ApplyWrite ==
    /\ pc[Manager] = "A_write"
    /\ LET doc == reg[Manager].doc
           body == reg[Manager].new
       IN /\ md' = Settle(doc, body)
          /\ IF doc.conflict THEN Dropped((doc.body \cup UNION doc.stash) \ body)
                             ELSE UNCHANGED owed
    /\ Call(Manager, TRUE, "A_mark")
    /\ NoFault
    /\ UNCHANGED <<notion, rows, edits>>

MarkApplied ==
    /\ pc[Manager] = "A_mark"
    /\ \/ /\ \E x \in reg[Manager].row : rows' = [rows EXCEPT ![x[1]] = "applied"]
          /\ NoFault
       \/ Fault /\ UNCHANGED rows
    /\ Leave(Manager, "A_next")
    /\ UNCHANGED <<md, notion, owed, edits>>

ConflictApply == QueryRows \/ NextRow \/ ApplyFetch \/ ApplyWrite \/ MarkApplied

-----------------------------------------------------------------------------
(* Writers: write_wiki_page and sync_all *)

\* write_wiki_page reads the frontmatter; an update brings its own body.
WriteStart(w) ==
    /\ Quiet
    /\ pc[w] = "idle"
    /\ Edit
    /\ \/ /\ "update" \in Modes
          /\ \E body \in Body, s \in Signed :
               reg' = [reg EXCEPT ![w].doc = [md EXCEPT !.sig = IF s # {} THEN s ELSE @],
                                  ![w].new = body]
          /\ Goto(w, "W_write")
       \/ /\ "append" \in Modes
          /\ \E l \in Lines \ Directives :
               reg' = [reg EXCEPT ![w].doc = md, ![w].new = {l}]
          /\ Goto(w, "W_prepend")
    /\ NoFault
    /\ UNCHANGED <<md, notion, rows, owed>>

\* _prepend_section reads the store a second time.
WritePrepend(w) ==
    /\ pc[w] = "W_prepend"
    /\ reg' = [reg EXCEPT ![w].new = @ \cup md.body]
    /\ Goto(w, "W_write")
    /\ NoFault
    /\ UNCHANGED <<md, notion, rows, owed, edits>>

\* A page signed anew reasserts: its author means to drop everything else.
WriteStore(w) ==
    /\ pc[w] = "W_write"
    /\ LET doc == reg[w].doc
           body == reg[w].new
       IN /\ md' = [doc EXCEPT !.body = body]
          /\ CASE doc.sig = {} -> Authored("agent", md.body, body)
               [] doc.sig # {} /\ doc.sig = doc.pushed -> Added("agent", md.body, body)
               [] OTHER -> Dropped(Lines \ body)
    /\ \E sync \in SyncFlags : IF sync THEN Call(w, FALSE, "idle") ELSE Leave(w, "idle")
    /\ NoFault
    /\ UNCHANGED <<notion, rows, edits>>

\* The end of an absorb pass: sync_doc on every page.
SyncAll(w) ==
    /\ Quiet
    /\ pc[w] = "idle"
    /\ "sync_all" \in Modes
    /\ Edit
    /\ Call(w, FALSE, "idle")
    /\ NoFault
    /\ UNCHANGED <<md, notion, rows, owed>>

Writer(w) == WritePrepend(w) \/ WriteStore(w)

-----------------------------------------------------------------------------
(* People, and the death of a process *)

EditsOf(b) == IF Additive THEN {b \cup {l} : l \in Lines} ELSE Body

\* An editor, or the absorb writer's Edit tool, saves the Markdown file.
EditMarkdown ==
    /\ Quiet
    /\ Edit
    /\ "md" \in Editors
    /\ \E b \in EditsOf(md.body) : md' = [md EXCEPT !.body = b] /\ Authored("md", md.body, b)
    /\ UNCHANGED <<notion, rows, pc, reg, faults>>

EditNotion ==
    /\ Quiet
    /\ Edit
    /\ "notion" \in Editors
    /\ \E old \in notion : \E b \in EditsOf(old) : notion' = {b} /\ Authored("notion", old, b)
    /\ UNCHANGED <<md, rows, pc, reg, faults>>

\* The page is given another sync label, or another section.
Relabel ==
    /\ Quiet
    /\ Edit
    /\ \E l \in Labels : md' = [md EXCEPT !.local = l]
    /\ UNCHANGED <<notion, rows, pc, reg, owed, faults>>

AdminResolve ==
    /\ Quiet
    /\ \E r \in Rows, c \in Choices : rows[r] = "open" /\ rows' = [rows EXCEPT ![r] = c]
    /\ UNCHANGED <<md, notion, pc, reg, owed, edits, faults>>

Crash(p) ==
    /\ pc[p] # "idle"
    /\ Fault
    /\ Goto(p, "idle")
    /\ reg' = [reg EXCEPT ![p] = Blank]
    /\ UNCHANGED <<md, notion, rows, owed, edits>>

-----------------------------------------------------------------------------
Pass == SyncPull \/ WikiDirective \/ ConflictResolution \/ ConflictApply \/ SyncDoc(Manager)

WriterStep(w) == Writer(w) \/ SyncDoc(w)

Next ==
    \/ Pass
    \/ \E w \in Writers : WriteStart(w) \/ SyncAll(w) \/ WriterStep(w)
    \/ EditMarkdown \/ EditNotion \/ Relabel \/ AdminResolve
    \/ \E p \in Procs : Crash(p)

\* The manager polls for ever; a writer that has started goes on; the admin
\* gets round to every open row, whose button is there again after each pass.
Fairness ==
    /\ WF_vars(Pass)
    /\ \A w \in Writers : WF_vars(WriterStep(w))
    /\ SF_vars(AdminResolve)

Spec == Init /\ [][Next]_vars /\ Fairness

-----------------------------------------------------------------------------
(* Properties *)

\* What somebody typed is still in the Markdown file, on the Notion page or in
\* the stash of an open conflict, until somebody drops it knowingly: neither
\* the pull / push / merge decision nor the signature gate throws it away.
NoLineLost == owed \subseteq md.body \cup UNION notion \cup UNION md.stash

\* The "write log + DB row once" of conflict_resolution: however often passes
\* repeat, the admin is not asked twice about the same page at one time, but for
\* a row that a failure kept conflict_apply from closing.
OneRowAtATime == Cardinality({r \in Rows : ~Free(r)}) <= 1 + faults

\* When conflict_apply marks a row applied, the decision is in force on both
\* sides: the page has no conflict left and Notion shows the Markdown body.
AppliedMeansMirrored ==
    [][(rows' # rows /\ pc[Manager] = "A_mark" /\ md.page /\ ~md.local)
          => notion = {md.body} /\ ~md.conflict]_vars

\* Once edits and faults have stopped, a bound page is in step with Notion or
\* marked as a conflict, and stays so.
Converges ==
    <>[](md.page /\ ~md.local => notion = {md.body} \/ md.conflict)

\* An admin who settles every row sees every conflict go away.
ConflictsSettle == md.conflict ~> ~md.conflict

\* A page labelled not_synced, or in an admin-only section, is not mirrored, not
\* even by the forced pushes that settle a conflict: from then on only people
\* change what Notion shows.
LocalPageNotPushed ==
    [][(md.local /\ notion' # notion) => edits' # edits]_vars

\* An @wiki instruction in the Markdown page is carried out and stripped.
DirectiveHandled ==
    (md.body \cap Directives # {}) ~> (md.body \cap Directives = {})

=============================================================================
