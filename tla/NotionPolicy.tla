---------------------------- MODULE NotionPolicy ----------------------------
(***************************************************************************)
(* The pure part of the wiki <-> Notion mirror: company_brain/notion/      *)
(* sync_policy.py.  A page body is the set of Lines it holds.  Two bodies  *)
(* have the same hash exactly when their normalised texts are equal, so a  *)
(* hash is represented by the body it was taken from.                      *)
(*                                                                         *)
(* An optional value is a set of at most one element: {} where the code    *)
(* has None or a missing frontmatter key.  For a body, UNION m is the      *)
(* idiom  str(x or "").                                                    *)
(***************************************************************************)
CONSTANTS
    Lines,        \* what a page can say
    Directives,   \* the lines that are plain-text "@wiki" instructions
    Signatures    \* factual signatures an agent can stamp on its page

ASSUME DirectivesAssumption == Directives \subseteq Lines

Body == SUBSET Lines

Maybe(S) == {{}} \cup {{x} : x \in S}

\* A page file: its body and the frontmatter keys the mirror reads or writes.
Doc == [body     : Body,
        page     : BOOLEAN,            \* notion_page_id is set
        synced   : Maybe(Body),        \* synced_hash
        sig      : Maybe(Signatures),  \* agent_signature
        pushed   : Maybe(Signatures),  \* pushed_agent_signature
        local    : BOOLEAN,            \* sync: not_synced, or an admin-only section
        conflict : BOOLEAN,            \* sync_conflict
        enqueued : BOOLEAN,            \* conflict_enqueued
        stash    : Maybe(Body)]        \* conflict_notion_body

Actions == {"noop", "pull", "push", "merge", "conflict"}

-----------------------------------------------------------------------------
\* The substring test of try_compatible_merge: all the lines of a are in b, and,
\* when there are several, they stand next to each other there.
Contains(b, a, contiguous) ==
    a \subseteq b /\ (contiguous \/ \A x, y \in a : x = y)

\* The merged body as an optional value: one side when it contains the other.
TryCompatibleMerge(m, n, contiguous) ==
    CASE Contains(m, n, contiguous) -> {m}
      [] ~Contains(m, n, contiguous) /\ Contains(n, m, contiguous) -> {n}
      [] OTHER -> {}

\* Faulty variant: Notion wins whenever the bodies differ.
DecidePullPush_NotionWins(m, n, synced, contiguous) ==
    IF m = n THEN "noop" ELSE "pull"

\* Faulty variant: the Markdown side is never pushed.
DecidePullPush_NeverPush(m, n, synced, contiguous) ==
    LET merged == TryCompatibleMerge(m, n, contiguous) IN
    CASE m = n -> "noop"
      [] m # n /\ synced = {m} -> "pull"
      [] m # n /\ synced # {m} /\ merged = {} -> "conflict"
      [] OTHER -> "noop"

\* decide_pull_push: bodies m and n against the baseline recorded at the last mirror.
DecidePullPush(m, n, synced, contiguous) ==
    LET merged == TryCompatibleMerge(m, n, contiguous) IN
    CASE m = n -> "noop"
      [] m # n /\ synced = {} -> IF merged = {} THEN "conflict"
                                 ELSE IF merged = {n} THEN "pull" ELSE "push"
      [] m # n /\ synced = {m} -> "pull"
      [] m # n /\ synced = {n} -> "push"
      [] OTHER -> IF merged = {} THEN "conflict" ELSE "merge"

\* Faulty variant: the comparison of the two signatures is the wrong way round.
ShouldSkipPush_NewSignature(doc, seen) ==
    /\ doc.sig # {}
    /\ UNION seen # {}
    /\ doc.pushed # doc.sig
    /\ seen # {doc.body}

\* The gate reads an empty Notion body as a missing one ("not notion_body").
ShouldSkipPush(doc, seen) ==
    /\ doc.sig # {}
    /\ UNION seen # {}
    /\ doc.pushed = doc.sig
    /\ seen # {doc.body}

StampHumanOverride(doc) == [doc EXCEPT !.conflict = FALSE]

\* stamp_agent_push leaves conflict_enqueued and conflict_notion_body alone.
StampAgentPush(doc) ==
    [doc EXCEPT !.pushed = IF doc.sig # {} THEN doc.sig ELSE @,
                !.conflict = FALSE]

MarkSyncConflict(doc) == [doc EXCEPT !.conflict = TRUE]

=============================================================================
