-------------------------- MODULE NotionSyncProofs --------------------------
(***************************************************************************)
(* What holds of NotionSync for any page, any number of writers and rows,  *)
(* and any bounds.                                                         *)
(***************************************************************************)
EXTENDS NotionSync, FiniteSetTheorems, TLAPS

-----------------------------------------------------------------------------
(* The decision and the stamps of NotionPolicy *)

\* decide_pull_push drops only text that was mirrored before: a pull loses
\* nothing of Markdown, and a push nothing of Notion, that the baseline does not
\* hold as a whole; a merge keeps both sides.
THEOREM DecisionDropsOnlyMirrored ==
    ASSUME NEW m \in Body, NEW n \in Body, NEW synced \in Maybe(Body), NEW contiguous \in BOOLEAN
    PROVE  LET action == DecidePullPush(m, n, synced, contiguous)
               merged == UNION TryCompatibleMerge(m, n, contiguous)
           IN /\ action \in Actions
              /\ action = "noop" <=> m = n
              /\ action = "pull" => m \subseteq n \/ synced = {m}
              /\ action = "push" => n \subseteq m \/ synced = {n}
              /\ action = "merge" => m \cup n = merged
<1> DEFINE action == DecidePullPush(m, n, synced, contiguous)
           candidates == TryCompatibleMerge(m, n, contiguous)
<1>1. /\ action \in Actions
      /\ action = "noop" <=> m = n
      /\ action = "merge" => candidates # {}
  BY DEF DecidePullPush, Actions
<1>2. candidates \in {{m}, {n}, {}} /\ (candidates = {m} => n \subseteq m)
      /\ (candidates = {n} => m \subseteq n)
  BY DEF TryCompatibleMerge, Contains
<1>3. /\ action = "pull" => m \subseteq n \/ synced = {m}
      /\ action = "push" => n \subseteq m \/ synced = {n}
  BY <1>2 DEF DecidePullPush
<1>4. action = "merge" => m \cup n = UNION candidates
  <2>1. CASE candidates = {m}
    BY <1>2, <2>1
  <2>2. CASE candidates = {n}
    BY <1>2, <2>2
  <2>3. QED
    BY <1>1, <1>2, <2>1, <2>2
<1>5. QED
  BY <1>1, <1>3, <1>4

\* The stamps keep a page file well formed, and none of them touches its body.
LEMMA StampsAreDocs ==
    ASSUME NEW doc \in Doc
    PROVE  /\ StampHumanOverride(doc) \in Doc /\ StampHumanOverride(doc).body = doc.body
           /\ StampAgentPush(doc) \in Doc /\ StampAgentPush(doc).body = doc.body
           /\ MarkSyncConflict(doc) \in Doc /\ MarkSyncConflict(doc).body = doc.body
BY DEF StampHumanOverride, StampAgentPush, MarkSyncConflict, Doc

-----------------------------------------------------------------------------
(* The values the helpers build *)

RetLabels == {"idle", "D_read", "R_read", "A_query", "A_mark"}

LEMMA EmptyDocTyped == EmptyDoc \in Doc
  BY DEF EmptyDoc, Doc, Maybe, Body

LEMMA BlankTyped == Blank \in Reg
  BY EmptyDocTyped DEF Blank, Reg, Maybe, Body

\* The fields of a document read from the store.
LEMMA DocFields ==
  ASSUME NEW d \in Doc
  PROVE  /\ d.body \in Body /\ d.page \in BOOLEAN /\ d.synced \in Maybe(Body)
         /\ d.sig \in Maybe(Signatures) /\ d.pushed \in Maybe(Signatures)
         /\ d.local \in BOOLEAN /\ d.conflict \in BOOLEAN /\ d.enqueued \in BOOLEAN
         /\ d.stash \in Maybe(Body)
  BY DEF Doc

LEMMA MaybeBody ==
  ASSUME NEW m \in Maybe(Body)
  PROVE  UNION m \in Body
  BY DEF Maybe, Body

LEMMA JustBody ==
  ASSUME NEW b \in Body
  PROVE  {b} \in Maybe(Body)
  BY DEF Maybe

LEMMA RegFields ==
  ASSUME TypeOK, NEW p \in Procs
  PROVE  /\ reg[p] \in Reg
         /\ reg[p].doc \in Doc /\ reg[p].seen \in Maybe(Body) /\ reg[p].new \in Body
         /\ reg[p].force \in BOOLEAN /\ reg[p].ret \in RetLabels
         /\ reg[p].row \in Maybe(Rows \X Resolved)
         /\ reg[p].todo \in SUBSET (Rows \X Resolved)
  BY DEF TypeOK, Reg, RetLabels

LEMMA GotoTyped ==
  ASSUME TypeOK, NEW p \in Procs, NEW label \in PcLabels, Goto(p, label)
  PROVE  pc' \in [Procs -> PcLabels]
  BY DEF TypeOK, Goto

LEMMA CallTyped ==
  ASSUME TypeOK, NEW p \in Procs, NEW force \in BOOLEAN, NEW ret \in RetLabels,
         Call(p, force, ret)
  PROVE  pc' \in [Procs -> PcLabels] /\ reg' \in [Procs -> Reg]
<1> DEFINE r == [Blank EXCEPT !.force = force, !.ret = ret,
                              !.row = reg[p].row, !.todo = reg[p].todo]
<1>1. r \in Reg
  BY BlankTyped, RegFields DEF Reg, RetLabels
<1>2. reg' = [reg EXCEPT ![p] = r]
  BY DEF Call
<1>3. reg' \in [Procs -> Reg]
  <2> HIDE DEF r
  <2> QED BY <1>1, <1>2 DEF TypeOK
<1>4. pc' \in [Procs -> PcLabels]
  BY DEF TypeOK, Call, PcLabels, SyncLabels
<1> QED BY <1>3, <1>4

LEMMA LeaveTyped ==
  ASSUME TypeOK, NEW p \in Procs, NEW label \in PcLabels, Leave(p, label)
  PROVE  pc' \in [Procs -> PcLabels] /\ reg' \in [Procs -> Reg]
<1> DEFINE row == IF label = "A_mark" THEN reg[p].row ELSE {}
           r == [Blank EXCEPT !.row = row, !.todo = reg[p].todo]
<1>1. row \in Maybe(Rows \X Resolved)
  BY RegFields DEF Maybe
<1>2. r \in Reg
  <2> HIDE DEF row
  <2> QED BY BlankTyped, RegFields, <1>1 DEF Reg
<1>3. reg' = [reg EXCEPT ![p] = r]
  BY DEF Leave
<1>4. reg' \in [Procs -> Reg]
  <2> HIDE DEF r
  <2> QED BY <1>2, <1>3 DEF TypeOK
<1>5. pc' \in [Procs -> PcLabels]
  BY DEF TypeOK, Leave
<1> QED BY <1>4, <1>5

LEMMA RetIsLabel == RetLabels \subseteq PcLabels
  BY DEF RetLabels, PcLabels, SyncLabels, PassLabels

LEMMA ReturnTyped ==
  ASSUME TypeOK, NEW p \in Procs, Return(p)
  PROVE  pc' \in [Procs -> PcLabels] /\ reg' \in [Procs -> Reg]
<1>1. reg[p].ret \in PcLabels
  BY RegFields, RetIsLabel
<1> QED BY <1>1, LeaveTyped DEF Return

LEMMA RaiseTyped ==
  ASSUME TypeOK, NEW p \in Procs, Raise(p)
  PROVE  pc' \in [Procs -> PcLabels] /\ reg' \in [Procs -> Reg]
<1> DEFINE label == IF reg[p].ret = "A_mark" THEN "A_next" ELSE reg[p].ret
<1>1. label \in PcLabels
  BY RegFields, RetIsLabel DEF PcLabels, PassLabels
<1>2. Leave(p, label)
  BY DEF Raise
<1> HIDE DEF label
<1> QED BY <1>1, <1>2, LeaveTyped

\* The local variables that change one at a time.
LEMMA SetDoc ==
  ASSUME TypeOK, NEW p \in Procs, NEW d \in Doc, reg' = [reg EXCEPT ![p].doc = d]
  PROVE  reg' \in [Procs -> Reg]
<1>1. [reg[p] EXCEPT !.doc = d] \in Reg
  BY RegFields DEF Reg
<1> QED BY <1>1 DEF TypeOK

LEMMA SetSeen ==
  ASSUME TypeOK, NEW p \in Procs, NEW s \in Maybe(Body), reg' = [reg EXCEPT ![p].seen = s]
  PROVE  reg' \in [Procs -> Reg]
<1>1. [reg[p] EXCEPT !.seen = s] \in Reg
  BY RegFields DEF Reg
<1> QED BY <1>1 DEF TypeOK

LEMMA SetNew ==
  ASSUME TypeOK, NEW p \in Procs, NEW b \in Body, reg' = [reg EXCEPT ![p].new = b]
  PROVE  reg' \in [Procs -> Reg]
<1>1. [reg[p] EXCEPT !.new = b] \in Reg
  BY RegFields DEF Reg
<1> QED BY <1>1 DEF TypeOK

LEMMA FaultTyped ==
  ASSUME TypeOK, Fault \/ NoFault
  PROVE  faults' \in 0..MaxFaults
  BY BoundsAssumption DEF TypeOK, Fault, NoFault

LEMMA EditTyped ==
  ASSUME TypeOK, Edit
  PROVE  edits' \in 0..MaxEdits
  BY BoundsAssumption DEF TypeOK, Edit

LEMMA AuthoredTyped ==
  ASSUME TypeOK, NEW who, NEW old \in Body, NEW new \in Body, Authored(who, old, new)
  PROVE  owed' \in Body
  BY DEF TypeOK, Authored, Body

LEMMA AddedTyped ==
  ASSUME TypeOK, NEW who, NEW old \in Body, NEW new \in Body, Added(who, old, new)
  PROVE  owed' \in Body
  BY DEF TypeOK, Added, Body

LEMMA DroppedTyped ==
  ASSUME TypeOK, NEW lines, Dropped(lines)
  PROVE  owed' \in Body
  BY DEF TypeOK, Dropped, Body

-----------------------------------------------------------------------------
(* Every action keeps the types *)

\* What the helpers of an action leave to prove of it.
LEMMA Unchanged ==
  ASSUME TypeOK, UNCHANGED <<md, notion, rows, owed, edits>>, Fault \/ NoFault,
         pc' \in [Procs -> PcLabels], reg' \in [Procs -> Reg]
  PROVE  TypeOK'
  BY FaultTyped DEF TypeOK

LEMMA StoreTyped ==
  ASSUME TypeOK, md' \in Doc, UNCHANGED <<notion, rows, edits>>, owed' \in Body,
         Fault \/ NoFault, pc' \in [Procs -> PcLabels], reg' \in [Procs -> Reg]
  PROVE  TypeOK'
  BY FaultTyped DEF TypeOK

LEMMA SyncDocTyped ==
  ASSUME TypeOK, NEW p \in Procs, SyncDoc(p)
  PROVE  TypeOK'
<1> USE DEF PcLabels, SyncLabels
<1>1. CASE SyncRead(p)
  <2>1. CASE Return(p)
    BY <1>1, <2>1, ReturnTyped, Unchanged DEF SyncRead
  <2>2. CASE ~Return(p)
    <3>1. reg' = [reg EXCEPT ![p].doc = md]
      BY <1>1, <2>2 DEF SyncRead
    <3>2. reg' \in [Procs -> Reg]
      BY <3>1, SetDoc DEF TypeOK
    <3>3. \/ Goto(p, "S_discover")
          \/ Goto(p, "S_push")
          \/ Goto(p, "S_fetch")
      BY <1>1, <2>2, Zenon DEF SyncRead
    <3>4. pc' \in [Procs -> PcLabels]
      BY <3>3, GotoTyped
    <3> QED BY <1>1, <3>2, <3>4, Unchanged DEF SyncRead
  <2> QED BY <2>1, <2>2
<1>2. CASE SyncDiscover(p)
  <2>1. Fault \/ NoFault
    BY <1>2 DEF SyncDiscover
  <2>2. \/ Goto(p, "S_push") /\ UNCHANGED reg
        \/ Goto(p, "S_fetch") /\ UNCHANGED reg
        \/ Goto(p, "S_create") /\ UNCHANGED reg
        \/ Return(p)
    BY <1>2, Zenon DEF SyncDiscover
  <2>3. pc' \in [Procs -> PcLabels] /\ reg' \in [Procs -> Reg]
    BY <2>2, GotoTyped, ReturnTyped DEF TypeOK
  <2> QED BY <1>2, <2>1, <2>3, Unchanged DEF SyncDiscover
<1>3. CASE SyncFetch(p)
  <2>1. PICK seen \in {notion, {}} :
          /\ IF seen = notion THEN NoFault ELSE Fault
          /\ reg' = [reg EXCEPT ![p].seen = seen]
          /\ Goto(p, IF ShouldSkipPush(reg[p].doc, seen) THEN "S_override" ELSE "S_push")
    BY <1>3 DEF SyncFetch
  <2>2. seen \in Maybe(Body)
    BY DEF TypeOK, Maybe
  <2>3. reg' \in [Procs -> Reg]
    BY <2>1, <2>2, SetSeen
  <2>4. Goto(p, "S_override") \/ Goto(p, "S_push")
    BY <2>1
  <2>5. pc' \in [Procs -> PcLabels]
    BY <2>4, GotoTyped
  <2> QED BY <1>3, <2>1, <2>3, <2>5, Unchanged DEF SyncFetch
<1>4. CASE SyncOverride(p)
  <2>1. UNION reg[p].seen \in Body
    BY RegFields, MaybeBody
  <2>2. md' \in Doc
    BY <1>4, <2>1, RegFields, JustBody DEF SyncOverride, StampHumanOverride, Doc
  <2>3. owed' \in Body
    BY <1>4, DroppedTyped DEF SyncOverride, TypeOK
  <2> QED BY <1>4, <2>2, <2>3, ReturnTyped, StoreTyped DEF SyncOverride
<1>5. CASE SyncPush(p)
  <2>1. reg[p].doc.body \in Body
    BY RegFields, DocFields
  <2>2. notion' \in Maybe(Body)
    BY <1>5, <2>1, JustBody DEF SyncPush, TypeOK
  <2>3. pc' \in [Procs -> PcLabels] /\ reg' \in [Procs -> Reg]
    BY <1>5, GotoTyped, RaiseTyped DEF SyncPush, TypeOK
  <2> QED BY <1>5, <2>2, <2>3, FaultTyped DEF SyncPush, TypeOK
<1>6. CASE SyncStamp(p)
  <2>1. reg[p].doc.body \in Body
    BY RegFields, DocFields
  <2>2. md' \in Doc
    BY <1>6, <2>1, RegFields, JustBody DEF SyncStamp, StampAgentPush, Doc
  <2> QED BY <1>6, <2>2, ReturnTyped, StoreTyped DEF SyncStamp, TypeOK
<1> QED BY <1>1, <1>2, <1>3, <1>4, <1>5, <1>6 DEF SyncDoc

LEMMA MergeTyped ==
  ASSUME NEW m \in Body, NEW n \in Body, NEW contiguous \in BOOLEAN
  PROVE  TryCompatibleMerge(m, n, contiguous) \in Maybe(Body)
  BY Zenon DEF TryCompatibleMerge, Maybe

LEMMA SyncPullTyped ==
  ASSUME TypeOK, SyncPull
  PROVE  TypeOK'
<1> DEFINE p == Manager
<1>0. p \in Procs
  BY DEF Procs
<1> USE <1>0 DEF PcLabels, PassLabels
<1> HIDE DEF p
<1>r. /\ reg[p].doc \in Doc /\ reg[p].new \in Body
      /\ UNION reg[p].seen \in Body /\ UNION notion \in Body
  BY RegFields, MaybeBody DEF TypeOK
<1>1. CASE PullRead
  <2>1. pc' \in [Procs -> PcLabels]
    BY <1>1, GotoTyped DEF PullRead, p
  <2>2. reg' \in [Procs -> Reg]
    BY <1>1, SetDoc DEF PullRead, TypeOK, p
  <2> QED BY <1>1, <2>1, <2>2, Unchanged DEF PullRead
<1>2. CASE PullDecide
  <2>1. PICK contiguous \in BOOLEAN :
          \/ Leave(p, "D_read") /\ (Fault \/ NoFault)
          \/ Call(p, FALSE, "D_read") /\ NoFault
          \/ /\ NoFault
             /\ reg' = [reg EXCEPT ![p].seen = notion,
                          ![p].new = UNION TryCompatibleMerge(reg[p].doc.body, UNION notion, contiguous)]
             /\ \/ Goto(p, "P_pull")
                \/ Goto(p, "P_merge")
                \/ Goto(p, "P_mark")
    BY <1>2, Zenon DEF PullDecide, p
  <2>2. CASE Leave(p, "D_read")
    BY <1>2, <2>1, <2>2, LeaveTyped, Unchanged DEF PullDecide
  <2>3. CASE Call(p, FALSE, "D_read")
    BY <1>2, <2>1, <2>3, CallTyped, Unchanged DEF PullDecide, RetLabels
  <2>4. CASE ~Leave(p, "D_read") /\ ~Call(p, FALSE, "D_read")
    <3> DEFINE b == UNION TryCompatibleMerge(reg[p].doc.body, UNION notion, contiguous)
    <3>1. b \in Body
      BY <1>r, DocFields, MergeTyped, MaybeBody
    <3>2. reg' = [reg EXCEPT ![p].seen = notion, ![p].new = b]
      BY <2>1, <2>4
    <3> HIDE DEF b
    <3>3. [reg[p] EXCEPT !.seen = notion, !.new = b] \in Reg
      BY <3>1, RegFields DEF Reg, TypeOK
    <3>4. reg' \in [Procs -> Reg]
      BY <3>2, <3>3 DEF TypeOK
    <3>5. pc' \in [Procs -> PcLabels]
      BY <2>1, <2>4, GotoTyped
    <3> QED BY <1>2, <2>1, <2>4, <3>4, <3>5, Unchanged DEF PullDecide
  <2> QED BY <2>2, <2>3, <2>4
<1>3. CASE PullWrite
  <2>1. md' \in Doc
    BY <1>3, <1>r, JustBody DEF PullWrite, StampHumanOverride, Doc, p
  <2>2. pc' \in [Procs -> PcLabels] /\ reg' \in [Procs -> Reg]
    BY <1>3, LeaveTyped DEF PullWrite, p
  <2> QED BY <1>3, <2>1, <2>2, StoreTyped DEF PullWrite, TypeOK
<1>4. CASE MergeWrite
  <2>1. md' \in Doc
    BY <1>4, <1>r, JustBody DEF MergeWrite, Doc, p
  <2>2. pc' \in [Procs -> PcLabels] /\ reg' \in [Procs -> Reg]
    BY <1>4, CallTyped DEF MergeWrite, RetLabels, p
  <2> QED BY <1>4, <2>1, <2>2, StoreTyped DEF MergeWrite, TypeOK
<1>5. CASE ConflictMark
  <2>1. md' \in Doc
    BY <1>5, <1>r, RegFields DEF ConflictMark, MarkSyncConflict, Doc, p
  <2>2. pc' \in [Procs -> PcLabels] /\ reg' \in [Procs -> Reg]
    BY <1>5, LeaveTyped DEF ConflictMark, p
  <2> QED BY <1>5, <2>1, <2>2, StoreTyped DEF ConflictMark, TypeOK
<1> QED BY <1>1, <1>2, <1>3, <1>4, <1>5 DEF SyncPull

LEMMA ManagerTyped == Manager \in Procs
  BY DEF Procs

LEMMA FillTyped ==
  ASSUME NEW fill \in AddedLine, NEW b \in Body
  PROVE  b \cup fill \in Body
  BY DEF Body, AddedLine

LEMMA WikiDirectiveTyped ==
  ASSUME TypeOK, WikiDirective
  PROVE  TypeOK'
<1> USE ManagerTyped DEF PcLabels, PassLabels
<1>1. CASE DirectiveRead
  <2>1. pc' \in [Procs -> PcLabels]
    BY <1>1, GotoTyped DEF DirectiveRead
  <2>2. reg' \in [Procs -> Reg]
    BY <1>1, SetDoc DEF DirectiveRead, TypeOK
  <2> QED BY <1>1, <2>1, <2>2, Unchanged DEF DirectiveRead
<1>2. CASE DirectiveWrite
  <2> DEFINE doc == reg[Manager].doc
  <2>1. PICK fill \in AddedLine :
          LET body == (doc.body \ Directives) \cup fill
          IN /\ md' = [doc EXCEPT !.body = body, !.synced = {body}]
             /\ Authored("agent", doc.body, body)
    BY <1>2 DEF DirectiveWrite
  <2>2. doc \in Doc /\ doc.body \in Body
    BY RegFields, DocFields
  <2> DEFINE b == (doc.body \ Directives) \cup fill
  <2>3. b \in Body
    <3>1. doc.body \ Directives \in Body
      BY <2>2 DEF Body
    <3> QED BY <3>1, FillTyped
  <2>4. md' = [doc EXCEPT !.body = b, !.synced = {b}] /\ Authored("agent", doc.body, b)
    BY <2>1
  <2> HIDE DEF b, doc
  <2>5. md' \in Doc
    BY <2>2, <2>3, <2>4, JustBody DEF Doc
  <2>6. owed' \in Body
    BY <2>2, <2>3, <2>4, AuthoredTyped
  <2>7. pc' \in [Procs -> PcLabels] /\ reg' \in [Procs -> Reg]
    BY <1>2, CallTyped DEF DirectiveWrite, RetLabels
  <2> QED BY <1>2, <2>5, <2>6, <2>7, StoreTyped DEF DirectiveWrite
<1> QED BY <1>1, <1>2 DEF WikiDirective

LEMMA SettleTyped ==
  ASSUME NEW doc \in Doc, NEW b \in Body
  PROVE  Settle(doc, b) \in Doc
<1>1. {} \in Maybe(Body)
  BY DEF Maybe
<1> QED BY <1>1, JustBody DEF Settle, Doc

LEMMA RowsTyped ==
  ASSUME TypeOK, UNCHANGED <<md, notion, owed, edits>>, Fault \/ NoFault,
         rows' \in [Rows -> Statuses],
         pc' \in [Procs -> PcLabels], reg' \in [Procs -> Reg]
  PROVE  TypeOK'
  BY FaultTyped DEF TypeOK

LEMMA ConflictResolutionTyped ==
  ASSUME TypeOK, ConflictResolution
  PROVE  TypeOK'
<1> USE ManagerTyped DEF PcLabels, PassLabels
<1>r. reg[Manager].doc \in Doc /\ reg[Manager].new \in Body /\ reg[Manager].seen \in Maybe(Body)
  BY RegFields
<1>1. CASE ResolutionRead
  <2>1. pc' \in [Procs -> PcLabels]
    BY <1>1, GotoTyped DEF ResolutionRead
  <2>2. reg' \in [Procs -> Reg]
    BY <1>1, SetDoc DEF ResolutionRead, TypeOK
  <2> QED BY <1>1, <2>1, <2>2, Unchanged DEF ResolutionRead
<1>2. CASE ResolutionFetch
  <2>1. PICK live \in BOOLEAN, winner \in Evidence \cup {"unclear"} :
          LET doc == reg[Manager].doc
              body == IF live THEN UNION notion ELSE UNION doc.stash
          IN /\ Fault \/ NoFault
             /\ \/ /\ Goto(Manager, "R_apply")
                   /\ reg' = [reg EXCEPT ![Manager].seen = {body},
                                ![Manager].new = IF winner = "md" THEN doc.body ELSE body]
                \/ /\ Goto(Manager, "R_escalate")
                   /\ reg' = [reg EXCEPT ![Manager].seen = {body}]
                \/ Leave(Manager, "A_query")
    BY <1>2, Zenon DEF ResolutionFetch
  <2> DEFINE doc == reg[Manager].doc
             body == IF live THEN UNION notion ELSE UNION doc.stash
             new == IF winner = "md" THEN doc.body ELSE body
  <2>2. body \in Body /\ new \in Body
    BY <1>r, DocFields, MaybeBody DEF TypeOK
  <2>3. \/ /\ Goto(Manager, "R_apply")
           /\ reg' = [reg EXCEPT ![Manager].seen = {body}, ![Manager].new = new]
        \/ /\ Goto(Manager, "R_escalate")
           /\ reg' = [reg EXCEPT ![Manager].seen = {body}]
        \/ Leave(Manager, "A_query")
    BY <2>1
  <2>4. Fault \/ NoFault
    BY <2>1
  <2> HIDE DEF doc, body, new
  <2>5. {body} \in Maybe(Body)
    BY <2>2, JustBody
  <2>6. [reg[Manager] EXCEPT !.seen = {body}, !.new = new] \in Reg
    BY <2>2, <2>5, RegFields DEF Reg
  <2>7. pc' \in [Procs -> PcLabels] /\ reg' \in [Procs -> Reg]
    <3>1. CASE /\ Goto(Manager, "R_apply")
               /\ reg' = [reg EXCEPT ![Manager].seen = {body}, ![Manager].new = new]
      BY <2>6, <3>1, GotoTyped DEF TypeOK
    <3>2. CASE /\ Goto(Manager, "R_escalate")
               /\ reg' = [reg EXCEPT ![Manager].seen = {body}]
      BY <2>5, <3>2, GotoTyped, SetSeen
    <3>3. CASE Leave(Manager, "A_query")
      BY <3>3, LeaveTyped
    <3> QED BY <2>3, <3>1, <3>2, <3>3
  <2> QED BY <1>2, <2>4, <2>7, Unchanged DEF ResolutionFetch
<1>3. CASE ResolutionApply
  <2>1. md' \in Doc
    BY <1>3, <1>r, SettleTyped DEF ResolutionApply
  <2>2. owed' \in Body
    BY <1>3, DroppedTyped DEF ResolutionApply
  <2>3. pc' \in [Procs -> PcLabels] /\ reg' \in [Procs -> Reg]
    BY <1>3, CallTyped DEF ResolutionApply, RetLabels
  <2> QED BY <1>3, <2>1, <2>2, <2>3, StoreTyped DEF ResolutionApply
<1>4. CASE Escalate
  <2>1. md' \in Doc
    BY <1>4, <1>r DEF Escalate, Doc
  <2>2. pc' \in [Procs -> PcLabels]
    BY <1>4, GotoTyped DEF Escalate
  <2> QED BY <1>4, <2>1, <2>2, StoreTyped DEF Escalate, TypeOK
<1>5. CASE CreateRow
  <2>1. rows' \in [Rows -> Statuses]
    BY <1>5 DEF CreateRow, TypeOK, Statuses
  <2>2. pc' \in [Procs -> PcLabels] /\ reg' \in [Procs -> Reg]
    BY <1>5, LeaveTyped DEF CreateRow
  <2> QED BY <1>5, <2>1, <2>2, RowsTyped DEF CreateRow
<1> QED BY <1>1, <1>2, <1>3, <1>4, <1>5 DEF ConflictResolution

LEMMA ConflictApplyTyped ==
  ASSUME TypeOK, ConflictApply
  PROVE  TypeOK'
<1> USE ManagerTyped DEF PcLabels, PassLabels
<1>r. reg[Manager] \in Reg /\ reg[Manager].doc \in Doc /\ reg[Manager].new \in Body
  BY RegFields
<1>1. CASE QueryRows
  <2> DEFINE todo == {x \in Rows \X Resolved : rows[x[1]] = x[2]}
  <2>1. CASE Leave(Manager, "idle")
    BY <1>1, <2>1, LeaveTyped, Unchanged DEF QueryRows
  <2>2. CASE reg' = [reg EXCEPT ![Manager].todo = todo] /\ Goto(Manager, "A_next")
    <3>1. todo \in SUBSET (Rows \X Resolved)
      OBVIOUS
    <3> HIDE DEF todo
    <3>2. [reg[Manager] EXCEPT !.todo = todo] \in Reg
      BY <1>r, <3>1 DEF Reg
    <3>3. reg' \in [Procs -> Reg]
      BY <2>2, <3>2 DEF TypeOK
    <3> QED BY <1>1, <2>2, <3>3, GotoTyped, Unchanged DEF QueryRows
  <2> QED BY <1>1, <2>1, <2>2 DEF QueryRows
<1>2. CASE NextRow
  <2> DEFINE todo == reg[Manager].todo
             first == {x \in todo : x[2] = "resolved_md"}
             body(x) == IF x[2] = "resolved_md" THEN md.body ELSE UNION md.stash
  <2>1. CASE Leave(Manager, "idle")
    BY <1>2, <2>1, LeaveTyped, Unchanged DEF NextRow
  <2>2. CASE ~Leave(Manager, "idle")
    <3>1. PICK x \in IF first # {} THEN first ELSE todo :
            /\ reg' = [reg EXCEPT ![Manager].doc = md, ![Manager].row = {x},
                                  ![Manager].new = body(x), ![Manager].todo = todo \ {x}]
            /\ Goto(Manager, IF x[2] = "resolved_notion" /\ body(x) = {}
                             THEN "A_fetch" ELSE "A_write")
      BY <1>2, <2>2 DEF NextRow
    <3>2. x \in Rows \X Resolved /\ todo \ {x} \in SUBSET (Rows \X Resolved)
      BY RegFields
    <3>3. body(x) \in Body
      BY DocFields, MaybeBody DEF TypeOK
    <3> HIDE DEF body
    <3>4. {x} \in Maybe(Rows \X Resolved)
      BY <3>2 DEF Maybe
    <3>5. [reg[Manager] EXCEPT !.doc = md, !.row = {x}, !.new = body(x), !.todo = todo \ {x}] \in Reg
      BY <1>r, <3>2, <3>3, <3>4 DEF Reg, TypeOK
    <3>6. reg' \in [Procs -> Reg]
      BY <3>1, <3>5 DEF TypeOK
    <3>7. Goto(Manager, "A_fetch") \/ Goto(Manager, "A_write")
      BY <3>1
    <3>8. pc' \in [Procs -> PcLabels]
      BY <3>7, GotoTyped
    <3> QED BY <1>2, <3>6, <3>8, Unchanged DEF NextRow
  <2> QED BY <2>1, <2>2
<1>3. CASE ApplyFetch
  <2> DEFINE body == IF reg[Manager].doc.page THEN UNION notion ELSE {}
  <2>1. body \in Body
    BY MaybeBody DEF TypeOK, Body
  <2>2. \/ reg' = [reg EXCEPT ![Manager].new = body] /\ Goto(Manager, "A_write")
        \/ Leave(Manager, "A_next")
    BY <1>3 DEF ApplyFetch
  <2> HIDE DEF body
  <2>3. pc' \in [Procs -> PcLabels] /\ reg' \in [Procs -> Reg]
    BY <2>1, <2>2, GotoTyped, LeaveTyped, SetNew
  <2> QED BY <1>3, <2>3, Unchanged DEF ApplyFetch
<1>4. CASE ApplyWrite
  <2>1. md' \in Doc
    BY <1>4, <1>r, SettleTyped DEF ApplyWrite
  <2>2. owed' \in Body
    BY <1>4, DroppedTyped DEF ApplyWrite, TypeOK
  <2>3. pc' \in [Procs -> PcLabels] /\ reg' \in [Procs -> Reg]
    BY <1>4, CallTyped DEF ApplyWrite, RetLabels
  <2> QED BY <1>4, <2>1, <2>2, <2>3, StoreTyped DEF ApplyWrite
<1>5. CASE MarkApplied
  <2>1. rows' \in [Rows -> Statuses]
    BY <1>5 DEF MarkApplied, TypeOK, Statuses
  <2>2. pc' \in [Procs -> PcLabels] /\ reg' \in [Procs -> Reg]
    BY <1>5, LeaveTyped DEF MarkApplied
  <2> QED BY <1>5, <2>1, <2>2, RowsTyped DEF MarkApplied
<1> QED BY <1>1, <1>2, <1>3, <1>4, <1>5 DEF ConflictApply

LEMMA WriterTyped ==
  ASSUME TypeOK, NEW w \in Writers, WriteStart(w) \/ SyncAll(w) \/ Writer(w)
  PROVE  TypeOK'
<1>0. w \in Procs
  BY DEF Procs
<1> USE <1>0 DEF PcLabels, WriterLabels
<1>r. reg[w].doc \in Doc /\ reg[w].new \in Body
  BY RegFields
<1>1. CASE WriteStart(w)
  <2>1. CASE \E body \in Body, s \in Signed :
               /\ reg' = [reg EXCEPT ![w].doc = [md EXCEPT !.sig = IF s # {} THEN s ELSE @],
                                     ![w].new = body]
               /\ Goto(w, "W_write")
    <3>1. PICK body \in Body, s \in Signed :
               /\ reg' = [reg EXCEPT ![w].doc = [md EXCEPT !.sig = IF s # {} THEN s ELSE @],
                                     ![w].new = body]
               /\ Goto(w, "W_write")
      BY <2>1
    <3> DEFINE d == [md EXCEPT !.sig = IF s # {} THEN s ELSE @]
    <3>2. s \in Maybe(Signatures)
      BY DEF Signed, Maybe
    <3>3. d \in Doc
      BY <3>2 DEF TypeOK, Doc
    <3>4. reg' = [reg EXCEPT ![w].doc = d, ![w].new = body]
      BY <3>1
    <3> HIDE DEF d
    <3>5. [reg[w] EXCEPT !.doc = d, !.new = body] \in Reg
      BY <3>3, RegFields DEF Reg
    <3>6. reg' \in [Procs -> Reg]
      BY <3>4, <3>5 DEF TypeOK
    <3>7. pc' \in [Procs -> PcLabels]
      BY <3>1, GotoTyped
    <3> QED BY <1>1, <3>6, <3>7, EditTyped, FaultTyped DEF WriteStart, TypeOK
  <2>2. CASE \E l \in Lines \ Directives :
               /\ reg' = [reg EXCEPT ![w].doc = md, ![w].new = {l}]
               /\ Goto(w, "W_prepend")
    <3>1. PICK l \in Lines \ Directives :
               /\ reg' = [reg EXCEPT ![w].doc = md, ![w].new = {l}]
               /\ Goto(w, "W_prepend")
      BY <2>2
    <3>2. [reg[w] EXCEPT !.doc = md, !.new = {l}] \in Reg
      BY RegFields DEF Reg, TypeOK, Body
    <3>3. reg' \in [Procs -> Reg]
      BY <3>1, <3>2 DEF TypeOK
    <3>4. pc' \in [Procs -> PcLabels]
      BY <3>1, GotoTyped
    <3> QED BY <1>1, <3>3, <3>4, EditTyped, FaultTyped DEF WriteStart, TypeOK
  <2> QED BY <1>1, <2>1, <2>2 DEF WriteStart
<1>2. CASE SyncAll(w)
  <2>1. pc' \in [Procs -> PcLabels] /\ reg' \in [Procs -> Reg]
    BY <1>2, CallTyped DEF SyncAll, RetLabels
  <2> QED BY <1>2, <2>1, EditTyped, FaultTyped DEF SyncAll, TypeOK
<1>3. CASE WritePrepend(w)
  <2>1. reg[w].new \cup md.body \in Body
    BY <1>r, DocFields DEF TypeOK, Body
  <2>2. reg' = [reg EXCEPT ![w].new = reg[w].new \cup md.body]
    BY <1>3 DEF WritePrepend, TypeOK, Reg
  <2>3. reg' \in [Procs -> Reg]
    BY <2>1, <2>2, SetNew
  <2> QED BY <1>3, <2>3, GotoTyped, Unchanged DEF WritePrepend
<1>4. CASE WriteStore(w)
  <2>1. md' \in Doc
    BY <1>4, <1>r DEF WriteStore, Doc
  <2>2. owed' \in Body
    <3>1. md.body \in Body
      BY DocFields DEF TypeOK
    <3> QED BY <1>4, <1>r, <3>1, DroppedTyped, AuthoredTyped, AddedTyped DEF WriteStore
  <2>3. Call(w, FALSE, "idle") \/ Leave(w, "idle")
    BY <1>4 DEF WriteStore
  <2>4. pc' \in [Procs -> PcLabels] /\ reg' \in [Procs -> Reg]
    BY <2>3, CallTyped, LeaveTyped DEF RetLabels
  <2> QED BY <1>4, <2>1, <2>2, <2>4, StoreTyped DEF WriteStore
<1> QED BY <1>1, <1>2, <1>3, <1>4 DEF Writer

LEMMA EditsOfTyped ==
  ASSUME NEW b \in Body
  PROVE  EditsOf(b) \subseteq Body
  BY DEF EditsOf, Body

LEMMA PeopleTyped ==
  ASSUME TypeOK, EditMarkdown \/ EditNotion \/ Relabel \/ AdminResolve
  PROVE  TypeOK'
<1>1. CASE EditMarkdown
  <2>1. PICK b \in EditsOf(md.body) : md' = [md EXCEPT !.body = b] /\ Authored("md", md.body, b)
    BY <1>1 DEF EditMarkdown
  <2>2. md.body \in Body /\ b \in Body
    BY DocFields, EditsOfTyped DEF TypeOK
  <2>3. md' \in Doc
    BY <2>1, <2>2 DEF TypeOK, Doc
  <2>4. owed' \in Body
    BY <2>1, <2>2, AuthoredTyped
  <2> QED BY <1>1, <2>3, <2>4, EditTyped DEF EditMarkdown, TypeOK
<1>2. CASE EditNotion
  <2>1. PICK old \in notion : \E b \in EditsOf(old) : notion' = {b} /\ Authored("notion", old, b)
    BY <1>2 DEF EditNotion
  <2>2. old \in Body
    BY DEF TypeOK, Maybe
  <2>3. PICK b \in EditsOf(old) : notion' = {b} /\ Authored("notion", old, b)
    BY <2>1
  <2>4. b \in Body
    BY <2>2, EditsOfTyped
  <2>5. notion' \in Maybe(Body)
    BY <2>3, <2>4, JustBody
  <2>6. owed' \in Body
    BY <2>2, <2>3, <2>4, AuthoredTyped
  <2> QED BY <1>2, <2>5, <2>6, EditTyped DEF EditNotion, TypeOK
<1>3. CASE Relabel
  <2>1. md' \in Doc
    BY <1>3, ValuesAssumption DEF Relabel, TypeOK, Doc
  <2> QED BY <1>3, <2>1, EditTyped DEF Relabel, TypeOK
<1>4. CASE AdminResolve
  <2>1. rows' \in [Rows -> Statuses]
    BY <1>4, ValuesAssumption DEF AdminResolve, TypeOK, Statuses
  <2> QED BY <1>4, <2>1 DEF AdminResolve, TypeOK
<1> QED BY <1>1, <1>2, <1>3, <1>4

LEMMA CrashTyped ==
  ASSUME TypeOK, NEW p \in Procs, Crash(p)
  PROVE  TypeOK'
<1>1. reg' \in [Procs -> Reg]
  BY BlankTyped DEF Crash, TypeOK
<1>2. pc' \in [Procs -> PcLabels]
  BY GotoTyped DEF Crash, PcLabels
<1> QED BY <1>1, <1>2, Unchanged DEF Crash

-----------------------------------------------------------------------------
(* Type correctness *)

LEMMA SignedTyped == Signed \subseteq Maybe(Signatures)
  BY DEF Signed, Maybe

LEMMA TypeInit == Init => TypeOK
<1> SUFFICES ASSUME Init PROVE TypeOK
  OBVIOUS
<1>1. PICK b \in {{}} \cup {{l} : l \in Lines \ Directives} :
         \/ md = [EmptyDoc EXCEPT !.body = b] /\ notion = {}
         \/ \E s \in Signed :
              /\ md = [EmptyDoc EXCEPT !.body = b, !.page = TRUE, !.synced = {b},
                                       !.sig = s, !.pushed = s]
              /\ notion = {b}
  BY DEF Init
<1>2. b \in Body
  BY DEF Body
<1>3. md \in Doc /\ notion \in Maybe(Body)
  <2>1. CASE md = [EmptyDoc EXCEPT !.body = b] /\ notion = {}
    BY <1>2, <2>1, EmptyDocTyped DEF Doc, Maybe
  <2>2. CASE \E s \in Signed :
              /\ md = [EmptyDoc EXCEPT !.body = b, !.page = TRUE, !.synced = {b},
                                       !.sig = s, !.pushed = s]
              /\ notion = {b}
    BY <1>2, <2>2, EmptyDocTyped, SignedTyped, JustBody DEF Doc
  <2> QED BY <1>1, <2>1, <2>2
<1>4. rows \in [Rows -> Statuses]
  BY DEF Init, Statuses
<1>5. pc \in [Procs -> PcLabels]
  BY DEF Init, PcLabels
<1>6. reg \in [Procs -> Reg]
  BY BlankTyped DEF Init
<1>7. owed \in Body
  BY DEF Init, Body
<1>8. edits \in 0..MaxEdits /\ faults \in 0..MaxFaults
  <2>1. edits = 0 /\ faults = 0
    BY DEF Init
  <2> QED BY <2>1, BoundsAssumption
<1> QED BY <1>3, <1>4, <1>5, <1>6, <1>7, <1>8 DEF TypeOK

LEMMA TypeStep == TypeOK /\ [Next]_vars => TypeOK'
<1> SUFFICES ASSUME TypeOK, [Next]_vars PROVE TypeOK'
  OBVIOUS
<1>1. CASE Pass
  BY <1>1, SyncPullTyped, WikiDirectiveTyped, ConflictResolutionTyped, ConflictApplyTyped,
     SyncDocTyped, ManagerTyped DEF Pass
<1>2. CASE \E w \in Writers : WriteStart(w) \/ SyncAll(w) \/ WriterStep(w)
  BY <1>2, WriterTyped, SyncDocTyped DEF WriterStep, Procs
<1>3. CASE EditMarkdown \/ EditNotion \/ Relabel \/ AdminResolve
  BY <1>3, PeopleTyped
<1>4. CASE \E p \in Procs : Crash(p)
  BY <1>4, CrashTyped
<1>5. CASE UNCHANGED vars
  BY <1>5 DEF vars, TypeOK
<1> QED BY <1>1, <1>2, <1>3, <1>4, <1>5 DEF Next

\* Every value the mirror writes -- the page's frontmatter, the Notion body, the
\* rows, the locals of the passes -- stays what the code declares it to be.
THEOREM TypeCorrect == Spec => []TypeOK
<1> QED BY TypeInit, TypeStep, PTL DEF Spec

-----------------------------------------------------------------------------
(***************************************************************************)
(* When passes, writers and people take turns, a page that has been made   *)
(* local is not pushed.  sync_doc reads the label first and pushes several *)
(* steps later, so the invariant has to say that nobody else is under way, *)
(* and that from the read on the page is still not local.                  *)
(***************************************************************************)
Pushing == {"S_discover", "S_fetch", "S_override", "S_push", "S_create", "S_stamp"}

Solo == \A p, q \in Procs : pc[p] # "idle" /\ pc[q] # "idle" => p = q

LocalInv ==
    /\ TypeOK
    /\ Solo
    /\ \A p \in Procs : pc[p] \in Pushing => ~md.local

\* What a step of process p does to its own place, in turns.
Moves(p) ==
    /\ \E label \in PcLabels : Goto(p, label)
    /\ pc[p] # "idle" \/ Quiet
    /\ pc'[p] \in Pushing => ~md'.local

LEMMA GotoMoves ==
  ASSUME TypeOK, NEW p \in Procs, NEW label \in PcLabels, Goto(p, label),
         pc[p] # "idle" \/ Quiet, label \in Pushing => ~md'.local
  PROVE  Moves(p)
<1>1. pc'[p] = label
  BY DEF TypeOK, Goto
<1> QED BY <1>1 DEF Moves

LEMMA CallMoves ==
  ASSUME TypeOK, NEW p \in Procs, NEW force, NEW ret, Call(p, force, ret),
         pc[p] # "idle" \/ Quiet
  PROVE  Moves(p)
<1>1. Goto(p, "S_read") /\ "S_read" \notin Pushing /\ "S_read" \in PcLabels
  BY DEF Call, Goto, Pushing, PcLabels, SyncLabels
<1> QED BY <1>1, GotoMoves

LEMMA LeaveMoves ==
  ASSUME TypeOK, NEW p \in Procs, NEW label \in PcLabels, Leave(p, label),
         pc[p] # "idle", label \notin Pushing
  PROVE  Moves(p)
<1>1. Goto(p, label)
  BY DEF Leave, Goto
<1> QED BY <1>1, GotoMoves

LEMMA ReturnMoves ==
  ASSUME TypeOK, NEW p \in Procs, Return(p) \/ Raise(p), pc[p] # "idle"
  PROVE  Moves(p)
<1>1. /\ reg[p].ret \in PcLabels /\ reg[p].ret \notin Pushing
      /\ "A_next" \in PcLabels /\ "A_next" \notin Pushing
  BY RegFields, RetIsLabel DEF Pushing, RetLabels, PcLabels, PassLabels
<1>2. CASE Return(p)
  BY <1>1, <1>2, LeaveMoves DEF Return
<1>3. CASE Raise(p)
  <2> DEFINE label == IF reg[p].ret = "A_mark" THEN "A_next" ELSE reg[p].ret
  <2>1. label \in PcLabels /\ label \notin Pushing
    BY <1>1
  <2>2. Leave(p, label)
    BY <1>3 DEF Raise
  <2> HIDE DEF label
  <2> QED BY <2>1, <2>2, LeaveMoves
<1> QED BY <1>2, <1>3

\* The label is read before anything else, and stays as it is up to the push.
LEMMA SyncDocMoves ==
  ASSUME LocalInv, NEW p \in Procs, SyncDoc(p)
  PROVE  Moves(p)
<1> USE DEF PcLabels, SyncLabels, Pushing
<1>t. TypeOK /\ pc[p] # "idle"
  BY DEF LocalInv, SyncDoc, SyncRead, SyncDiscover, SyncFetch, SyncOverride, SyncPush, SyncStamp
<1>1. CASE SyncRead(p)
  <2>1. CASE Return(p)
    BY <2>1, <1>t, ReturnMoves
  <2>2. CASE ~Return(p)
    <3>1. ~md'.local
      BY <1>1, <2>2 DEF SyncRead
    <3>2. Goto(p, "S_discover") \/ Goto(p, "S_push") \/ Goto(p, "S_fetch")
      BY <1>1, <2>2, Zenon DEF SyncRead
    <3> QED BY <3>1, <3>2, <1>t, GotoMoves
  <2> QED BY <2>1, <2>2
<1>2. CASE SyncDiscover(p)
  <2>1. ~md'.local
    BY <1>2 DEF SyncDiscover, LocalInv
  <2>2. \/ Goto(p, "S_push") \/ Goto(p, "S_fetch") \/ Goto(p, "S_create")
        \/ Return(p)
    BY <1>2, Zenon DEF SyncDiscover
  <2> QED BY <2>1, <2>2, <1>t, GotoMoves, ReturnMoves
<1>3. CASE SyncFetch(p)
  <2>1. ~md'.local
    BY <1>3 DEF SyncFetch, LocalInv
  <2>2. Goto(p, "S_override") \/ Goto(p, "S_push")
    BY <1>3 DEF SyncFetch
  <2> QED BY <2>1, <2>2, <1>t, GotoMoves
<1>4. CASE SyncOverride(p)
  BY <1>4, <1>t, ReturnMoves DEF SyncOverride
<1>5. CASE SyncPush(p)
  <2>1. ~md'.local
    BY <1>5 DEF SyncPush, LocalInv
  <2> QED BY <1>5, <2>1, <1>t, GotoMoves, ReturnMoves DEF SyncPush
<1>6. CASE SyncStamp(p)
  BY <1>6, <1>t, ReturnMoves DEF SyncStamp
<1> QED BY <1>1, <1>2, <1>3, <1>4, <1>5, <1>6 DEF SyncDoc

LEMMA PassMoves ==
  ASSUME LocalInv, SyncPull \/ WikiDirective \/ ConflictResolution \/ ConflictApply
  PROVE  Moves(Manager)
<1> USE ManagerTyped DEF PcLabels, PassLabels, Pushing
<1>t. TypeOK
  BY DEF LocalInv
<1>1. CASE SyncPull
  <2>1. CASE PullRead
    BY <2>1, <1>t, GotoMoves DEF PullRead
  <2>2. CASE PullDecide
    <3>1. \/ Leave(Manager, "D_read")
          \/ Call(Manager, FALSE, "D_read")
          \/ Goto(Manager, "P_pull") \/ Goto(Manager, "P_merge") \/ Goto(Manager, "P_mark")
      BY <2>2, Zenon DEF PullDecide
    <3>2. pc[Manager] # "idle"
      BY <2>2 DEF PullDecide
    <3> QED BY <3>1, <3>2, <1>t, GotoMoves, LeaveMoves, CallMoves
  <2>3. CASE PullWrite
    BY <2>3, <1>t, LeaveMoves DEF PullWrite
  <2>4. CASE MergeWrite
    BY <2>4, <1>t, CallMoves DEF MergeWrite
  <2>5. CASE ConflictMark
    BY <2>5, <1>t, LeaveMoves DEF ConflictMark
  <2> QED BY <1>1, <2>1, <2>2, <2>3, <2>4, <2>5 DEF SyncPull
<1>2. CASE WikiDirective
  <2>1. CASE DirectiveRead
    BY <2>1, <1>t, GotoMoves DEF DirectiveRead
  <2>2. CASE DirectiveWrite
    BY <2>2, <1>t, CallMoves DEF DirectiveWrite
  <2> QED BY <1>2, <2>1, <2>2 DEF WikiDirective
<1>3. CASE ConflictResolution
  <2>1. CASE ResolutionRead
    BY <2>1, <1>t, GotoMoves DEF ResolutionRead
  <2>2. CASE ResolutionFetch
    <3>1. \/ Goto(Manager, "R_apply") \/ Goto(Manager, "R_escalate")
          \/ Leave(Manager, "A_query")
      BY <2>2, ZenonT(40) DEF ResolutionFetch
    <3>2. pc[Manager] # "idle"
      BY <2>2 DEF ResolutionFetch
    <3> QED BY <3>1, <3>2, <1>t, GotoMoves, LeaveMoves
  <2>3. CASE ResolutionApply
    BY <2>3, <1>t, CallMoves DEF ResolutionApply
  <2>4. CASE Escalate
    BY <2>4, <1>t, GotoMoves DEF Escalate
  <2>5. CASE CreateRow
    BY <2>5, <1>t, LeaveMoves DEF CreateRow
  <2> QED BY <1>3, <2>1, <2>2, <2>3, <2>4, <2>5 DEF ConflictResolution
<1>4. CASE ConflictApply
  <2>1. CASE QueryRows
    BY <2>1, <1>t, GotoMoves, LeaveMoves DEF QueryRows
  <2>2. CASE NextRow
    <3>1. \/ Leave(Manager, "idle")
          \/ Goto(Manager, "A_fetch") \/ Goto(Manager, "A_write")
      BY <2>2 DEF NextRow
    <3>2. pc[Manager] # "idle"
      BY <2>2 DEF NextRow
    <3> QED BY <3>1, <3>2, <1>t, GotoMoves, LeaveMoves
  <2>3. CASE ApplyFetch
    <3>1. Goto(Manager, "A_write") \/ Leave(Manager, "A_next")
      BY <2>3 DEF ApplyFetch
    <3>2. pc[Manager] # "idle"
      BY <2>3 DEF ApplyFetch
    <3> QED BY <3>1, <3>2, <1>t, GotoMoves, LeaveMoves
  <2>4. CASE ApplyWrite
    BY <2>4, <1>t, CallMoves DEF ApplyWrite
  <2>5. CASE MarkApplied
    BY <2>5, <1>t, LeaveMoves DEF MarkApplied
  <2> QED BY <1>4, <2>1, <2>2, <2>3, <2>4, <2>5 DEF ConflictApply
<1> QED BY <1>1, <1>2, <1>3, <1>4

LEMMA WriterMoves ==
  ASSUME LocalInv, NEW w \in Writers, WriteStart(w) \/ SyncAll(w) \/ Writer(w)
  PROVE  Moves(w)
<1> USE DEF PcLabels, WriterLabels, Pushing
<1>t. TypeOK /\ w \in Procs
  BY DEF LocalInv, Procs
<1>1. CASE WriteStart(w)
  <2>1. Goto(w, "W_write") \/ Goto(w, "W_prepend")
    BY <1>1 DEF WriteStart
  <2>2. Quiet
    BY <1>1 DEF WriteStart
  <2> QED BY <2>1, <2>2, <1>t, GotoMoves
<1>2. CASE SyncAll(w)
  BY <1>2, <1>t, CallMoves DEF SyncAll
<1>3. CASE WritePrepend(w)
  BY <1>3, <1>t, GotoMoves DEF WritePrepend
<1>4. CASE WriteStore(w)
  <2>1. Call(w, FALSE, "idle") \/ Leave(w, "idle")
    BY <1>4 DEF WriteStore
  <2>2. pc[w] # "idle"
    BY <1>4 DEF WriteStore
  <2> QED BY <2>1, <2>2, <1>t, CallMoves, LeaveMoves
<1> QED BY <1>1, <1>2, <1>3, <1>4 DEF Writer

\* A process that moves, while the others are idle, keeps the invariant.
LEMMA MovesKeep ==
  ASSUME LocalInv, TypeOK', Overlap = FALSE, NEW p \in Procs, Moves(p)
  PROVE  LocalInv'
<1>1. PICK label \in PcLabels : pc' = [pc EXCEPT ![p] = label]
  BY DEF Moves, Goto
<1>2. \A q \in Procs \ {p} : pc[q] = "idle"
  BY DEF Moves, Quiet, LocalInv, Solo
<1>3. \A q \in Procs \ {p} : pc'[q] = "idle"
  BY <1>1, <1>2 DEF LocalInv, TypeOK
<1>4. Solo'
  BY <1>3 DEF Solo
<1>5. \A q \in Procs : pc'[q] \in Pushing => ~md'.local
  BY <1>3 DEF Moves, Pushing
<1> QED BY <1>4, <1>5 DEF LocalInv

LEMMA LocalStep ==
  ASSUME Overlap = FALSE, LocalInv, [Next]_vars
  PROVE  LocalInv'
<1>t. TypeOK /\ TypeOK'
  BY TypeStep DEF LocalInv
<1>1. CASE Pass
  BY <1>1, <1>t, PassMoves, SyncDocMoves, ManagerTyped, MovesKeep DEF Pass
<1>2. CASE \E w \in Writers : WriteStart(w) \/ SyncAll(w) \/ WriterStep(w)
  <2>1. PICK w \in Writers : WriteStart(w) \/ SyncAll(w) \/ WriterStep(w)
    BY <1>2
  <2>2. w \in Procs
    BY DEF Procs
  <2>3. Moves(w)
    BY <2>1, <2>2, WriterMoves, SyncDocMoves DEF WriterStep
  <2> QED BY <1>t, <2>2, <2>3, MovesKeep
<1>3. CASE EditMarkdown \/ EditNotion \/ Relabel \/ AdminResolve
  <2>1. UNCHANGED pc /\ \A p \in Procs : pc[p] = "idle"
    BY <1>3 DEF EditMarkdown, EditNotion, Relabel, AdminResolve, Quiet
  <2> QED BY <1>t, <2>1 DEF LocalInv, Solo, Pushing
<1>4. CASE \E p \in Procs : Crash(p)
  <2>1. PICK p \in Procs : Crash(p)
    BY <1>4
  <2>2. Goto(p, "idle") /\ pc[p] # "idle" /\ "idle" \in PcLabels /\ "idle" \notin Pushing
    BY <2>1 DEF Crash, PcLabels, Pushing
  <2>3. Moves(p)
    BY <1>t, <2>2, GotoMoves
  <2> QED BY <1>t, <2>3, MovesKeep
<1>5. CASE UNCHANGED vars
  BY <1>t, <1>5 DEF vars, LocalInv, Solo
<1> QED BY <1>1, <1>2, <1>3, <1>4, <1>5 DEF Next

LEMMA PushIsOurs ==
  ASSUME LocalInv, NEW p \in Procs, SyncDoc(p), notion' # notion
  PROVE  ~md.local
<1>1. SyncPush(p)
  BY DEF SyncDoc, SyncRead, SyncDiscover, SyncFetch, SyncOverride, SyncStamp
<1>2. pc[p] \in Pushing
  BY <1>1 DEF SyncPush, Pushing
<1> QED BY <1>2 DEF LocalInv

LEMMA NotionChanges ==
  ASSUME LocalInv, [Next]_vars, notion' # notion
  PROVE  ~md.local \/ edits' # edits
<1>1. CASE Pass
  <2>1. SyncDoc(Manager)
    BY <1>1 DEF Pass, SyncPull, PullRead, PullDecide, PullWrite, MergeWrite, ConflictMark,
       WikiDirective, DirectiveRead, DirectiveWrite, ConflictResolution, ResolutionRead,
       ResolutionFetch, ResolutionApply, Escalate, CreateRow, ConflictApply, QueryRows,
       NextRow, ApplyFetch, ApplyWrite, MarkApplied
  <2> QED BY <2>1, PushIsOurs, ManagerTyped
<1>2. CASE \E w \in Writers : WriteStart(w) \/ SyncAll(w) \/ WriterStep(w)
  <2>1. PICK w \in Writers : SyncDoc(w)
    BY <1>2 DEF WriteStart, SyncAll, WriterStep, Writer, WritePrepend, WriteStore
  <2> QED BY <2>1, PushIsOurs DEF Procs
<1>3. CASE EditMarkdown \/ EditNotion \/ Relabel \/ AdminResolve
  <2>1. EditNotion
    BY <1>3 DEF EditMarkdown, Relabel, AdminResolve
  <2> QED BY <2>1 DEF EditNotion, Edit, LocalInv, TypeOK
<1>4. CASE \E p \in Procs : Crash(p)
  BY <1>4 DEF Crash
<1>5. CASE UNCHANGED vars
  BY <1>5 DEF vars
<1> QED BY <1>1, <1>2, <1>3, <1>4, <1>5 DEF Next

\* When passes, writers and people take turns, a page that was labelled
\* not_synced, or moved to an admin-only section, is never pushed to Notion again
\* while it stays so: sync_doc asks should_skip_notion_mirror before a forced
\* push too, whatever conflict was under way.
THEOREM LocalPageStaysLocal ==
  ASSUME Overlap = FALSE
  PROVE  Spec => LocalPageNotPushed
<1>1. Init => LocalInv
  <2>1. Init => Solo /\ \A p \in Procs : pc[p] \notin Pushing
    BY DEF Init, Solo, Pushing
  <2> QED BY <2>1, TypeInit DEF LocalInv
<1>2. LocalInv /\ [Next]_vars => LocalInv'
  BY LocalStep
<1>3. LocalInv /\ [Next]_vars => [(md.local /\ notion' # notion) => edits' # edits]_vars
  BY NotionChanges
<1> QED BY <1>1, <1>2, <1>3, PTL DEF Spec, LocalPageNotPushed

-----------------------------------------------------------------------------
(***************************************************************************)
(* Taking turns.  While passes, writers and people do not interleave, the  *)
(* document a process holds is the document in the store: nobody else      *)
(* writes it between the read and the write.                               *)
(***************************************************************************)
Holding == Pushing \cup
    {"P_fetch", "P_pull", "P_merge", "P_mark", "D_write", "R_fetch", "R_apply",
     "R_escalate", "A_fetch", "A_write", "W_prepend"}

HoldsStore(p) ==
    /\ pc[p] \in Holding => reg[p].doc = md
    /\ pc[p] = "W_write" => reg[p].doc = [md EXCEPT !.sig = reg[p].doc.sig]

TurnInv == LocalInv /\ \A p \in Procs : HoldsStore(p)

\* A step of one process, and a step of the people around it.
Turn(p) ==
    \/ SyncDoc(p)
    \/ p = Manager /\ (SyncPull \/ WikiDirective \/ ConflictResolution \/ ConflictApply)
    \/ p \in Writers /\ (WriteStart(p) \/ SyncAll(p) \/ Writer(p))
    \/ Crash(p)

People == EditMarkdown \/ EditNotion \/ Relabel \/ AdminResolve

LEMMA NextCases ==
  ASSUME [Next]_vars
  PROVE  (\E p \in Procs : Turn(p)) \/ People \/ UNCHANGED vars
  BY ManagerTyped DEF Next, Pass, WriterStep, Turn, People, Procs

\* Where the helpers of an action leave its process.
LEMMA GotoAt ==
  ASSUME TypeOK, NEW p \in Procs, NEW label, Goto(p, label)
  PROVE  pc'[p] = label /\ \A q \in Procs \ {p} : pc'[q] = pc[q]
  BY DEF TypeOK, Goto

LEMMA CallAt ==
  ASSUME TypeOK, NEW p \in Procs, NEW force, NEW ret, Call(p, force, ret)
  PROVE  /\ pc'[p] = "S_read" /\ reg'[p].force = force /\ reg'[p].ret = ret
         /\ reg'[p].row = reg[p].row /\ reg'[p].todo = reg[p].todo
  BY DEF TypeOK, Call, Blank

LEMMA ForcedCallAt ==
  ASSUME TypeOK, NEW p \in Procs, NEW ret, Call(p, TRUE, ret)
  PROVE  /\ pc'[p] = "S_read" /\ reg'[p].force /\ reg'[p].ret = ret
         /\ reg'[p].row = reg[p].row /\ reg'[p].todo = reg[p].todo
  BY DEF TypeOK, Call, Blank

LEMMA UnforcedCallAt ==
  ASSUME TypeOK, NEW p \in Procs, NEW ret, Call(p, FALSE, ret)
  PROVE  pc'[p] = "S_read" /\ reg'[p].force = FALSE /\ reg'[p].ret = ret
  BY DEF TypeOK, Call, Blank

LEMMA LeaveAt ==
  ASSUME TypeOK, NEW p \in Procs, NEW label, Leave(p, label)
  PROVE  /\ pc'[p] = label /\ reg'[p].force = FALSE /\ reg'[p].ret = "idle"
         /\ reg'[p].row = (IF label = "A_mark" THEN reg[p].row ELSE {})
         /\ reg'[p].todo = reg[p].todo
  BY DEF TypeOK, Leave, Blank

LEMMA ReturnAt ==
  ASSUME TypeOK, NEW p \in Procs, Return(p)
  PROVE  /\ pc'[p] = reg[p].ret /\ reg[p].ret \in RetLabels
         /\ reg'[p].force = FALSE /\ reg'[p].ret = "idle"
         /\ reg'[p].row = (IF reg[p].ret = "A_mark" THEN reg[p].row ELSE {})
         /\ reg'[p].todo = reg[p].todo
  BY LeaveAt, RegFields DEF Return

LEMMA RaiseAt ==
  ASSUME TypeOK, NEW p \in Procs, Raise(p)
  PROVE  /\ pc'[p] = (IF reg[p].ret = "A_mark" THEN "A_next" ELSE reg[p].ret)
         /\ reg[p].ret \in RetLabels
         /\ reg'[p].force = FALSE /\ reg'[p].ret = "idle"
         /\ reg'[p].row = {}
         /\ reg'[p].todo = reg[p].todo
<1> DEFINE label == IF reg[p].ret = "A_mark" THEN "A_next" ELSE reg[p].ret
<1>1. Leave(p, label) /\ label # "A_mark"
  BY DEF Raise
<1> HIDE DEF label
<1>2. /\ pc'[p] = label /\ reg'[p].force = FALSE /\ reg'[p].ret = "idle"
      /\ reg'[p].row = {} /\ reg'[p].todo = reg[p].todo
  BY <1>1, LeaveAt
<1> QED BY <1>2, RegFields DEF label

LEMMA DocAt ==
  ASSUME TypeOK, NEW p \in Procs, NEW d, reg' = [reg EXCEPT ![p].doc = d]
  PROVE  /\ reg'[p].doc = d /\ reg'[p].force = reg[p].force /\ reg'[p].ret = reg[p].ret
         /\ reg'[p].row = reg[p].row /\ reg'[p].todo = reg[p].todo
         /\ reg'[p].seen = reg[p].seen /\ reg'[p].new = reg[p].new
  BY DEF TypeOK, Reg

\* Calls, returns and plain departures hold nothing.
LEMMA CallRests ==
  ASSUME TypeOK, NEW p \in Procs, NEW force, NEW ret, Call(p, force, ret)
  PROVE  HoldsStore(p)'
<1>1. pc'[p] = "S_read"
  BY CallAt
<1> QED BY <1>1 DEF HoldsStore, Holding, Pushing

LEMMA ReturnRests ==
  ASSUME TypeOK, NEW p \in Procs, Return(p) \/ Raise(p)
  PROVE  HoldsStore(p)'
<1>1. pc'[p] \in RetLabels \cup {"A_next"}
  BY ReturnAt, RaiseAt
<1> QED BY <1>1 DEF HoldsStore, Holding, Pushing, RetLabels

LEMMA LeaveRests ==
  ASSUME TypeOK, NEW p \in Procs, NEW label \in RetLabels \cup {"A_next"}, Leave(p, label)
  PROVE  HoldsStore(p)'
<1>1. pc'[p] = label
  BY LeaveAt
<1> QED BY <1>1 DEF HoldsStore, Holding, Pushing, RetLabels

LEMMA GotoHolds ==
  ASSUME TypeOK, NEW p \in Procs, NEW label, Goto(p, label), label # "W_write",
         label \in Holding => reg'[p].doc = md'
  PROVE  HoldsStore(p)'
<1>1. pc'[p] = label
  BY GotoAt
<1> QED BY <1>1 DEF HoldsStore

LEMMA SyncDocHolds ==
  ASSUME TurnInv, NEW p \in Procs, SyncDoc(p)
  PROVE  HoldsStore(p)'
<1>t. TypeOK
  BY DEF TurnInv, LocalInv
<1>h. pc[p] \in Pushing => reg[p].doc = md
  BY DEF TurnInv, HoldsStore, Holding
<1>1. CASE SyncRead(p)
  <2>1. CASE Return(p)
    BY <2>1, <1>t, ReturnRests
  <2>2. CASE ~Return(p)
    <3>1. reg'[p].doc = md'
      BY <1>1, <2>2, <1>t, DocAt DEF SyncRead
    <3>2. Goto(p, "S_discover") \/ Goto(p, "S_push") \/ Goto(p, "S_fetch")
      BY <1>1, <2>2, Zenon DEF SyncRead
    <3> QED BY <3>1, <3>2, <1>t, GotoHolds
  <2> QED BY <2>1, <2>2
<1>2. CASE SyncDiscover(p)
  <2>1. reg[p].doc = md'
    BY <1>2, <1>h DEF SyncDiscover, Pushing
  <2>2. \/ Goto(p, "S_push") /\ UNCHANGED reg
        \/ Goto(p, "S_fetch") /\ UNCHANGED reg
        \/ Goto(p, "S_create") /\ UNCHANGED reg
        \/ Return(p)
    BY <1>2, Zenon DEF SyncDiscover
  <2> QED BY <2>1, <2>2, <1>t, GotoHolds, ReturnRests
<1>3. CASE SyncFetch(p)
  <2>1. reg'[p].doc = md'
    BY <1>3, <1>h, <1>t DEF SyncFetch, Pushing, TypeOK, Reg
  <2>2. Goto(p, "S_override") \/ Goto(p, "S_push")
    BY <1>3 DEF SyncFetch
  <2> QED BY <2>1, <2>2, <1>t, GotoHolds
<1>4. CASE SyncOverride(p)
  BY <1>4, <1>t, ReturnRests DEF SyncOverride
<1>5. CASE SyncPush(p)
  <2>1. reg[p].doc = md'
    BY <1>5, <1>h DEF SyncPush, Pushing
  <2>2. (Goto(p, "S_stamp") /\ UNCHANGED reg) \/ Raise(p)
    BY <1>5 DEF SyncPush
  <2> QED BY <2>1, <2>2, <1>t, GotoHolds, ReturnRests
<1>6. CASE SyncStamp(p)
  BY <1>6, <1>t, ReturnRests DEF SyncStamp
<1> QED BY <1>1, <1>2, <1>3, <1>4, <1>5, <1>6 DEF SyncDoc

LEMMA PassHolds ==
  ASSUME TurnInv, SyncPull \/ WikiDirective \/ ConflictResolution \/ ConflictApply
  PROVE  HoldsStore(Manager)'
<1> USE ManagerTyped
<1>t. TypeOK
  BY DEF TurnInv, LocalInv
<1>h. pc[Manager] \in Holding => reg[Manager].doc = md
  BY DEF TurnInv, HoldsStore
<1>l. {"D_read", "A_query", "idle", "A_mark", "A_next"} \subseteq RetLabels \cup {"A_next"}
  BY DEF RetLabels
<1>1. CASE SyncPull
  <2>1. CASE PullRead
    <3>1. \/ Goto(Manager, "P_fetch") /\ reg'[Manager].doc = md'
          \/ Goto(Manager, "D_read")
      BY <2>1, <1>t, DocAt DEF PullRead
    <3> QED BY <3>1, <1>t, GotoHolds DEF Holding, Pushing
  <2>2. CASE PullDecide
    <3>1. \/ Leave(Manager, "D_read")
          \/ Call(Manager, FALSE, "D_read")
          \/ /\ reg'[Manager].doc = reg[Manager].doc
             /\ \/ Goto(Manager, "P_pull")
                \/ Goto(Manager, "P_merge")
                \/ Goto(Manager, "P_mark")
      <4>1. PICK s, n : \/ Leave(Manager, "D_read")
                        \/ Call(Manager, FALSE, "D_read")
                        \/ /\ reg' = [reg EXCEPT ![Manager].seen = s, ![Manager].new = n]
                           /\ \/ Goto(Manager, "P_pull")
                              \/ Goto(Manager, "P_merge")
                              \/ Goto(Manager, "P_mark")
        BY <2>2, Zenon DEF PullDecide
      <4>2. reg' = [reg EXCEPT ![Manager].seen = s, ![Manager].new = n]
              => reg'[Manager].doc = reg[Manager].doc
        BY <1>t DEF TypeOK, Reg
      <4> QED BY <4>1, <4>2
    <3>2. reg[Manager].doc = md'
      BY <2>2, <1>h DEF PullDecide, Holding
    <3> QED BY <3>1, <3>2, <1>l, <1>t, GotoHolds, LeaveRests, CallRests
  <2>3. CASE PullWrite
    BY <2>3, <1>t, <1>l, LeaveRests DEF PullWrite
  <2>4. CASE MergeWrite
    BY <2>4, <1>t, CallRests DEF MergeWrite
  <2>5. CASE ConflictMark
    BY <2>5, <1>t, <1>l, LeaveRests DEF ConflictMark
  <2> QED BY <1>1, <2>1, <2>2, <2>3, <2>4, <2>5 DEF SyncPull
<1>2. CASE WikiDirective
  <2>1. CASE DirectiveRead
    <3>1. \/ Goto(Manager, "D_write") /\ reg'[Manager].doc = md'
          \/ Goto(Manager, "R_read")
      BY <2>1, <1>t, DocAt DEF DirectiveRead
    <3> QED BY <3>1, <1>t, GotoHolds DEF Holding, Pushing
  <2>2. CASE DirectiveWrite
    BY <2>2, <1>t, CallRests DEF DirectiveWrite
  <2> QED BY <1>2, <2>1, <2>2 DEF WikiDirective
<1>3. CASE ConflictResolution
  <2>1. CASE ResolutionRead
    <3>1. \/ Goto(Manager, "R_fetch") /\ reg'[Manager].doc = md'
          \/ Goto(Manager, "A_query")
      BY <2>1, <1>t, DocAt DEF ResolutionRead
    <3> QED BY <3>1, <1>t, GotoHolds DEF Holding, Pushing
  <2>2. CASE ResolutionFetch
    <3>1. PICK s, n : \/ /\ Goto(Manager, "R_apply")
                         /\ reg' = [reg EXCEPT ![Manager].seen = s, ![Manager].new = n]
                      \/ /\ Goto(Manager, "R_escalate")
                         /\ reg' = [reg EXCEPT ![Manager].seen = s]
                      \/ Leave(Manager, "A_query")
      BY <2>2, ZenonT(40) DEF ResolutionFetch
    <3>2. \/ /\ Goto(Manager, "R_apply") \/ Goto(Manager, "R_escalate")
             /\ reg'[Manager].doc = reg[Manager].doc
          \/ Leave(Manager, "A_query")
      BY <3>1, <1>t DEF TypeOK, Reg
    <3>3. reg[Manager].doc = md'
      BY <2>2, <1>h DEF ResolutionFetch, Holding
    <3> QED BY <3>2, <3>3, <1>l, <1>t, GotoHolds, LeaveRests
  <2>3. CASE ResolutionApply
    BY <2>3, <1>t, CallRests DEF ResolutionApply
  <2>4. CASE Escalate
    BY <2>4, <1>t, GotoHolds DEF Escalate, Holding, Pushing
  <2>5. CASE CreateRow
    BY <2>5, <1>t, <1>l, LeaveRests DEF CreateRow
  <2> QED BY <1>3, <2>1, <2>2, <2>3, <2>4, <2>5 DEF ConflictResolution
<1>4. CASE ConflictApply
  <2>1. CASE QueryRows
    BY <2>1, <1>t, <1>l, GotoHolds, LeaveRests DEF QueryRows, Holding, Pushing
  <2>2. CASE NextRow
    <3>1. \/ Leave(Manager, "idle")
          \/ \E x \in reg[Manager].todo : \E n :
               /\ reg' = [reg EXCEPT ![Manager].doc = md, ![Manager].row = {x},
                          ![Manager].new = n, ![Manager].todo = reg[Manager].todo \ {x}]
               /\ Goto(Manager, IF x[2] = "resolved_notion" /\ n = {} THEN "A_fetch" ELSE "A_write")
      BY <2>2 DEF NextRow
    <3>2. \/ Leave(Manager, "idle")
          \/ /\ Goto(Manager, "A_fetch") \/ Goto(Manager, "A_write")
             /\ reg'[Manager].doc = md
      <4>1. ASSUME NEW x \in reg[Manager].todo, NEW n,
                   reg' = [reg EXCEPT ![Manager].doc = md, ![Manager].row = {x},
                             ![Manager].new = n, ![Manager].todo = reg[Manager].todo \ {x}]
            PROVE  reg'[Manager].doc = md
        BY <4>1, <1>t DEF TypeOK, Reg
      <4> QED BY <3>1, <4>1
    <3>3. md' = md
      BY <2>2 DEF NextRow
    <3> QED BY <3>2, <3>3, <1>t, <1>l, GotoHolds, LeaveRests
  <2>3. CASE ApplyFetch
    <3>1. \/ Leave(Manager, "A_next")
          \/ Goto(Manager, "A_write") /\ reg'[Manager].doc = reg[Manager].doc
      BY <2>3, <1>t DEF ApplyFetch, TypeOK, Reg
    <3>2. reg[Manager].doc = md'
      BY <2>3, <1>h DEF ApplyFetch, Holding
    <3> QED BY <3>1, <3>2, <1>t, <1>l, GotoHolds, LeaveRests
  <2>4. CASE ApplyWrite
    BY <2>4, <1>t, CallRests DEF ApplyWrite
  <2>5. CASE MarkApplied
    BY <2>5, <1>t, <1>l, LeaveRests DEF MarkApplied
  <2> QED BY <1>4, <2>1, <2>2, <2>3, <2>4, <2>5 DEF ConflictApply
<1> QED BY <1>1, <1>2, <1>3, <1>4

LEMMA WriterHolds ==
  ASSUME TurnInv, NEW w \in Writers, WriteStart(w) \/ SyncAll(w) \/ Writer(w)
  PROVE  HoldsStore(w)'
<1>t. TypeOK /\ w \in Procs
  BY DEF TurnInv, LocalInv, Procs
<1>d. md \in Doc
  BY <1>t DEF TypeOK
<1>1. CASE WriteStart(w)
  <2>1. ASSUME NEW body \in Body, NEW s \in Signed,
               reg' = [reg EXCEPT ![w].doc = [md EXCEPT !.sig = IF s # {} THEN s ELSE @],
                                  ![w].new = body],
               Goto(w, "W_write")
        PROVE  HoldsStore(w)'
    <3>1. reg'[w].doc = [md EXCEPT !.sig = IF s # {} THEN s ELSE @]
      BY <2>1, <1>t DEF TypeOK, Reg
    <3>2. reg'[w].doc = [md' EXCEPT !.sig = reg'[w].doc.sig]
      BY <3>1, <1>1, <1>d DEF WriteStart, Doc
    <3>3. pc'[w] = "W_write"
      BY <1>t, <2>1, GotoAt
    <3> QED BY <3>2, <3>3 DEF HoldsStore, Holding, Pushing
  <2>2. ASSUME NEW l \in Lines \ Directives,
               reg' = [reg EXCEPT ![w].doc = md, ![w].new = {l}], Goto(w, "W_prepend")
        PROVE  HoldsStore(w)'
    <3>1. [reg[w] EXCEPT !.doc = md, !.new = {l}].doc = md
      BY <1>t, RegFields DEF Reg
    <3>2. reg'[w].doc = md
      BY <2>2, <3>1, <1>t DEF TypeOK
    <3>3. md' = md
      BY <1>1 DEF WriteStart
    <3> QED BY <2>2, <3>2, <3>3, <1>t, GotoHolds
  <2> QED BY <1>1, <2>1, <2>2 DEF WriteStart
<1>2. CASE SyncAll(w)
  BY <1>2, <1>t, CallRests DEF SyncAll
<1>3. CASE WritePrepend(w)
  <2>1. reg'[w].doc = md /\ md' = md
    BY <1>3, <1>t DEF WritePrepend, TypeOK, Reg, TurnInv, HoldsStore, Holding
  <2>2. pc'[w] = "W_write"
    BY <1>3, <1>t, GotoAt DEF WritePrepend
  <2> QED BY <2>1, <2>2, <1>d DEF HoldsStore, Holding, Pushing, Doc
<1>4. CASE WriteStore(w)
  <2>1. Call(w, FALSE, "idle") \/ Leave(w, "idle")
    BY <1>4 DEF WriteStore
  <2> QED BY <2>1, <1>t, CallRests, LeaveRests DEF RetLabels
<1> QED BY <1>1, <1>2, <1>3, <1>4 DEF Writer

\* In turns, whoever takes a step is alone, before it and after it.
LEMMA Alone ==
  ASSUME Overlap = FALSE, LocalInv, NEW p \in Procs, Turn(p)
  PROVE  /\ \A q \in Procs \ {p} : pc[q] = "idle" /\ pc'[q] = "idle"
         /\ [Next]_vars
<1>1. [Next]_vars
  <2>1. CASE p \in Writers /\ (WriteStart(p) \/ SyncAll(p) \/ Writer(p) \/ SyncDoc(p))
    BY <2>1 DEF Next, WriterStep
  <2>2. CASE p = Manager /\ (SyncPull \/ WikiDirective \/ ConflictResolution
                               \/ ConflictApply \/ SyncDoc(p))
    BY <2>2 DEF Next, Pass
  <2>3. CASE Crash(p)
    BY <2>3 DEF Next
  <2> QED BY <2>1, <2>2, <2>3 DEF Turn, Procs
<1>2. CASE Crash(p)
  <2>1. pc[p] # "idle" /\ pc' = [pc EXCEPT ![p] = "idle"]
    BY <1>2 DEF Crash, Goto
  <2> QED BY <1>1, <2>1 DEF LocalInv, Solo, TypeOK
<1>3. CASE ~Crash(p)
  <2>1. Moves(p)
    BY <1>3, SyncDocMoves, PassMoves, WriterMoves DEF Turn
  <2>2. PICK label \in PcLabels : pc' = [pc EXCEPT ![p] = label]
    BY <2>1 DEF Moves, Goto
  <2>3. \A q \in Procs \ {p} : pc[q] = "idle"
    BY <2>1 DEF Moves, Quiet, LocalInv, Solo
  <2> QED BY <1>1, <2>2, <2>3 DEF LocalInv, TypeOK
<1> QED BY <1>1, <1>2, <1>3

\* People act only while nothing is under way.
LEMMA PeopleWait ==
  ASSUME Overlap = FALSE, People
  PROVE  /\ UNCHANGED <<pc, reg, faults>> /\ [Next]_vars
         /\ \A p \in Procs : pc[p] = "idle" /\ pc'[p] = "idle"
  BY DEF People, Next, EditMarkdown, EditNotion, Relabel, AdminResolve, Quiet

LEMMA TurnInit == Init => TurnInv
<1> SUFFICES ASSUME Init PROVE TurnInv
  OBVIOUS
<1>1. \A p \in Procs : pc[p] = "idle"
  BY DEF Init
<1>2. LocalInv
  BY <1>1, TypeInit DEF LocalInv, Solo, Pushing
<1> QED BY <1>1, <1>2 DEF TurnInv, HoldsStore, Holding, Pushing

LEMMA TurnStep ==
  ASSUME Overlap = FALSE, TurnInv, [Next]_vars
  PROVE  TurnInv'
<1>1. LocalInv /\ LocalInv'
  BY LocalStep DEF TurnInv
<1>t. TypeOK
  BY <1>1 DEF LocalInv
<1>2. CASE \E p \in Procs : Turn(p)
  <2>1. PICK p \in Procs : Turn(p)
    BY <1>2
  <2>2. HoldsStore(p)'
    <3>1. CASE Crash(p)
      BY <3>1, <1>t DEF Crash, Goto, TypeOK, HoldsStore, Holding, Pushing
    <3> QED BY <2>1, <3>1, SyncDocHolds, PassHolds, WriterHolds DEF Turn
  <2>3. \A q \in Procs \ {p} : HoldsStore(q)'
    BY <1>1, <2>1, Alone DEF HoldsStore, Holding, Pushing
  <2> QED BY <1>1, <2>2, <2>3 DEF TurnInv
<1>3. CASE People
  BY <1>1, <1>3, PeopleWait DEF TurnInv, HoldsStore, Holding, Pushing
<1>4. CASE UNCHANGED vars
  BY <1>1, <1>4 DEF vars, TurnInv, HoldsStore
<1> QED BY <1>2, <1>3, <1>4, NextCases

-----------------------------------------------------------------------------
(***************************************************************************)
(* Applying a decision.  From ApplyWrite to MarkApplied the page has no    *)
(* conflict, and whichever way the forced sync_doc returns without raising *)
(* the two sides agree.                                                    *)
(***************************************************************************)
Applying(p) == pc[p] = "A_mark" \/ (pc[p] \in SyncLabels /\ reg[p].ret = "A_mark")

Mirrors(p) ==
    /\ pc[p] = "S_stamp" => notion = {reg[p].doc.body}
    /\ pc[p] = "S_discover" => ~md.page
    /\ pc[p] \in {"S_fetch", "S_override"} => ~reg[p].force
    /\ Applying(p) => ~md.conflict
    /\ pc[p] \in SyncLabels /\ reg[p].ret = "A_mark" => reg[p].force
    /\ pc[p] = "A_mark" /\ md.page /\ ~md.local => notion = {md.body}

MirrorInv == TurnInv /\ \A p \in Procs : Mirrors(p)

\* Nothing but ApplyWrite begins to apply a decision.
NotApplying(p) ==
    \/ pc'[p] \notin SyncLabels \cup {"A_mark"}
    \/ pc'[p] = "S_read" /\ reg'[p].ret # "A_mark"

LEMMA NotApplyingMirrors ==
  ASSUME NEW p \in Procs, NotApplying(p)
  PROVE  Mirrors(p)'
  BY DEF NotApplying, Mirrors, Applying, SyncLabels

LEMMA CallApart ==
  ASSUME TypeOK, NEW p \in Procs, NEW force, NEW ret, Call(p, force, ret), ret # "A_mark"
  PROVE  NotApplying(p)
  BY CallAt DEF NotApplying

LEMMA GotoApart ==
  ASSUME TypeOK, NEW p \in Procs, NEW label, Goto(p, label) \/ Leave(p, label),
         label \notin SyncLabels \cup {"A_mark"}
  PROVE  NotApplying(p)
<1>1. Goto(p, label)
  BY DEF Leave, Goto
<1> QED BY <1>1, GotoAt DEF NotApplying

LEMMA PassApart ==
  ASSUME TypeOK, SyncPull \/ WikiDirective \/ ConflictResolution \/ ConflictApply, ~ApplyWrite
  PROVE  NotApplying(Manager)
<1> USE ManagerTyped DEF SyncLabels
<1>1. CASE SyncPull
  <2>1. CASE PullRead
    BY <2>1, GotoApart DEF PullRead
  <2>2. CASE PullDecide
    <3>1. \/ Leave(Manager, "D_read")
          \/ Call(Manager, FALSE, "D_read")
          \/ Goto(Manager, "P_pull") \/ Goto(Manager, "P_merge") \/ Goto(Manager, "P_mark")
      BY <2>2, Zenon DEF PullDecide
    <3> QED BY <3>1, GotoApart, CallApart
  <2>3. CASE PullWrite
    BY <2>3, GotoApart DEF PullWrite
  <2>4. CASE MergeWrite
    BY <2>4, CallApart DEF MergeWrite
  <2>5. CASE ConflictMark
    BY <2>5, GotoApart DEF ConflictMark
  <2> QED BY <1>1, <2>1, <2>2, <2>3, <2>4, <2>5 DEF SyncPull
<1>2. CASE WikiDirective
  BY <1>2, GotoApart, CallApart DEF WikiDirective, DirectiveRead, DirectiveWrite
<1>3. CASE ConflictResolution
  <2>1. CASE ResolutionFetch
    <3>1. \/ Goto(Manager, "R_apply") \/ Goto(Manager, "R_escalate")
          \/ Leave(Manager, "A_query")
      BY <2>1, Zenon DEF ResolutionFetch
    <3> QED BY <3>1, GotoApart
  <2> QED
    BY <1>3, <2>1, GotoApart, CallApart
       DEF ConflictResolution, ResolutionRead, ResolutionApply, Escalate, CreateRow
<1>4. CASE ConflictApply
  <2>1. CASE NextRow
    <3>1. \/ Leave(Manager, "idle")
          \/ Goto(Manager, "A_fetch") \/ Goto(Manager, "A_write")
      BY <2>1 DEF NextRow
    <3> QED BY <3>1, GotoApart
  <2> QED
    BY <1>4, <2>1, GotoApart DEF ConflictApply, QueryRows, ApplyFetch, MarkApplied
<1> QED BY <1>1, <1>2, <1>3, <1>4

LEMMA WriterApart ==
  ASSUME TypeOK, NEW w \in Writers, WriteStart(w) \/ SyncAll(w) \/ Writer(w)
  PROVE  NotApplying(w)
<1>0. w \in Procs
  BY DEF Procs
<1>1. \/ Goto(w, "W_write") \/ Goto(w, "W_prepend") \/ Leave(w, "idle")
      \/ Call(w, FALSE, "idle")
  BY DEF WriteStart, SyncAll, Writer, WritePrepend, WriteStore
<1> QED BY <1>0, <1>1, GotoApart, CallApart DEF SyncLabels

\* Coming back from sync_doc without an exception.
LEMMA ReturnMirrors ==
  ASSUME TypeOK, NEW p \in Procs, Return(p), pc[p] \in SyncLabels, ~md'.conflict \/ reg[p].ret # "A_mark",
         reg[p].ret = "A_mark" /\ md'.page /\ ~md'.local => notion' = {md'.body}
  PROVE  Mirrors(p)'
<1>1. pc'[p] = reg[p].ret /\ reg[p].ret \in RetLabels
  BY ReturnAt
<1> QED BY <1>1 DEF Mirrors, Applying, RetLabels, SyncLabels

LEMMA RaiseMirrors ==
  ASSUME TypeOK, NEW p \in Procs, Raise(p)
  PROVE  Mirrors(p)'
<1>1. pc'[p] \in (RetLabels \cup {"A_next"}) \ {"A_mark"}
  BY RaiseAt
<1> QED BY <1>1 DEF Mirrors, Applying, RetLabels, SyncLabels

LEMMA SyncDocMirrors ==
  ASSUME MirrorInv, NEW p \in Procs, SyncDoc(p)
  PROVE  Mirrors(p)'
<1>t. TypeOK /\ Mirrors(p) /\ HoldsStore(p)
  BY DEF MirrorInv, TurnInv, LocalInv
<1>h. pc[p] \in Pushing => reg[p].doc = md
  BY <1>t DEF HoldsStore, Holding
<1>a. pc[p] \in SyncLabels /\ reg[p].ret = "A_mark" => ~md.conflict /\ reg[p].force
  BY <1>t DEF Mirrors, Applying
<1>1. CASE SyncRead(p)
  <2>p. pc[p] \in SyncLabels /\ UNCHANGED <<md, notion>>
    BY <1>1 DEF SyncRead, SyncLabels
  <2>1. CASE Return(p)
    <3>1. reg[p].ret = "A_mark" => ~md.page \/ md.local
      <4>1. CASE md.local \/ (md.page /\ ~reg[p].force /\ md.synced = {md.body})
        BY <4>1, <1>a, <2>p
      <4>2. CASE ~(md.local \/ (md.page /\ ~reg[p].force /\ md.synced = {md.body}))
        <5>1. pc'[p] \in {"S_discover", "S_push", "S_fetch"}
          <6>1. Goto(p, "S_discover") \/ Goto(p, "S_push") \/ Goto(p, "S_fetch")
            BY <1>1, <4>2, Zenon DEF SyncRead
          <6> QED BY <6>1, <1>t, GotoAt
        <5>2. pc'[p] \in RetLabels
          BY <2>1, <1>t, ReturnAt
        <5> QED BY <5>1, <5>2 DEF RetLabels
      <4> QED BY <4>1, <4>2
    <3> QED BY <2>1, <2>p, <3>1, <1>a, <1>t, ReturnMirrors
  <2>2. CASE ~Return(p)
    <3>1. reg'[p].force = reg[p].force /\ reg'[p].ret = reg[p].ret
      BY <1>1, <2>2, <1>t, DocAt DEF SyncRead
    <3>2. \/ Goto(p, "S_discover") /\ ~md.page
          \/ Goto(p, "S_push")
          \/ Goto(p, "S_fetch") /\ ~reg[p].force
      BY <1>1, <2>2, Zenon DEF SyncRead
    <3>3. \/ pc'[p] = "S_discover" /\ ~md.page
          \/ pc'[p] = "S_push"
          \/ pc'[p] = "S_fetch" /\ ~reg[p].force
      BY <3>2, <1>t, GotoAt
    <3> QED BY <3>1, <3>3, <2>p, <1>a DEF Mirrors, Applying
  <2> QED BY <2>1, <2>2
<1>2. CASE SyncDiscover(p)
  <2>p. pc[p] = "S_discover" /\ pc[p] \in SyncLabels /\ UNCHANGED <<md, notion>>
    BY <1>2 DEF SyncDiscover, SyncLabels
  <2>1. CASE Return(p)
    BY <2>1, <2>p, <1>a, <1>t, ReturnMirrors DEF Mirrors
  <2>2. CASE ~Return(p)
    <3>1. /\ UNCHANGED reg
          /\ \/ Goto(p, "S_push")
             \/ Goto(p, "S_fetch") /\ ~reg[p].force
             \/ Goto(p, "S_create")
      BY <1>2, <2>2, Zenon DEF SyncDiscover
    <3>2. \/ pc'[p] = "S_push"
          \/ pc'[p] = "S_fetch" /\ ~reg[p].force
          \/ pc'[p] = "S_create"
      BY <3>1, <1>t, GotoAt
    <3> QED BY <3>1, <3>2, <2>p, <1>a DEF Mirrors, Applying
  <2> QED BY <2>1, <2>2
<1>3. CASE SyncFetch(p)
  <2>1. reg'[p].force = reg[p].force /\ reg'[p].ret = reg[p].ret
    BY <1>3, <1>t DEF SyncFetch, TypeOK, Reg
  <2>2. Goto(p, "S_override") \/ Goto(p, "S_push")
    BY <1>3 DEF SyncFetch
  <2>3. pc'[p] = "S_override" \/ pc'[p] = "S_push"
    BY <2>2, <1>t, GotoAt
  <2>4. pc[p] \in SyncLabels /\ UNCHANGED <<md, notion>> /\ ~reg[p].force
    BY <1>3, <1>t DEF SyncFetch, SyncLabels, Mirrors
  <2> QED BY <2>1, <2>3, <2>4, <1>a DEF Mirrors, Applying
<1>4. CASE SyncOverride(p)
  <2>1. Return(p) /\ pc[p] \in SyncLabels /\ ~reg[p].force
    BY <1>4, <1>t DEF SyncOverride, SyncLabels, Mirrors
  <2> QED BY <2>1, <1>a, <1>t, ReturnMirrors
<1>5. CASE SyncPush(p)
  <2>1. CASE Raise(p)
    BY <2>1, <1>t, RaiseMirrors
  <2>2. CASE ~Raise(p)
    <3>1. /\ notion' = {reg[p].doc.body} /\ UNCHANGED <<reg, md>>
          /\ Goto(p, "S_stamp") /\ pc[p] \in SyncLabels
      BY <1>5, <2>2 DEF SyncPush, SyncLabels
    <3>2. pc'[p] = "S_stamp"
      BY <3>1, <1>t, GotoAt
    <3> QED BY <3>1, <3>2, <1>a DEF Mirrors, Applying
  <2> QED BY <2>1, <2>2
<1>6. CASE SyncStamp(p)
  <2>1. /\ md' = [StampAgentPush(reg[p].doc) EXCEPT !.page = TRUE, !.synced = {reg[p].doc.body}]
        /\ Return(p) /\ notion' = notion /\ pc[p] \in SyncLabels /\ notion = {reg[p].doc.body}
    BY <1>6, <1>t DEF SyncStamp, SyncLabels, Mirrors
  <2>2. reg[p].doc \in Doc
    BY <1>t, RegFields
  <2>3. ~md'.conflict /\ md'.body = reg[p].doc.body
    BY <2>1, <2>2 DEF StampAgentPush, Doc
  <2> QED BY <2>1, <2>3, <1>t, ReturnMirrors
<1> QED BY <1>1, <1>2, <1>3, <1>4, <1>5, <1>6 DEF SyncDoc

LEMMA ApplyWriteMirrors ==
  ASSUME TypeOK, ApplyWrite
  PROVE  Mirrors(Manager)'
<1>1. /\ pc'[Manager] = "S_read" /\ reg'[Manager].force = TRUE /\ reg'[Manager].ret = "A_mark"
  <2>1. Call(Manager, TRUE, "A_mark")
    BY DEF ApplyWrite
  <2> QED BY <2>1, ForcedCallAt, ManagerTyped
<1>2. reg[Manager].doc \in Doc
  BY RegFields, ManagerTyped
<1>3. ~md'.conflict
  BY <1>2 DEF ApplyWrite, Settle, Doc
<1> QED BY <1>1, <1>3 DEF Mirrors, Applying

LEMMA MirrorStep ==
  ASSUME Overlap = FALSE, MirrorInv, [Next]_vars
  PROVE  MirrorInv'
<1>1. TurnInv /\ TurnInv'
  BY TurnStep DEF MirrorInv
<1>t. TypeOK /\ LocalInv
  BY <1>1 DEF TurnInv, LocalInv
<1>2. CASE \E p \in Procs : Turn(p)
  <2>1. PICK p \in Procs : Turn(p)
    BY <1>2
  <2>2. Mirrors(p)'
    <3>1. CASE SyncDoc(p)
      BY <3>1, SyncDocMirrors
    <3>2. CASE p = Manager /\ ApplyWrite
      BY <3>2, <1>t, ApplyWriteMirrors
    <3>3. CASE p = Manager /\ ~ApplyWrite
               /\ (SyncPull \/ WikiDirective \/ ConflictResolution \/ ConflictApply)
      BY <3>3, <1>t, PassApart, NotApplyingMirrors
    <3>4. CASE p \in Writers /\ (WriteStart(p) \/ SyncAll(p) \/ Writer(p))
      BY <3>4, <1>t, WriterApart, NotApplyingMirrors
    <3>5. CASE Crash(p)
      <4>1. pc'[p] = "idle"
        BY <3>5, <1>t, GotoAt DEF Crash
      <4> QED BY <4>1, NotApplyingMirrors DEF NotApplying, SyncLabels
    <3> QED BY <2>1, <3>1, <3>2, <3>3, <3>4, <3>5 DEF Turn
  <2>3. \A q \in Procs \ {p} : pc'[q] = "idle"
    BY <1>t, <2>1, Alone
  <2>4. \A q \in Procs \ {p} : Mirrors(q)'
    BY <2>3, NotApplyingMirrors DEF NotApplying, SyncLabels
  <2> QED BY <1>1, <2>2, <2>4 DEF MirrorInv
<1>3. CASE People
  <2>1. \A p \in Procs : pc'[p] = "idle"
    BY <1>3, PeopleWait
  <2> QED BY <1>1, <2>1, NotApplyingMirrors DEF MirrorInv, NotApplying, SyncLabels
<1>4. CASE UNCHANGED vars
  BY <1>1, <1>4 DEF vars, MirrorInv, Mirrors, Applying
<1> QED BY <1>2, <1>3, <1>4, NextCases

\* When passes, writers and people take turns, the decision that conflict_apply
\* marks as applied is in force on both sides: whatever failed or was killed
\* before, a forced sync_doc that returns without raising has left Notion with the
\* Markdown body, and the page without a conflict.
THEOREM AppliedCorrect ==
  ASSUME Overlap = FALSE
  PROVE  Spec => AppliedMeansMirrored
<1>1. Init => MirrorInv
  <2>1. Init => \A p \in Procs : pc[p] = "idle"
    BY DEF Init
  <2> QED BY <2>1, TurnInit DEF MirrorInv, Mirrors, Applying, SyncLabels
<1>2. MirrorInv /\ [Next]_vars => MirrorInv'
  BY MirrorStep
<1>3. MirrorInv /\ [Next]_vars
        => [(rows' # rows /\ pc[Manager] = "A_mark" /\ md.page /\ ~md.local)
              => notion = {md.body} /\ ~md.conflict]_vars
  BY ManagerTyped DEF MirrorInv, Mirrors, Applying
<1> QED BY <1>1, <1>2, <1>3, PTL DEF Spec, AppliedMeansMirrored

-----------------------------------------------------------------------------
(***************************************************************************)
(* One open row.  A row that is not done with belongs to a page marked as  *)
(* enqueued, except while conflict_apply, which takes the mark away before *)
(* it closes the row, is at work on that very row.  A conflict_apply that  *)
(* fails or is killed in between leaves the row without its mark: that row *)
(* is counted against the fault.                                           *)
(***************************************************************************)
Unsettled == {r \in Rows : ~Free(r)}

AtWork == pc[Manager] \in {"A_fetch", "A_write"} \/ Applying(Manager)

Counted ==
    /\ IsFiniteSet(Unsettled)
    /\ Cardinality(Unsettled) <= faults + (IF md.enqueued \/ Applying(Manager) THEN 1 ELSE 0)

Asking ==
    /\ pc[Manager] = "R_row" => md.enqueued /\ Cardinality(Unsettled) <= faults
    /\ pc[Manager] = "R_escalate" => ~md.enqueued
    /\ pc[Manager] # "R_apply"

InHand ==
    /\ pc[Manager] = "A_next" \/ AtWork => \A x \in reg[Manager].todo : rows[x[1]] = x[2]
    /\ AtWork => /\ reg[Manager].row # {}
                 /\ \A x \in reg[Manager].row : rows[x[1]] = x[2] /\ x \notin reg[Manager].todo

AskedInv == TurnInv /\ Counted /\ Asking /\ InHand

\* A step has a fault or none.
LEMMA FaultOrNot ==
  ASSUME [Next]_vars
  PROVE  Fault \/ NoFault
  BY DEF Next, Pass, SyncPull, PullRead, PullDecide, PullWrite, MergeWrite, ConflictMark,
       WikiDirective, DirectiveRead, DirectiveWrite, ConflictResolution, ResolutionRead,
       ResolutionFetch, ResolutionApply, Escalate, CreateRow, ConflictApply, QueryRows,
       NextRow, ApplyFetch, ApplyWrite, MarkApplied, SyncDoc, SyncRead, SyncDiscover, SyncFetch,
       SyncOverride, SyncPush, SyncStamp, WriteStart, SyncAll, WriterStep, Writer, WritePrepend,
       WriteStore, EditMarkdown, EditNotion, Relabel, AdminResolve, Crash, NoFault, vars

\* A count of faults that is still zero was zero before, and the step had none.
LEMMA NoFaultYet ==
  ASSUME TypeOK, [Next]_vars, faults' = 0
  PROVE  faults = 0 /\ NoFault
  BY FaultOrNot DEF Fault, NoFault, TypeOK

\* The count goes on to hold while the rows are as settled as before, if a fault
\* pays for a mark that is taken away.
LEMMA StillCounted ==
  ASSUME TypeOK, Counted, Unsettled' = Unsettled, Fault \/ NoFault,
         Fault \/ (md.enqueued \/ Applying(Manager) => md'.enqueued \/ Applying(Manager)')
  PROVE  Counted'
<1>1. Cardinality(Unsettled) \in Nat /\ faults \in Nat
  BY FS_CardinalityType DEF Counted, TypeOK
<1>2. \/ faults' = faults + 1
      \/ /\ faults' = faults
         /\ md.enqueued \/ Applying(Manager) => md'.enqueued \/ Applying(Manager)'
  BY DEF Fault, NoFault
<1> QED BY <1>1, <1>2 DEF Counted

LEMMA SameUnsettled ==
  ASSUME UNCHANGED rows
  PROVE  Unsettled' = Unsettled
  BY DEF Unsettled, Free

\* Places of the manager where no row is in hand.
Elsewhere == {"idle", "P_fetch", "P_pull", "P_merge", "P_mark", "D_read", "D_write",
              "R_read", "R_fetch", "A_query"}

\* A step that leaves the rows as settled as they were, and the manager away from them.
LEMMA ElsewhereAsks ==
  ASSUME TypeOK, Counted, Unsettled' = Unsettled, md'.enqueued = md.enqueued,
         Fault \/ NoFault, Fault \/ ~Applying(Manager),
         \/ pc'[Manager] \in Elsewhere
         \/ pc'[Manager] = "S_read" /\ reg'[Manager].ret # "A_mark"
  PROVE  Counted' /\ Asking' /\ InHand'
<1>1. ~AtWork' /\ pc'[Manager] \notin {"A_next", "R_row", "R_escalate", "R_apply"}
  BY DEF Applying, AtWork, SyncLabels, Elsewhere
<1>2. Counted'
  BY StillCounted
<1> QED BY <1>1, <1>2 DEF Asking, InHand

LEMMA CallElsewhere ==
  ASSUME TypeOK, NEW force, NEW ret, Call(Manager, force, ret), ret # "A_mark"
  PROVE  pc'[Manager] = "S_read" /\ reg'[Manager].ret # "A_mark"
  BY CallAt, ManagerTyped

LEMMA GotoElsewhere ==
  ASSUME TypeOK, NEW label \in Elsewhere, Goto(Manager, label) \/ Leave(Manager, label)
  PROVE  pc'[Manager] \in Elsewhere
<1>1. Goto(Manager, label)
  BY DEF Leave, Goto
<1> QED BY <1>1, GotoAt, ManagerTyped

\* sync_pull, wiki_directive and the read of conflict_resolution.
LEMMA FirstHalfAsks ==
  ASSUME TurnInv, Counted, SyncPull \/ WikiDirective \/ ResolutionRead, Fault \/ NoFault
  PROVE  Counted' /\ Asking' /\ InHand'
<1>t. TypeOK /\ HoldsStore(Manager) /\ reg[Manager].doc \in Doc
  BY RegFields, ManagerTyped DEF TurnInv, LocalInv
<1> USE DEF Elsewhere
<1>1. ~Applying(Manager) /\ UNCHANGED rows
  BY DEF Applying, SyncLabels, SyncPull, PullRead, PullDecide, PullWrite, MergeWrite, ConflictMark,
         WikiDirective, DirectiveRead, DirectiveWrite, ResolutionRead
<1>2. md'.enqueued = md.enqueued
  <2>1. CASE UNCHANGED md
    BY <2>1
  <2>2. CASE PullWrite \/ MergeWrite \/ ConflictMark \/ DirectiveWrite
    <3>1. md = reg[Manager].doc
      BY <2>2, <1>t DEF HoldsStore, Holding, PullWrite, MergeWrite, ConflictMark, DirectiveWrite
    <3> QED BY <2>2, <3>1, <1>t DEF PullWrite, MergeWrite, ConflictMark, DirectiveWrite,
                StampHumanOverride, MarkSyncConflict, Doc
  <2> QED BY <2>1, <2>2 DEF SyncPull, WikiDirective, PullRead, PullDecide, DirectiveRead, ResolutionRead
<1>3. \/ pc'[Manager] \in Elsewhere
      \/ pc'[Manager] = "S_read" /\ reg'[Manager].ret # "A_mark"
  <2>1. CASE PullDecide
    <3>1. \/ Leave(Manager, "D_read")
          \/ Call(Manager, FALSE, "D_read")
          \/ Goto(Manager, "P_pull") \/ Goto(Manager, "P_merge") \/ Goto(Manager, "P_mark")
      BY <2>1, Zenon DEF PullDecide
    <3> QED BY <3>1, <1>t, GotoElsewhere, CallElsewhere
  <2>2. CASE PullRead \/ DirectiveRead \/ ResolutionRead
    <3>1. \/ Goto(Manager, "P_fetch") \/ Goto(Manager, "D_read") \/ Goto(Manager, "R_read")
          \/ Goto(Manager, "D_write") \/ Goto(Manager, "R_fetch") \/ Goto(Manager, "A_query")
      BY <2>2 DEF PullRead, DirectiveRead, ResolutionRead
    <3> QED BY <3>1, <1>t, GotoElsewhere
  <2>3. CASE PullWrite \/ ConflictMark
    BY <2>3, <1>t, GotoElsewhere DEF PullWrite, ConflictMark
  <2>4. CASE MergeWrite \/ DirectiveWrite
    <3>1. Call(Manager, TRUE, "D_read") \/ Call(Manager, FALSE, "R_read")
      BY <2>4 DEF MergeWrite, DirectiveWrite
    <3> QED BY <3>1, <1>t, CallElsewhere
  <2> QED BY <2>1, <2>2, <2>3, <2>4 DEF SyncPull, WikiDirective
<1> QED BY <1>1, <1>2, <1>3, <1>t, SameUnsettled, ElsewhereAsks

LEMMA ConflictResolutionAsks ==
  ASSUME Evidence = {}, AskedInv, ConflictResolution, Fault \/ NoFault
  PROVE  Counted' /\ Asking' /\ InHand'
<1>t. TypeOK /\ HoldsStore(Manager) /\ reg[Manager].doc \in Doc
  BY RegFields, ManagerTyped DEF AskedInv, TurnInv, LocalInv
<1>n. Cardinality(Unsettled) \in Nat /\ faults \in Nat /\ IsFiniteSet(Unsettled)
  BY <1>t, FS_CardinalityType DEF AskedInv, Counted, TypeOK
<1>1. CASE ResolutionRead
  BY <1>1, FirstHalfAsks DEF AskedInv
<1>2. CASE ResolutionFetch
  <2>1. /\ ~Applying(Manager) /\ UNCHANGED <<md, rows>> /\ pc[Manager] = "R_fetch"
        /\ reg[Manager].doc = md
    BY <1>2, <1>t DEF ResolutionFetch, Applying, SyncLabels, HoldsStore, Holding
  <2>2. \/ Goto(Manager, "R_escalate") /\ ~reg[Manager].doc.enqueued
        \/ Leave(Manager, "A_query")
    <3>1. PICK live \in BOOLEAN, winner \in {"unclear"} :
            LET doc == reg[Manager].doc
                body == IF live THEN UNION notion ELSE UNION doc.stash
                wins == \/ winner = "md" /\ doc.body # {}
                        \/ winner = "notion" /\ body # {}
            IN \/ wins
               \/ Goto(Manager, "R_escalate") /\ ~doc.enqueued
               \/ Leave(Manager, "A_query")
      BY <1>2, Zenon DEF ResolutionFetch
    <3> QED BY <3>1
  <2>3. CASE Leave(Manager, "A_query")
    BY <2>1, <2>3, <1>t, GotoElsewhere, SameUnsettled, ElsewhereAsks DEF Elsewhere, AskedInv
  <2>4. CASE Goto(Manager, "R_escalate") /\ ~reg[Manager].doc.enqueued
    <3>1. pc'[Manager] = "R_escalate"
      BY <2>4, <1>t, GotoAt, ManagerTyped
    <3>2. Counted'
      BY <2>1, <1>t, SameUnsettled, StillCounted DEF AskedInv
    <3>3. Asking' /\ InHand'
      BY <2>1, <2>4, <3>1 DEF Asking, InHand, AtWork, Applying, SyncLabels
    <3> QED BY <3>2, <3>3
  <2> QED BY <2>2, <2>3, <2>4
<1>3. CASE ResolutionApply
  BY <1>3 DEF ResolutionApply, AskedInv, Asking
<1>4. CASE Escalate
  <2>1. /\ pc'[Manager] = "R_row" /\ UNCHANGED <<rows, faults>> /\ ~Applying(Manager)
        /\ pc[Manager] = "R_escalate"
    BY <1>4, <1>t, GotoAt, ManagerTyped DEF Escalate, Applying, SyncLabels, NoFault
  <2>2. Cardinality(Unsettled) <= faults
    BY <2>1, <1>n DEF AskedInv, Counted, Asking
  <2>3. md'.enqueued /\ Unsettled' = Unsettled
    BY <1>4, <2>1, <1>t, SameUnsettled DEF Escalate, Doc
  <2>4. Counted' /\ Asking'
    BY <2>1, <2>2, <2>3, <1>n DEF Counted, Asking
  <2>5. InHand'
    BY <2>1 DEF InHand, AtWork, Applying, SyncLabels
  <2> QED BY <2>4, <2>5
<1>5. CASE CreateRow
  <2>1. /\ pc'[Manager] = "A_query" /\ UNCHANGED md /\ ~Applying(Manager)
        /\ md.enqueued /\ Cardinality(Unsettled) <= faults
    BY <1>5, <1>t, LeaveAt, ManagerTyped DEF CreateRow, AskedInv, Asking, Applying, SyncLabels
  <2>2. CASE UNCHANGED rows
    BY <2>1, <2>2, <1>t, SameUnsettled, ElsewhereAsks DEF Elsewhere, AskedInv
  <2>3. CASE rows' # rows
    <3>1. PICK r \in Rows : rows' = [rows EXCEPT ![r] = "open"] /\ UNCHANGED faults
      BY <1>5, <2>3 DEF CreateRow, NoFault
    <3>2. Unsettled' = Unsettled \cup {r}
      BY <3>1, <1>t DEF Unsettled, Free, TypeOK
    <3>3. IsFiniteSet(Unsettled') /\ Cardinality(Unsettled') <= faults + 1
      <4>1. /\ IsFiniteSet(Unsettled')
            /\ \/ Cardinality(Unsettled') = Cardinality(Unsettled)
               \/ Cardinality(Unsettled') = Cardinality(Unsettled) + 1
        BY <3>2, <1>n, FS_AddElement
      <4> QED BY <4>1, <2>1, <1>n
    <3>4. Counted'
      BY <3>1, <3>3, <2>1 DEF Counted
    <3>5. Asking' /\ InHand'
      BY <2>1 DEF Asking, InHand, AtWork, Applying, SyncLabels
    <3> QED BY <3>4, <3>5
  <2> QED BY <2>2, <2>3
<1> QED BY <1>1, <1>2, <1>3, <1>4, <1>5 DEF ConflictResolution

\* The manager gives the rest of its query up, or turns to the next row of it.
LEMMA NextAsks ==
  ASSUME TypeOK, Counted, UNCHANGED <<md, rows>>, Fault \/ NoFault, Fault \/ ~Applying(Manager),
         pc'[Manager] = "A_next", \A x \in reg'[Manager].todo : rows[x[1]] = x[2]
  PROVE  Counted' /\ Asking' /\ InHand'
<1>1. Counted'
  BY SameUnsettled, StillCounted
<1> QED BY <1>1 DEF Asking, InHand, AtWork, Applying, SyncLabels

LEMMA ConflictApplyAsks ==
  ASSUME AskedInv, ConflictApply, Fault \/ NoFault
  PROVE  Counted' /\ Asking' /\ InHand'
<1>t. TypeOK /\ reg[Manager].todo \in SUBSET (Rows \X Resolved)
      /\ reg[Manager].row \in SUBSET (Rows \X Resolved) /\ reg[Manager] \in Reg
  BY RegFields, ManagerTyped DEF AskedInv, TurnInv, LocalInv, Maybe
<1>n. Cardinality(Unsettled) \in Nat /\ faults \in Nat /\ IsFiniteSet(Unsettled) /\ Counted
  BY <1>t, FS_CardinalityType DEF AskedInv, Counted, TypeOK
<1>1. CASE QueryRows
  <2>p. UNCHANGED <<md, rows>> /\ ~Applying(Manager)
    BY <1>1 DEF QueryRows, Applying, SyncLabels
  <2>1. CASE Leave(Manager, "idle")
    BY <2>1, <2>p, <1>t, <1>n, GotoElsewhere, SameUnsettled, ElsewhereAsks DEF Elsewhere
  <2>2. CASE ~Leave(Manager, "idle")
    <3>1. /\ reg' = [reg EXCEPT ![Manager].todo = {x \in Rows \X Resolved : rows[x[1]] = x[2]}]
          /\ Goto(Manager, "A_next")
      BY <1>1, <2>2 DEF QueryRows
    <3>2. pc'[Manager] = "A_next"
      BY <3>1, <1>t, GotoAt, ManagerTyped
    <3>3. reg'[Manager].todo = {x \in Rows \X Resolved : rows[x[1]] = x[2]}
      BY <3>1, <1>t, ManagerTyped DEF TypeOK, Reg
    <3> QED BY <2>p, <3>2, <3>3, <1>t, <1>n, NextAsks
  <2> QED BY <2>1, <2>2
<1>2. CASE NextRow
  <2>p. UNCHANGED <<md, rows>> /\ ~Applying(Manager) /\ pc[Manager] = "A_next"
        /\ \A x \in reg[Manager].todo : rows[x[1]] = x[2]
    BY <1>2 DEF NextRow, Applying, SyncLabels, AskedInv, InHand
  <2>1. CASE Leave(Manager, "idle")
    BY <2>1, <2>p, <1>t, <1>n, GotoElsewhere, SameUnsettled, ElsewhereAsks DEF Elsewhere
  <2>2. CASE ~Leave(Manager, "idle")
    <3>1. PICK x \in reg[Manager].todo, n \in Body :
               /\ reg' = [reg EXCEPT ![Manager].doc = md, ![Manager].row = {x},
                          ![Manager].new = n, ![Manager].todo = reg[Manager].todo \ {x}]
               /\ Goto(Manager, IF x[2] = "resolved_notion" /\ n = {} THEN "A_fetch" ELSE "A_write")
      <4>1. md.body \in Body /\ UNION md.stash \in Body
        BY <1>t, DocFields, MaybeBody DEF TypeOK
      <4> QED BY <1>2, <2>2, <4>1 DEF NextRow
    <3>2. pc'[Manager] \in {"A_fetch", "A_write"}
      BY <3>1, <1>t, GotoAt, ManagerTyped
    <3>3. /\ reg'[Manager].row = {x} /\ reg'[Manager].todo = reg[Manager].todo \ {x}
      <4> DEFINE my == [reg[Manager] EXCEPT !.doc = md, !.row = {x}, !.new = n,
                                            !.todo = reg[Manager].todo \ {x}]
      <4>1. my.row = {x} /\ my.todo = reg[Manager].todo \ {x}
        BY <1>t DEF Reg
      <4> QED BY <3>1, <4>1, <1>t, ManagerTyped DEF TypeOK
    <3>4. Counted'
      BY <2>p, <1>t, <1>n, SameUnsettled, StillCounted
    <3>5. Asking' /\ InHand'
      BY <2>p, <3>1, <3>2, <3>3 DEF Asking, InHand
    <3> QED BY <3>4, <3>5
  <2> QED BY <2>1, <2>2
<1>3. CASE ApplyFetch
  <2>p. UNCHANGED <<md, rows>> /\ ~Applying(Manager) /\ pc[Manager] = "A_fetch" /\ AtWork
    BY <1>3 DEF ApplyFetch, Applying, AtWork, SyncLabels
  <2>1. CASE Leave(Manager, "A_next")
    <3>1. pc'[Manager] = "A_next" /\ reg'[Manager].todo = reg[Manager].todo
      BY <2>1, <1>t, LeaveAt, ManagerTyped
    <3> QED BY <2>p, <3>1, <1>t, <1>n, NextAsks DEF AskedInv, InHand
  <2>2. CASE ~Leave(Manager, "A_next")
    <3>1. PICK n : reg' = [reg EXCEPT ![Manager].new = n] /\ Goto(Manager, "A_write")
      BY <1>3, <2>2 DEF ApplyFetch
    <3>2. reg'[Manager].todo = reg[Manager].todo /\ reg'[Manager].row = reg[Manager].row
      BY <3>1, <1>t, ManagerTyped DEF TypeOK, Reg
    <3>3. pc'[Manager] = "A_write"
      BY <3>1, <1>t, GotoAt, ManagerTyped
    <3>4. Counted'
      BY <2>p, <1>t, <1>n, SameUnsettled, StillCounted
    <3>5. Asking' /\ InHand'
      BY <2>p, <3>2, <3>3 DEF AskedInv, Asking, InHand
    <3> QED BY <3>4, <3>5
  <2> QED BY <2>1, <2>2
<1>4. CASE ApplyWrite
  <2>1. Call(Manager, TRUE, "A_mark") /\ UNCHANGED rows /\ AtWork
    BY <1>4 DEF ApplyWrite, AtWork
  <2>2. /\ pc'[Manager] = "S_read" /\ reg'[Manager].ret = "A_mark"
        /\ reg'[Manager].row = reg[Manager].row /\ reg'[Manager].todo = reg[Manager].todo
    BY <2>1, <1>t, ForcedCallAt, ManagerTyped
  <2>3. Applying(Manager)' /\ AtWork'
    BY <2>2 DEF Applying, SyncLabels, AtWork
  <2>4. Counted'
    BY <2>1, <2>3, <1>t, <1>n, SameUnsettled, StillCounted
  <2>5. Asking' /\ InHand'
    BY <2>1, <2>2, <2>3 DEF AskedInv, Asking, InHand
  <2> QED BY <2>4, <2>5
<1>5. CASE MarkApplied
  <2>1. /\ AtWork /\ Applying(Manager) /\ UNCHANGED md
        /\ \A y \in reg[Manager].todo : rows[y[1]] = y[2] /\ y \in Rows \X Resolved
    BY <1>5, <1>t DEF MarkApplied, AtWork, Applying, AskedInv, InHand
  <2>2. pc'[Manager] = "A_next" /\ reg'[Manager].todo = reg[Manager].todo
    BY <1>5, <1>t, LeaveAt, ManagerTyped DEF MarkApplied
  <2>3. CASE Fault /\ UNCHANGED rows
    BY <2>1, <2>2, <2>3, <1>t, <1>n, NextAsks
  <2>4. CASE ~(Fault /\ UNCHANGED rows)
    <3>1. PICK x \in reg[Manager].row : rows' = [rows EXCEPT ![x[1]] = "applied"]
      BY <1>5, <2>4 DEF MarkApplied
    <3>2. UNCHANGED faults
      BY <1>5, <2>4 DEF MarkApplied, NoFault
    <3>3. x \in Rows \X Resolved /\ rows[x[1]] = x[2] /\ x \notin reg[Manager].todo
      BY <2>1, <3>1, <1>t DEF AskedInv, InHand
    <3>4. x[1] \in Unsettled /\ Unsettled' = Unsettled \ {x[1]}
      BY <3>1, <3>3, <1>t DEF Unsettled, Free, Resolved, TypeOK
    <3>5. IsFiniteSet(Unsettled') /\ Cardinality(Unsettled') = Cardinality(Unsettled) - 1
      BY <3>4, <1>n, FS_RemoveElement
    <3>6. Cardinality(Unsettled) <= faults + 1
      BY <1>n DEF Counted
    <3>7. Cardinality(Unsettled') <= faults' /\ Cardinality(Unsettled') \in Nat
      BY <3>2, <3>5, <3>6, <1>n, FS_CardinalityType
    <3>8. Counted'
      BY <3>2, <3>5, <3>7, <1>n DEF Counted
    <3>9. \A y \in reg'[Manager].todo : rows'[y[1]] = y[2]
      <4> TAKE y \in reg'[Manager].todo
      <4>1. y \in Rows \X Resolved /\ rows[y[1]] = y[2] /\ y # x
        BY <2>1, <2>2, <3>3
      <4>2. y[1] # x[1]
        BY <4>1, <3>3
      <4> QED BY <4>1, <4>2, <3>1, <3>3, <1>t DEF TypeOK
    <3>10. Asking' /\ InHand'
      BY <2>2, <3>9 DEF Asking, InHand, AtWork, Applying, SyncLabels
    <3> QED BY <3>8, <3>10
  <2> QED BY <2>3, <2>4
<1> QED BY <1>1, <1>2, <1>3, <1>4, <1>5 DEF ConflictApply

\* What sync_doc leaves as it was.
LEMMA SyncDocKeeps ==
  ASSUME TurnInv, NEW p \in Procs, SyncDoc(p)
  PROVE  UNCHANGED rows /\ md'.enqueued = md.enqueued /\ pc[p] \in SyncLabels
<1>1. UNCHANGED rows /\ pc[p] \in SyncLabels
  BY DEF SyncDoc, SyncRead, SyncDiscover, SyncFetch, SyncOverride, SyncPush, SyncStamp, SyncLabels
<1>2. CASE SyncOverride(p) \/ SyncStamp(p)
  <2>1. reg[p].doc = md /\ reg[p].doc \in Doc
    BY <1>2, RegFields DEF SyncOverride, SyncStamp, TurnInv, LocalInv, HoldsStore, Holding, Pushing
  <2> QED BY <1>1, <1>2, <2>1 DEF SyncOverride, SyncStamp, StampHumanOverride, StampAgentPush, Doc
<1>3. CASE ~(SyncOverride(p) \/ SyncStamp(p))
  BY <1>1, <1>3 DEF SyncDoc, SyncRead, SyncDiscover, SyncFetch, SyncPush
<1> QED BY <1>2, <1>3

\* Within sync_doc: the manager stays in it with what it has in hand, or
\* returns, or fails.
LEMMA SyncDocGoes ==
  ASSUME TypeOK, NEW p \in Procs, SyncDoc(p)
  PROVE  \/ /\ pc'[p] \in SyncLabels
            /\ reg'[p].ret = reg[p].ret
            /\ reg'[p].row = reg[p].row /\ reg'[p].todo = reg[p].todo
         \/ Return(p)
         \/ Fault /\ Raise(p)
<1> USE DEF SyncLabels
<1>1. CASE SyncRead(p)
  <2>1. CASE ~Return(p)
    <3>1. Goto(p, "S_discover") \/ Goto(p, "S_push") \/ Goto(p, "S_fetch")
      BY <1>1, <2>1, Zenon DEF SyncRead
    <3> QED BY <1>1, <2>1, <3>1, GotoAt, DocAt DEF SyncRead
  <2> QED BY <2>1
<1>2. CASE SyncDiscover(p)
  <2>1. \/ /\ Goto(p, "S_push") \/ Goto(p, "S_fetch") \/ Goto(p, "S_create")
           /\ UNCHANGED reg
        \/ Return(p)
    BY <1>2, Zenon DEF SyncDiscover
  <2> QED BY <2>1, GotoAt
<1>3. CASE SyncFetch(p)
  <2>1. Goto(p, "S_override") \/ Goto(p, "S_push")
    BY <1>3 DEF SyncFetch
  <2>2. PICK s : reg' = [reg EXCEPT ![p].seen = s]
    BY <1>3 DEF SyncFetch
  <2>3. /\ reg'[p].ret = reg[p].ret
        /\ reg'[p].row = reg[p].row /\ reg'[p].todo = reg[p].todo
    BY <2>2 DEF TypeOK, Reg
  <2> QED BY <2>1, <2>3, GotoAt
<1>4. CASE SyncPush(p)
  <2>1. \/ Goto(p, "S_stamp") /\ UNCHANGED reg
        \/ Fault /\ Raise(p)
    BY <1>4, Zenon DEF SyncPush
  <2> QED BY <2>1, GotoAt
<1> QED BY <1>1, <1>2, <1>3, <1>4 DEF SyncDoc, SyncOverride, SyncStamp

LEMMA SyncDocAsks ==
  ASSUME AskedInv, SyncDoc(Manager), Fault \/ NoFault
  PROVE  Counted' /\ Asking' /\ InHand'
<1>t. TypeOK /\ TurnInv /\ Counted
  BY DEF AskedInv, TurnInv, LocalInv
<1>1. UNCHANGED rows /\ md'.enqueued = md.enqueued /\ pc[Manager] \in SyncLabels
  BY <1>t, SyncDocKeeps, ManagerTyped
<1>s. Unsettled' = Unsettled
  BY <1>1, SameUnsettled
<1>h. Applying(Manager) => \A x \in reg[Manager].todo : rows[x[1]] = x[2]
  BY DEF AskedInv, InHand, AtWork
<1>2. CASE /\ pc'[Manager] \in SyncLabels
           /\ reg'[Manager].ret = reg[Manager].ret
           /\ reg'[Manager].row = reg[Manager].row /\ reg'[Manager].todo = reg[Manager].todo
  <2>1. (Applying(Manager)' <=> Applying(Manager)) /\ (AtWork' <=> AtWork)
    BY <1>1, <1>2 DEF Applying, AtWork, SyncLabels
  <2>2. Counted'
    BY <2>1, <1>1, <1>s, <1>t, StillCounted
  <2>3. Asking' /\ InHand'
    BY <1>1, <1>2, <2>1 DEF AskedInv, Asking, InHand, SyncLabels
  <2> QED BY <2>2, <2>3
<1>3. CASE Return(Manager)
  <2>1. /\ pc'[Manager] = reg[Manager].ret /\ reg[Manager].ret \in RetLabels
        /\ reg[Manager].ret = "A_mark" => reg'[Manager].row = reg[Manager].row
        /\ reg'[Manager].todo = reg[Manager].todo
    BY <1>3, <1>t, ReturnAt, ManagerTyped
  <2>2. CASE reg[Manager].ret = "A_mark"
    <3>1. Applying(Manager) /\ Applying(Manager)' /\ AtWork /\ AtWork'
      BY <1>1, <2>1, <2>2 DEF Applying, AtWork
    <3>2. Counted'
      BY <3>1, <1>s, <1>t, StillCounted
    <3>3. Asking' /\ InHand'
      BY <1>1, <2>1, <2>2, <3>1 DEF AskedInv, Asking, InHand
    <3> QED BY <3>2, <3>3
  <2>3. CASE reg[Manager].ret # "A_mark"
    <3>1. ~Applying(Manager) /\ pc'[Manager] \in Elsewhere
      BY <1>1, <2>1, <2>3 DEF Applying, RetLabels, Elsewhere, SyncLabels
    <3> QED BY <3>1, <1>1, <1>s, <1>t, ElsewhereAsks
  <2> QED BY <2>2, <2>3
<1>4. CASE Fault /\ Raise(Manager)
  <2>1. /\ pc'[Manager] = (IF reg[Manager].ret = "A_mark" THEN "A_next" ELSE reg[Manager].ret)
        /\ reg[Manager].ret \in RetLabels /\ reg'[Manager].todo = reg[Manager].todo
    BY <1>4, <1>t, RaiseAt, ManagerTyped
  <2>2. CASE reg[Manager].ret = "A_mark"
    <3>1. Applying(Manager) /\ pc'[Manager] = "A_next"
      BY <1>1, <2>1, <2>2 DEF Applying
    <3>2. Counted'
      BY <1>4, <1>s, <1>t, StillCounted
    <3>3. Asking' /\ InHand'
      BY <1>1, <2>1, <3>1, <1>h DEF Asking, InHand, AtWork, Applying, SyncLabels
    <3> QED BY <3>2, <3>3
  <2>3. CASE reg[Manager].ret # "A_mark"
    <3>1. pc'[Manager] \in Elsewhere
      BY <2>1, <2>3 DEF RetLabels, Elsewhere
    <3> QED BY <3>1, <1>1, <1>s, <1>t, <1>4, ElsewhereAsks
  <2> QED BY <2>2, <2>3
<1> QED BY <1>2, <1>3, <1>4, <1>t, SyncDocGoes, ManagerTyped

\* A writer acts while the manager is idle.
LEMMA WriterAsks ==
  ASSUME AskedInv, NEW w \in Writers, WriteStart(w) \/ SyncAll(w) \/ Writer(w) \/ SyncDoc(w),
         pc[Manager] = "idle", pc'[Manager] = "idle", Fault \/ NoFault
  PROVE  Counted' /\ Asking' /\ InHand'
<1>t. w \in Procs /\ TypeOK /\ md \in Doc /\ TurnInv /\ Counted
  BY DEF Procs, AskedInv, TurnInv, LocalInv, TypeOK
<1>1. ~Applying(Manager)
  BY DEF Applying, SyncLabels
<1>2. UNCHANGED rows /\ md'.enqueued = md.enqueued
  <2>1. CASE SyncDoc(w)
    BY <2>1, <1>t, SyncDocKeeps
  <2>2. CASE WriteStore(w)
    <3>1. reg[w].doc = [md EXCEPT !.sig = reg[w].doc.sig]
      BY <2>2, <1>t DEF WriteStore, TurnInv, HoldsStore
    <3>2. reg[w].doc.enqueued = md.enqueued /\ reg[w].doc \in Doc
      BY <3>1, <1>t, RegFields DEF Doc
    <3> QED BY <2>2, <3>2 DEF WriteStore, Doc
  <2> QED BY <2>1, <2>2 DEF WriteStart, SyncAll, Writer, WritePrepend
<1> QED BY <1>1, <1>2, <1>t, SameUnsettled, ElsewhereAsks DEF Elsewhere

LEMMA PeopleAsk ==
  ASSUME Overlap = FALSE, TypeOK, Counted, People
  PROVE  Counted' /\ Asking' /\ InHand'
<1>1. pc[Manager] = "idle" /\ pc'[Manager] = "idle"
  BY PeopleWait, ManagerTyped
<1>2. ~Applying(Manager)
  BY <1>1 DEF Applying, SyncLabels
<1>3. md'.enqueued = md.enqueued /\ NoFault
  BY DEF People, EditMarkdown, EditNotion, Relabel, AdminResolve, TypeOK, Doc, NoFault
<1>4. Unsettled' = Unsettled
  <2>1. CASE UNCHANGED rows
    BY <2>1, SameUnsettled
  <2>2. CASE AdminResolve
    <3>1. PICK r \in Rows, c \in Choices : rows[r] = "open" /\ rows' = [rows EXCEPT ![r] = c]
      BY <2>2 DEF AdminResolve
    <3> QED BY <3>1, ValuesAssumption DEF Unsettled, Free, TypeOK
  <2> QED BY <2>1, <2>2 DEF People, EditMarkdown, EditNotion, Relabel
<1> QED BY <1>1, <1>2, <1>3, <1>4, ElsewhereAsks DEF Elsewhere

LEMMA CrashAsks ==
  ASSUME AskedInv, NEW p \in Procs, Crash(p), p = Manager \/ pc[Manager] = "idle"
  PROVE  Counted' /\ Asking' /\ InHand'
<1>t. TypeOK /\ Counted
  BY DEF AskedInv, TurnInv, LocalInv
<1>1. pc'[Manager] = "idle"
  BY <1>t, GotoAt, ManagerTyped DEF Crash
<1> QED BY <1>1, <1>t, SameUnsettled, ElsewhereAsks DEF Crash, Elsewhere

LEMMA AskedStep ==
  ASSUME Overlap = FALSE, Evidence = {}, AskedInv, [Next]_vars
  PROVE  AskedInv'
<1>1. TurnInv /\ TurnInv'
  BY TurnStep DEF AskedInv
<1>t. TypeOK /\ LocalInv /\ Counted
  BY <1>1 DEF AskedInv, TurnInv, LocalInv
<1>f. Fault \/ NoFault
  BY FaultOrNot
<1> SUFFICES Counted' /\ Asking' /\ InHand'
  BY <1>1 DEF AskedInv
<1>2. CASE \E p \in Procs : Turn(p)
  <2>1. PICK p \in Procs : Turn(p)
    BY <1>2
  <2>2. CASE p = Manager
    <3>1. CASE SyncDoc(Manager)
      BY <3>1, <1>f, SyncDocAsks
    <3>2. CASE SyncPull \/ WikiDirective \/ ConflictResolution \/ ConflictApply
      BY <3>2, <1>1, <1>t, <1>f, FirstHalfAsks, ConflictResolutionAsks, ConflictApplyAsks
    <3>3. CASE Crash(Manager)
      BY <3>3, <2>2, CrashAsks
    <3> QED BY <2>1, <2>2, <3>1, <3>2, <3>3, ProcessAssumption DEF Turn
  <2>3. CASE p # Manager
    <3>1. p \in Writers
      BY <2>3 DEF Procs
    <3>2. pc[Manager] = "idle" /\ pc'[Manager] = "idle"
      BY <2>1, <2>3, <1>t, Alone, ManagerTyped
    <3>3. WriteStart(p) \/ SyncAll(p) \/ Writer(p) \/ SyncDoc(p) \/ Crash(p)
      BY <2>1, <2>3 DEF Turn
    <3> QED BY <3>1, <3>2, <3>3, <1>f, WriterAsks, CrashAsks
  <2> QED BY <2>2, <2>3
<1>3. CASE People
  BY <1>3, <1>t, PeopleAsk
<1>4. CASE UNCHANGED vars
  <2>1. UNCHANGED <<md, rows, pc, reg, faults>> /\ Unsettled' = Unsettled
    BY <1>4, SameUnsettled DEF vars
  <2>2. (Applying(Manager)' <=> Applying(Manager)) /\ (AtWork' <=> AtWork)
    BY <2>1 DEF Applying, AtWork
  <2> QED BY <2>1, <2>2 DEF AskedInv, Counted, Asking, InHand
<1> QED BY <1>2, <1>3, <1>4, NextCases

\* When passes, writers and people take turns and no evidence decides a conflict,
\* conflict_resolution asks about the page at most once, and once more for every
\* failed call and killed process: the conflict_enqueued mark stays with the row
\* from before it is created until conflict_apply is at work on it, and only a
\* conflict_apply that fails then leaves the row open without it.
THEOREM AskedOnceAtATime ==
  ASSUME Overlap = FALSE, Evidence = {}
  PROVE  Spec => []OneRowAtATime
<1>1. Init => AskedInv
  <2> SUFFICES ASSUME Init PROVE AskedInv
    OBVIOUS
  <2>1. pc[Manager] = "idle" /\ faults = 0 /\ Unsettled = {}
    BY ManagerTyped DEF Init, Free, Unsettled
  <2>2. IsFiniteSet(Unsettled) /\ Cardinality(Unsettled) = 0
    BY <2>1, FS_EmptySet
  <2>3. Counted
    BY <2>1, <2>2 DEF Counted
  <2>4. Asking /\ InHand
    BY <2>1 DEF Asking, InHand, AtWork, Applying, SyncLabels
  <2> QED BY <2>3, <2>4, TurnInit DEF AskedInv
<1>2. AskedInv /\ [Next]_vars => AskedInv'
  BY AskedStep
<1>3. AskedInv => OneRowAtATime
  <2> SUFFICES ASSUME AskedInv PROVE OneRowAtATime
    OBVIOUS
  <2>1. Cardinality(Unsettled) \in Nat /\ faults \in Nat
    BY FS_CardinalityType DEF AskedInv, Counted, TurnInv, LocalInv, TypeOK
  <2> QED BY <2>1 DEF AskedInv, Counted, OneRowAtATime, Unsettled
<1> QED BY <1>1, <1>2, <1>3, PTL DEF Spec

-----------------------------------------------------------------------------
(***************************************************************************)
(* No line is lost, by pulls.  Unsigned pages that writers store without a *)
(* sync meet Notion in the manager's passes only, by the decision of       *)
(* DecidePullPush.  Its baseline is what both sides had: Notion, to which  *)
(* people add, still covers it, and a line of it that somebody is owed is  *)
(* still in the Markdown page.  So a side that the baseline equals has     *)
(* nothing of its own to lose.                                             *)
(***************************************************************************)
PullSetting ==
    /\ Overlap = FALSE /\ Additive = TRUE
    /\ Directives = {} /\ Signatures = {} /\ Choices = {}
    /\ SyncFlags \subseteq {FALSE} /\ "sync_all" \notin Modes
    /\ Labels = {} \/ Evidence = {}

Text ==
    /\ owed \subseteq md.body \cup UNION notion
    /\ owed \cap UNION md.synced \subseteq md.body
    /\ md.conflict => md.page
    /\ Labels = {} => ~md.local

Covered == UNION md.synced \subseteq UNION notion

Mirrored == md.page /\ ~md.local

\* What holds at each place of the manager.
Place ==
    LET at == pc[Manager]
        my == reg[Manager]
    IN \/ at \in {"idle", "D_read", "R_read", "A_query", "R_escalate", "R_row"} /\ Covered
       \/ at = "A_next" /\ Covered /\ my.todo = {}
       \/ at \in {"P_fetch", "P_mark"} /\ Covered /\ Mirrored
       \/ at = "P_pull" /\ Covered /\ Mirrored /\ my.seen = notion /\ md.body \subseteq UNION notion
       \/ at = "P_merge" /\ Covered /\ Mirrored /\ my.new = md.body \cup UNION notion
       \/ at = "R_fetch" /\ Covered /\ md.page
       \/ at = "R_apply" /\ Mirrored /\ UNION my.seen = UNION notion
       \/ /\ at \in {"S_read", "S_fetch", "S_push"}
          /\ my.ret # "A_mark" /\ Mirrored /\ (my.force \/ Covered)
          /\ owed \cap UNION notion \subseteq md.body
       \/ at = "S_stamp" /\ my.ret # "A_mark" /\ notion = {md.body}

Kept ==
    /\ Text
    /\ Place
    /\ \A r \in Rows : rows[r] \notin Resolved
    /\ \A w \in Writers : pc[w] \notin SyncLabels

PullInv == TurnInv /\ (faults = 0 => Kept)

LEMMA DecisionKeeps ==
  ASSUME NEW m \in Body, NEW n \in Body, NEW synced \in Maybe(Body), NEW c \in BOOLEAN
  PROVE  /\ DecidePullPush(m, n, synced, c) = "pull" => m \subseteq n \/ synced = {m}
         /\ DecidePullPush(m, n, synced, c) = "push" => n \subseteq m \/ synced = {n}
         /\ DecidePullPush(m, n, synced, c) = "merge" => m \cup n = UNION TryCompatibleMerge(m, n, c)
  BY DecisionDropsOnlyMirrored

LEMMA SettleFields ==
  ASSUME NEW doc \in Doc, NEW b
  PROVE  /\ Settle(doc, b).body = b /\ Settle(doc, b).synced = {b}
         /\ Settle(doc, b).page = doc.page /\ Settle(doc, b).local = doc.local
         /\ ~Settle(doc, b).conflict
  BY DEF Settle, Doc

LEMMA UnionOne == ASSUME NEW b PROVE UNION {b} = b
  OBVIOUS

\* What a step of the manager leaves as it is.
LEMMA ManagerAlone ==
  ASSUME TurnInv, Overlap = FALSE, Turn(Manager)
  PROVE  \A w \in Writers : pc'[w] \notin SyncLabels
<1>1. \A q \in Procs \ {Manager} : pc'[q] = "idle"
  BY Alone, ManagerTyped DEF TurnInv
<1> QED BY <1>1, ProcessAssumption DEF Procs, SyncLabels

LEMMA PullKeeps ==
  ASSUME PullSetting, TurnInv, Kept, SyncPull, NoFault
  PROVE  Text' /\ Place'
<1>t. TypeOK /\ HoldsStore(Manager) /\ reg[Manager].doc \in Doc /\ md \in Doc
  BY RegFields, ManagerTyped DEF TurnInv, LocalInv, TypeOK
<1>f. ~Fault
  BY <1>t DEF NoFault, Fault, TypeOK
<1>h. pc[Manager] \in Holding => reg[Manager].doc = md
  BY <1>t DEF HoldsStore
<1>k. Text /\ Place
  BY DEF Kept
<1>n. md.body \in Body /\ UNION notion \in Body /\ md.synced \in Maybe(Body)
  BY <1>t, DocFields, MaybeBody DEF TypeOK
<1>1. CASE PullRead
  <2>1. /\ UNCHANGED <<md, notion, owed>> /\ Covered
        /\ (Goto(Manager, "P_fetch") /\ Mirrored) \/ Goto(Manager, "D_read")
    BY <1>1, <1>k DEF PullRead, Place, Mirrored
  <2>2. (pc'[Manager] = "P_fetch" /\ Mirrored) \/ pc'[Manager] = "D_read"
    BY <2>1, <1>t, GotoAt, ManagerTyped
  <2> QED BY <2>1, <2>2, <1>k DEF Text, Place, Covered, Mirrored
<1>2. CASE PullDecide
  <2>p. /\ UNCHANGED <<md, notion, owed>> /\ Covered /\ Mirrored /\ pc[Manager] = "P_fetch"
        /\ reg[Manager].doc = md
    BY <1>2, <1>k, <1>h DEF PullDecide, Place, Holding
  <2>t. Text'
    BY <2>p, <1>k DEF Text
  <2> DEFINE action(c) == DecidePullPush(md.body, UNION notion, md.synced, c)
             merged(c) == UNION TryCompatibleMerge(md.body, UNION notion, c)
  <2>1. PICK c \in BOOLEAN :
          \/ action(c) = "noop" /\ Leave(Manager, "D_read")
          \/ action(c) = "push" /\ Call(Manager, FALSE, "D_read")
          \/ /\ reg' = [reg EXCEPT ![Manager].seen = notion, ![Manager].new = merged(c)]
             /\ \/ action(c) = "pull" /\ Goto(Manager, "P_pull")
                \/ action(c) = "merge" /\ Goto(Manager, "P_merge")
                \/ Goto(Manager, "P_mark")
    <3>1. PICK c \in BOOLEAN :
            LET doc == reg[Manager].doc
                seen == UNION notion
                act == DecidePullPush(doc.body, seen, doc.synced, c)
            IN \/ act = "noop" /\ Leave(Manager, "D_read")
               \/ act = "push" /\ Call(Manager, FALSE, "D_read")
               \/ /\ reg' = [reg EXCEPT ![Manager].seen = notion,
                             ![Manager].new = UNION TryCompatibleMerge(doc.body, seen, c)]
                  /\ \/ act = "pull" /\ Goto(Manager, "P_pull")
                     \/ act = "merge" /\ Goto(Manager, "P_merge")
                     \/ Goto(Manager, "P_mark")
      BY <1>2, <1>f, ZenonT(40) DEF PullDecide
    <3> QED BY <3>1, <2>p
  <2>d. /\ action(c) = "pull" => md.body \subseteq UNION notion \/ md.synced = {md.body}
        /\ action(c) = "push" => UNION notion \subseteq md.body \/ md.synced = {UNION notion}
        /\ action(c) = "merge" => md.body \cup UNION notion = merged(c)
    <3> DEFINE m == md.body
               n == UNION notion
               base == md.synced
    <3>1. m \in Body /\ n \in Body /\ base \in Maybe(Body) /\ c \in BOOLEAN
      BY <1>n
    <3> HIDE DEF m, n, base
    <3>2. /\ DecidePullPush(m, n, base, c) = "pull" => m \subseteq n \/ base = {m}
          /\ DecidePullPush(m, n, base, c) = "push" => n \subseteq m \/ base = {n}
          /\ DecidePullPush(m, n, base, c) = "merge" => m \cup n = UNION TryCompatibleMerge(m, n, c)
      BY <3>1, DecisionKeeps
    <3> QED BY <3>2 DEF m, n, base
  <2> HIDE DEF action, merged
  <2>2. CASE Leave(Manager, "D_read")
    <3>1. pc'[Manager] = "D_read"
      BY <2>2, <1>t, LeaveAt, ManagerTyped
    <3> QED BY <2>p, <2>t, <3>1 DEF Place, Covered
  <2>3. CASE action(c) = "push" /\ Call(Manager, FALSE, "D_read")
    <3>1. pc'[Manager] = "S_read" /\ reg'[Manager].ret = "D_read"
      <4>1. Call(Manager, FALSE, "D_read")
        BY <2>3
      <4> QED BY <4>1, <1>t, UnforcedCallAt, ManagerTyped
    <3>2. owed \cap UNION notion \subseteq md.body
      <4>1. CASE UNION notion \subseteq md.body
        BY <4>1
      <4>2. CASE md.synced = {UNION notion}
        <5>1. UNION md.synced = UNION notion
          BY <4>2, UnionOne
        <5> QED BY <5>1, <1>k DEF Text
      <4> QED BY <2>3, <2>d, <4>1, <4>2
    <3> QED BY <2>p, <2>t, <3>1, <3>2 DEF Place, Covered, Mirrored
  <2>4. CASE /\ reg' = [reg EXCEPT ![Manager].seen = notion, ![Manager].new = merged(c)]
             /\ \/ action(c) = "pull" /\ Goto(Manager, "P_pull")
                \/ action(c) = "merge" /\ Goto(Manager, "P_merge")
                \/ Goto(Manager, "P_mark")
    <3>1. \/ action(c) = "pull" /\ pc'[Manager] = "P_pull"
          \/ action(c) = "merge" /\ pc'[Manager] = "P_merge"
          \/ pc'[Manager] = "P_mark"
      BY <2>4, <1>t, GotoAt, ManagerTyped
    <3>2. reg'[Manager].seen = notion /\ reg'[Manager].new = merged(c)
      BY <2>4, <1>t, ManagerTyped DEF TypeOK, Reg
    <3>3. action(c) = "pull" => md.body \subseteq UNION notion
      <4>1. md.synced = {md.body} => UNION md.synced = md.body
        BY UnionOne
      <4> QED BY <4>1, <2>d, <2>p DEF Covered
    <3> QED BY <2>p, <2>t, <2>d, <3>1, <3>2, <3>3 DEF Place, Covered, Mirrored
  <2> QED BY <2>1, <2>2, <2>3, <2>4
<1>3. CASE PullWrite
  <2>p. reg[Manager].doc = md /\ reg[Manager].seen = notion /\ md.body \subseteq UNION notion
    BY <1>3, <1>k, <1>h DEF PullWrite, Place, Holding
  <2>1. /\ UNCHANGED <<notion, owed>>
        /\ md' = [StampHumanOverride(md) EXCEPT !.body = UNION notion, !.synced = {UNION notion}]
        /\ Leave(Manager, "D_read")
    BY <1>3, <2>p DEF PullWrite
  <2>2. /\ md'.body = UNION notion /\ UNION md'.synced = UNION notion
        /\ md'.page = md.page /\ md'.local = md.local /\ ~md'.conflict
    BY <2>1, <1>t, UnionOne DEF StampHumanOverride, Doc
  <2>3. pc'[Manager] = "D_read"
    BY <2>1, <1>t, LeaveAt, ManagerTyped
  <2> QED BY <2>p, <2>1, <2>2, <2>3, <1>k DEF Text, Place, Covered
<1>4. CASE MergeWrite
  <2> DEFINE b == md.body \cup UNION notion
  <2>p. reg[Manager].doc = md /\ reg[Manager].new = b /\ Mirrored
    BY <1>4, <1>k, <1>h DEF MergeWrite, Place, Holding
  <2>1. /\ UNCHANGED <<notion, owed>>
        /\ md' = [md EXCEPT !.body = b, !.synced = {b}, !.conflict = FALSE]
        /\ Call(Manager, TRUE, "D_read")
    BY <1>4, <2>p DEF MergeWrite
  <2> HIDE DEF b
  <2>2. /\ md'.body = b /\ md'.page = md.page /\ md'.local = md.local /\ ~md'.conflict
    BY <2>1, <1>t DEF Doc
  <2>3. pc'[Manager] = "S_read" /\ reg'[Manager].ret = "D_read" /\ reg'[Manager].force
    BY <2>1, <1>t, ForcedCallAt, ManagerTyped
  <2> QED BY <2>p, <2>1, <2>2, <2>3, <1>k DEF Text, Place, Mirrored, b
<1>5. CASE ConflictMark
  <2>1. /\ UNCHANGED <<notion, owed>> /\ Covered /\ Mirrored
        /\ md' = [MarkSyncConflict(md) EXCEPT !.stash = reg[Manager].seen]
        /\ Leave(Manager, "D_read")
    BY <1>5, <1>k, <1>h DEF ConflictMark, Place, Holding
  <2>2. /\ md'.body = md.body /\ md'.page = md.page /\ md'.local = md.local
        /\ md'.synced = md.synced
    BY <2>1, <1>t DEF MarkSyncConflict, Doc
  <2>3. pc'[Manager] = "D_read"
    BY <2>1, <1>t, LeaveAt, ManagerTyped
  <2> QED BY <2>1, <2>2, <2>3, <1>k DEF Text, Place, Covered, Mirrored
<1> QED BY <1>1, <1>2, <1>3, <1>4, <1>5 DEF SyncPull

LEMMA DirectiveKeeps ==
  ASSUME PullSetting, TurnInv, Kept, WikiDirective \/ ResolutionRead
  PROVE  Text' /\ Place'
<1>t. TypeOK /\ Text /\ Place
  BY DEF TurnInv, LocalInv, Kept
<1>1. ~DirectiveWrite
  BY <1>t DEF DirectiveWrite, Place
<1>2. CASE DirectiveRead
  <2>1. /\ UNCHANGED <<md, notion, owed>> /\ Goto(Manager, "R_read") /\ Covered
    BY <1>2, <1>t DEF PullSetting, DirectiveRead, Place
  <2>2. pc'[Manager] = "R_read"
    BY <2>1, <1>t, GotoAt, ManagerTyped
  <2> QED BY <2>1, <2>2, <1>t DEF Text, Place, Covered
<1>3. CASE ResolutionRead
  <2>1. /\ UNCHANGED <<md, notion, owed>> /\ Covered
        /\ (Goto(Manager, "R_fetch") /\ md.conflict) \/ Goto(Manager, "A_query")
    BY <1>3, <1>t DEF ResolutionRead, Place
  <2>2. (pc'[Manager] = "R_fetch" /\ md.conflict) \/ pc'[Manager] = "A_query"
    BY <2>1, <1>t, GotoAt, ManagerTyped
  <2> QED BY <2>1, <2>2, <1>t DEF Text, Place, Covered
<1> QED BY <1>1, <1>2, <1>3 DEF WikiDirective

LEMMA ResolutionKeeps ==
  ASSUME PullSetting, TurnInv, Kept, ConflictResolution, NoFault
  PROVE  Text' /\ Place' /\ \A r \in Rows : rows'[r] \notin Resolved
<1>t. TypeOK /\ HoldsStore(Manager) /\ reg[Manager].doc \in Doc /\ md \in Doc
  BY RegFields, ManagerTyped DEF TurnInv, LocalInv, TypeOK
<1>f. ~Fault
  BY <1>t DEF NoFault, Fault, TypeOK
<1>h. pc[Manager] \in Holding => reg[Manager].doc = md
  BY <1>t DEF HoldsStore
<1>k. Text /\ Place /\ \A r \in Rows : rows[r] \notin Resolved
  BY DEF Kept
<1>1. CASE ResolutionRead
  BY <1>1, <1>k, DirectiveKeeps DEF ResolutionRead
<1>2. CASE ResolutionFetch
  <2>p. /\ UNCHANGED <<md, notion, owed, rows>> /\ Covered /\ md.page /\ pc[Manager] = "R_fetch"
        /\ reg[Manager].doc = md
    BY <1>2, <1>k, <1>h DEF ResolutionFetch, Place, Holding
  <2>1. PICK new :
          \/ /\ Evidence # {}
             /\ Goto(Manager, "R_apply")
             /\ reg' = [reg EXCEPT ![Manager].seen = {UNION notion}, ![Manager].new = new]
          \/ Goto(Manager, "R_escalate")
          \/ Leave(Manager, "A_query")
    <3>1. PICK live \in BOOLEAN, winner \in Evidence \cup {"unclear"} :
            LET doc == reg[Manager].doc
                body == IF live THEN UNION notion ELSE UNION doc.stash
            IN /\ live => doc.page
               /\ IF doc.page /\ ~live THEN Fault ELSE NoFault
               /\ \/ /\ winner = "md" \/ winner = "notion"
                     /\ Goto(Manager, "R_apply")
                     /\ reg' = [reg EXCEPT ![Manager].seen = {body},
                                  ![Manager].new = IF winner = "md" THEN doc.body ELSE body]
                  \/ Goto(Manager, "R_escalate")
                  \/ Leave(Manager, "A_query")
      BY <1>2, Zenon DEF ResolutionFetch
    <3>2. live
      BY <3>1, <2>p, <1>f
    <3>3. winner \in {"md", "notion"} => Evidence # {}
      OBVIOUS
    <3> QED BY <3>1, <3>2, <3>3
  <2>t. Text'
    BY <2>p, <1>k DEF Text
  <2>2. CASE Goto(Manager, "R_escalate") \/ Leave(Manager, "A_query")
    <3>1. pc'[Manager] = "R_escalate" \/ pc'[Manager] = "A_query"
      BY <2>2, <1>t, GotoAt, LeaveAt, ManagerTyped
    <3> QED BY <2>p, <2>t, <3>1, <1>k DEF Place, Covered
  <2>3. CASE /\ Evidence # {}
             /\ Goto(Manager, "R_apply")
             /\ reg' = [reg EXCEPT ![Manager].seen = {UNION notion}, ![Manager].new = new]
    <3>1. pc'[Manager] = "R_apply"
      BY <2>3, <1>t, GotoAt, ManagerTyped
    <3>2. reg'[Manager].seen = {UNION notion}
      BY <2>3, <1>t, ManagerTyped DEF TypeOK, Reg
    <3>3. UNION reg'[Manager].seen = UNION notion
      BY <3>2, UnionOne
    <3>4. Mirrored
      BY <2>3, <2>p, <1>k DEF PullSetting, Text, Mirrored
    <3> QED BY <2>p, <2>t, <3>1, <3>3, <3>4, <1>k DEF Place, Mirrored
  <2> QED BY <2>1, <2>2, <2>3
<1>3. CASE ResolutionApply
  <2>1. Call(Manager, TRUE, "A_query") /\ UNCHANGED <<notion, rows>>
    BY <1>3 DEF ResolutionApply
  <2>2. pc'[Manager] = "S_read" /\ reg'[Manager].ret = "A_query" /\ reg'[Manager].force
    BY <2>1, <1>t, ForcedCallAt, ManagerTyped
  <2>3. reg[Manager].doc = md /\ UNION reg[Manager].seen = UNION notion /\ Mirrored
    BY <1>3, <1>k, <1>h DEF ResolutionApply, Place, Holding
  <2> DEFINE b == reg[Manager].new
  <2>4. md' = Settle(md, b) /\ owed' = owed \ ((md.body \cup UNION notion) \ b)
    BY <1>3, <2>3 DEF ResolutionApply, Dropped
  <2> HIDE DEF b
  <2>5. /\ md'.body = b /\ md'.page = md.page /\ md'.local = md.local /\ ~md'.conflict
    BY <2>4, <1>t, SettleFields
  <2>6. owed' \subseteq b
    BY <2>4, <1>k DEF Text
  <2> QED BY <2>1, <2>2, <2>3, <2>5, <2>6, <1>k DEF Text, Place, Mirrored
<1>4. CASE Escalate
  <2>1. /\ UNCHANGED <<notion, owed, rows>> /\ Goto(Manager, "R_row") /\ Covered
        /\ md' = [md EXCEPT !.enqueued = TRUE, !.stash = reg[Manager].seen]
    BY <1>4, <1>k, <1>h DEF Escalate, Place, Holding
  <2>2. /\ md'.body = md.body /\ md'.page = md.page /\ md'.local = md.local
        /\ md'.synced = md.synced /\ md'.conflict = md.conflict
    BY <2>1, <1>t DEF Doc
  <2>3. pc'[Manager] = "R_row"
    BY <2>1, <1>t, GotoAt, ManagerTyped
  <2> QED BY <2>1, <2>2, <2>3, <1>k DEF Text, Place, Covered
<1>5. CASE CreateRow
  <2>1. /\ UNCHANGED <<md, notion, owed>> /\ Leave(Manager, "A_query") /\ Covered
    BY <1>5, <1>k DEF CreateRow, Place
  <2>2. pc'[Manager] = "A_query"
    BY <2>1, <1>t, LeaveAt, ManagerTyped
  <2>3. \A r \in Rows : rows'[r] \notin Resolved
    BY <1>5, <1>f, <1>k, <1>t DEF CreateRow, TypeOK, Resolved
  <2> QED BY <2>1, <2>2, <2>3, <1>k DEF Text, Place, Covered
<1> QED BY <1>1, <1>2, <1>3, <1>4, <1>5 DEF ConflictResolution

\* No row was decided, so conflict_apply has nothing to do.
LEMMA ApplyKeeps ==
  ASSUME TurnInv, Kept, ConflictApply, NoFault
  PROVE  Text' /\ Place' /\ UNCHANGED rows
<1>t. TypeOK
  BY DEF TurnInv, LocalInv
<1>f. ~Fault
  BY <1>t DEF NoFault, Fault, TypeOK
<1>k. Text /\ Place /\ \A r \in Rows : rows[r] \notin Resolved
  BY DEF Kept
<1>1. CASE QueryRows
  <2>1. /\ reg' = [reg EXCEPT ![Manager].todo = {x \in Rows \X Resolved : rows[x[1]] = x[2]}]
        /\ Goto(Manager, "A_next")
        /\ UNCHANGED <<md, notion, owed, rows>> /\ Covered
    BY <1>1, <1>f, <1>k DEF QueryRows, Place
  <2>2. {x \in Rows \X Resolved : rows[x[1]] = x[2]} = {}
    BY <1>k
  <2>3. reg' = [reg EXCEPT ![Manager].todo = {}]
    BY <2>1, <2>2
  <2>4. pc'[Manager] = "A_next" /\ reg'[Manager].todo = {}
    <3>1. pc'[Manager] = "A_next"
      BY <2>1, <1>t, GotoAt, ManagerTyped
    <3>2. reg'[Manager].todo = {}
      BY <2>3, <1>t, ManagerTyped DEF TypeOK, Reg
    <3> QED BY <3>1, <3>2
  <2> QED BY <2>1, <2>4, <1>k DEF Text, Place, Covered
<1>2. CASE NextRow
  <2>1. Leave(Manager, "idle") /\ UNCHANGED <<md, notion, owed, rows>> /\ Covered
    BY <1>2, <1>k DEF NextRow, Place
  <2>2. pc'[Manager] = "idle"
    BY <2>1, <1>t, LeaveAt, ManagerTyped
  <2> QED BY <2>1, <2>2, <1>k DEF Text, Place, Covered
<1>3. CASE ApplyFetch \/ ApplyWrite \/ MarkApplied
  BY <1>3, <1>k DEF ApplyFetch, ApplyWrite, MarkApplied, Place
<1> QED BY <1>1, <1>2, <1>3 DEF ConflictApply

LEMMA PushKeeps ==
  ASSUME PullSetting, TurnInv, Kept, SyncDoc(Manager), NoFault
  PROVE  Text' /\ Place' /\ UNCHANGED rows
<1>t. TypeOK /\ reg[Manager].doc \in Doc /\ md \in Doc /\ reg[Manager].ret \in RetLabels
  BY RegFields, ManagerTyped DEF TurnInv, LocalInv, TypeOK
<1>f. ~Fault
  BY <1>t DEF NoFault, Fault, TypeOK
<1>h. pc[Manager] \in Pushing => reg[Manager].doc = md
  BY ManagerTyped DEF TurnInv, HoldsStore, Holding
<1>k. Text /\ Place
  BY DEF Kept
<1>r. UNCHANGED rows
  BY SyncDocKeeps, ManagerTyped
\* From sync_doc the manager comes back to wiki_directive or to conflict_apply.
<1>b. ASSUME Return(Manager), reg[Manager].ret # "A_mark", Covered'
      PROVE  Place'
  <2>1. pc'[Manager] \in {"idle", "D_read", "R_read", "A_query"}
    BY <1>b, <1>t, ReturnAt, ManagerTyped DEF RetLabels
  <2> QED BY <1>b, <2>1 DEF Place
<1>1. CASE SyncRead(Manager)
  <2>p. /\ UNCHANGED <<md, notion, owed>> /\ Mirrored /\ reg[Manager].ret # "A_mark"
        /\ owed \cap UNION notion \subseteq md.body /\ (reg[Manager].force \/ Covered)
    BY <1>1, <1>k DEF SyncRead, Place
  <2>t. Text'
    BY <2>p, <1>k DEF Text
  <2>1. CASE ~reg[Manager].force /\ md.synced = {md.body}
    <3>1. Return(Manager)
      BY <1>1, <2>1, <2>p DEF SyncRead, Mirrored
    <3> QED BY <2>1, <2>p, <2>t, <3>1, <1>b, <1>r DEF Covered
  <2>2. CASE ~(~reg[Manager].force /\ md.synced = {md.body})
    <3>1. /\ reg' = [reg EXCEPT ![Manager].doc = md]
          /\ Goto(Manager, "S_push") \/ Goto(Manager, "S_fetch")
      BY <1>1, <2>2, <2>p DEF SyncRead, Mirrored
    <3>2. pc'[Manager] = "S_push" \/ pc'[Manager] = "S_fetch"
      BY <3>1, <1>t, GotoAt, ManagerTyped
    <3>3. reg'[Manager].ret = reg[Manager].ret /\ reg'[Manager].force = reg[Manager].force
      BY <3>1, <1>t, DocAt, ManagerTyped
    <3> QED BY <2>p, <2>t, <3>2, <3>3, <1>r DEF Place, Covered, Mirrored
  <2> QED BY <2>1, <2>2
<1>2. CASE SyncFetch(Manager)
  <2>p. /\ UNCHANGED <<md, notion, owed>> /\ Mirrored /\ reg[Manager].ret # "A_mark"
        /\ owed \cap UNION notion \subseteq md.body /\ (reg[Manager].force \/ Covered)
    BY <1>2, <1>k DEF SyncFetch, Place
  <2>1. reg[Manager].doc.sig = {}
    BY <1>t DEF PullSetting, Doc, Maybe
  <2>2. PICK s : reg' = [reg EXCEPT ![Manager].seen = s] /\ Goto(Manager, "S_push")
    BY <1>2, <2>1 DEF SyncFetch, ShouldSkipPush
  <2>3. pc'[Manager] = "S_push"
    BY <2>2, <1>t, GotoAt, ManagerTyped
  <2>4. reg'[Manager].ret = reg[Manager].ret /\ reg'[Manager].force = reg[Manager].force
    BY <2>2, <1>t, ManagerTyped DEF TypeOK, Reg
  <2> QED BY <2>p, <2>3, <2>4, <1>k, <1>r DEF Text, Place, Covered, Mirrored
<1>3. CASE SyncPush(Manager)
  <2>p. /\ Mirrored /\ reg[Manager].ret # "A_mark" /\ owed \cap UNION notion \subseteq md.body
        /\ reg[Manager].doc = md
    BY <1>3, <1>k, <1>h DEF SyncPush, Place, Pushing
  <2>1. notion' = {md.body} /\ Goto(Manager, "S_stamp") /\ UNCHANGED <<md, owed, reg>>
    BY <1>3, <1>f, <2>p DEF SyncPush
  <2>2. pc'[Manager] = "S_stamp"
    BY <2>1, <1>t, GotoAt, ManagerTyped
  <2>3. owed \subseteq md.body
    BY <2>p, <1>k DEF Text
  <2> QED BY <2>p, <2>1, <2>2, <2>3, <1>k, <1>r DEF Text, Place
<1>4. CASE SyncStamp(Manager)
  <2>p. /\ reg[Manager].ret # "A_mark" /\ notion = {md.body} /\ reg[Manager].doc = md
    BY <1>4, <1>k, <1>h DEF SyncStamp, Place, Pushing
  <2>1. /\ md' = [StampAgentPush(md) EXCEPT !.page = TRUE, !.synced = {md.body}]
        /\ Return(Manager) /\ UNCHANGED <<notion, owed>>
    BY <1>4, <2>p DEF SyncStamp
  <2>2. /\ md'.body = md.body /\ md'.page /\ md'.local = md.local /\ md'.synced = {md.body}
    BY <2>1, <1>t DEF StampAgentPush, Doc
  <2>3. UNION md'.synced = md.body /\ UNION notion = md.body
    BY <2>2, <2>p, UnionOne
  <2>4. Covered'
    BY <2>1, <2>3 DEF Covered
  <2> QED BY <2>p, <2>1, <2>2, <2>3, <2>4, <1>k, <1>b, <1>r DEF Text
<1>5. CASE SyncDiscover(Manager) \/ SyncOverride(Manager)
  BY <1>5, <1>k DEF SyncDiscover, SyncOverride, Place
<1> QED BY <1>1, <1>2, <1>3, <1>4, <1>5 DEF SyncDoc

\* A writer stores its page and is done; the manager is idle meanwhile.
LEMMA WriterKeeps ==
  ASSUME PullSetting, TurnInv, Kept, NEW w \in Writers,
         WriteStart(w) \/ SyncAll(w) \/ Writer(w) \/ SyncDoc(w),
         pc[Manager] = "idle", pc'[Manager] = "idle"
  PROVE  Text' /\ Place' /\ UNCHANGED rows /\ pc'[w] \notin SyncLabels
<1>t. w \in Procs /\ TypeOK /\ md \in Doc /\ reg[w].doc \in Doc
  BY RegFields DEF Procs, TurnInv, LocalInv, TypeOK
<1>k. Text /\ Covered /\ pc[w] \notin SyncLabels
  BY DEF Kept, Place
<1>1. CASE WriteStart(w) \/ WritePrepend(w)
  <2>1. UNCHANGED <<md, notion, owed, rows>> /\ (Goto(w, "W_write") \/ Goto(w, "W_prepend"))
    BY <1>1 DEF WriteStart, WritePrepend
  <2>2. pc'[w] \in {"W_write", "W_prepend"}
    BY <2>1, <1>t, GotoAt
  <2> QED BY <2>1, <2>2, <1>k DEF Text, Place, Covered, SyncLabels
<1>2. CASE WriteStore(w)
  <2> DEFINE b == reg[w].new
  <2>p. reg[w].doc = [md EXCEPT !.sig = reg[w].doc.sig]
    BY <1>2, <1>t DEF WriteStore, TurnInv, HoldsStore
  <2>1. reg[w].doc.sig = {}
    BY <1>t DEF PullSetting, Doc, Maybe
  <2>2. /\ UNCHANGED <<notion, rows>> /\ md' = [reg[w].doc EXCEPT !.body = b]
        /\ Authored("agent", md.body, b) /\ Leave(w, "idle")
    <3>1. Authored("agent", md.body, b)
      BY <1>2, <2>1 DEF WriteStore
    <3>2. Leave(w, "idle")
      BY <1>2 DEF WriteStore, PullSetting
    <3> QED BY <1>2, <3>1, <3>2 DEF WriteStore
  <2>3. /\ md'.body = b /\ md'.page = md.page /\ md'.local = md.local
        /\ md'.synced = md.synced /\ md'.conflict = md.conflict
    <3>1. /\ reg[w].doc.page = md.page /\ reg[w].doc.local = md.local
          /\ reg[w].doc.synced = md.synced /\ reg[w].doc.conflict = md.conflict
      BY <2>p, <1>t DEF Doc
    <3> QED BY <2>2, <3>1, <1>t DEF Doc
  <2>4. owed' \subseteq (owed \ (md.body \ b)) \cup b
    BY <2>2 DEF Authored
  <2>5. pc'[w] = "idle"
    BY <2>2, <1>t, LeaveAt
  <2> QED BY <2>2, <2>3, <2>4, <2>5, <1>k DEF Text, Place, Covered, SyncLabels
<1>3. ~SyncAll(w) /\ ~SyncDoc(w)
  BY <1>k, SyncDocKeeps, <1>t DEF PullSetting, SyncAll
<1> QED BY <1>1, <1>2, <1>3 DEF Writer

LEMMA PeopleKeep ==
  ASSUME PullSetting, TypeOK, Kept, People
  PROVE  Kept'
<1>1. UNCHANGED pc /\ UNCHANGED reg /\ pc[Manager] = "idle" /\ md \in Doc
  BY PeopleWait, ManagerTyped DEF PullSetting, TypeOK
<1>k. Text /\ Covered
  BY <1>1 DEF Kept, Place
<1>2. ASSUME Text', Covered', UNCHANGED rows PROVE Kept'
  BY <1>1, <1>2 DEF Kept, Place
<1>3. CASE EditMarkdown
  <2>1. PICK b \in EditsOf(md.body) : md' = [md EXCEPT !.body = b] /\ Authored("md", md.body, b)
    BY <1>3 DEF EditMarkdown
  <2>2. /\ md'.body = b /\ md'.page = md.page /\ md'.local = md.local
        /\ md'.synced = md.synced /\ md'.conflict = md.conflict
    BY <2>1, <1>1 DEF Doc
  <2>3. md.body \subseteq b /\ owed' \subseteq owed \cup b
    BY <2>1 DEF EditsOf, PullSetting, Authored
  <2> QED BY <2>2, <2>3, <1>k, <1>2, <1>3 DEF Text, Covered, EditMarkdown
<1>4. CASE EditNotion
  <2>1. PICK old \in notion : \E b \in EditsOf(old) : notion' = {b} /\ Authored("notion", old, b)
    BY <1>4 DEF EditNotion
  <2>2. PICK b \in EditsOf(old) : notion' = {b} /\ Authored("notion", old, b)
    BY <2>1
  <2>3. notion = {old}
    BY <2>1 DEF TypeOK, Maybe
  <2>4. UNION notion = old /\ UNION notion' = b
    BY <2>2, <2>3, UnionOne
  <2>5. old \subseteq b /\ owed' \subseteq owed \cup (b \ old)
    BY <2>2 DEF EditsOf, PullSetting, Authored
  <2> QED BY <2>4, <2>5, <1>k, <1>2, <1>4 DEF Text, Covered, EditNotion
<1>5. CASE Relabel
  <2>1. PICK l \in Labels : md' = [md EXCEPT !.local = l]
    BY <1>5 DEF Relabel
  <2>2. /\ md'.body = md.body /\ md'.page = md.page
        /\ md'.synced = md.synced /\ md'.conflict = md.conflict
    BY <2>1, <1>1 DEF Doc
  <2>3. Labels # {}
    BY <2>1
  <2> QED BY <2>2, <2>3, <1>k, <1>2, <1>5 DEF Text, Covered, Relabel
<1>6. ~AdminResolve
  BY DEF PullSetting, AdminResolve
<1> QED BY <1>3, <1>4, <1>5, <1>6 DEF People

LEMMA PullStep ==
  ASSUME PullSetting, PullInv, [Next]_vars
  PROVE  PullInv'
<1>o. Overlap = FALSE
  BY DEF PullSetting
<1>1. TurnInv /\ TurnInv'
  BY <1>o, TurnStep DEF PullInv
<1>t. TypeOK /\ LocalInv
  BY <1>1 DEF TurnInv, LocalInv
<1> SUFFICES ASSUME faults' = 0 PROVE Kept'
  BY <1>1 DEF PullInv
<1>f. Kept /\ NoFault /\ ~Fault
  BY <1>t, NoFaultYet DEF PullInv, Fault, NoFault, TypeOK
<1>2. CASE \E p \in Procs : Turn(p)
  <2>1. PICK p \in Procs : Turn(p) /\ ~Crash(p)
    BY <1>2, <1>f DEF Crash
  <2>2. CASE p = Manager
    <3>1. \A w \in Writers : pc'[w] \notin SyncLabels
      BY <1>o, <1>1, <2>1, <2>2, ManagerAlone
    <3>2. Text' /\ Place' /\ \A r \in Rows : rows'[r] \notin Resolved
      <4>1. CASE SyncPull \/ WikiDirective
        <5>1. UNCHANGED rows
          BY <4>1 DEF SyncPull, PullRead, PullDecide, PullWrite, MergeWrite, ConflictMark,
                      WikiDirective, DirectiveRead, DirectiveWrite
        <5> QED BY <4>1, <5>1, <1>1, <1>f, PullKeeps, DirectiveKeeps DEF Kept
      <4>2. CASE ConflictResolution
        BY <4>2, <1>1, <1>f, ResolutionKeeps
      <4>3. CASE ConflictApply \/ SyncDoc(Manager)
        BY <4>3, <1>1, <1>f, ApplyKeeps, PushKeeps DEF Kept
      <4> QED BY <2>1, <2>2, <4>1, <4>2, <4>3, ProcessAssumption DEF Turn
    <3> QED BY <3>1, <3>2 DEF Kept
  <2>3. CASE p # Manager
    <3>1. p \in Writers
      BY <2>3 DEF Procs
    <3>2. pc[Manager] = "idle" /\ pc'[Manager] = "idle" /\ \A q \in Procs \ {p} : pc'[q] = "idle"
      BY <1>o, <2>1, <2>3, <1>t, Alone, ManagerTyped
    <3>3. WriteStart(p) \/ SyncAll(p) \/ Writer(p) \/ SyncDoc(p)
      BY <2>1, <2>3 DEF Turn
    <3>4. Text' /\ Place' /\ UNCHANGED rows /\ pc'[p] \notin SyncLabels
      BY <3>1, <3>2, <3>3, <1>1, <1>f, WriterKeeps
    <3> QED BY <3>2, <3>4, <1>f DEF Kept, Procs, SyncLabels
  <2> QED BY <2>2, <2>3
<1>3. CASE People
  BY <1>3, <1>t, <1>f, PeopleKeep
<1>4. CASE UNCHANGED vars
  BY <1>4, <1>f DEF vars, Kept, Text, Place, Covered, Mirrored
<1> QED BY <1>2, <1>3, <1>4, NextCases

\* When passes, writers and people take turns and nothing has failed, nothing that
\* anybody typed is lost between the two sides of an unsigned page: people only
\* add lines, writers only store, and sync_pull brings the two sides together by
\* decide_pull_push.  Either the page is never relabelled or no evidence decides
\* its conflicts: a page made local keeps a baseline that was never pushed.
THEOREM PullsLoseNothing ==
  ASSUME PullSetting
  PROVE  Spec => [](faults = 0 => NoLineLost)
<1>1. Init => PullInv
  <2> SUFFICES ASSUME Init PROVE PullInv
    OBVIOUS
  <2>1. \A p \in Procs : pc[p] = "idle"
    BY DEF Init
  <2>2. /\ ~md.local /\ ~md.conflict /\ owed = {} /\ Covered
    <3>1. PICK b \in {{}} \cup {{l} : l \in Lines \ Directives} :
             \/ md = [EmptyDoc EXCEPT !.body = b]
             \/ \E s \in Signed :
                  /\ md = [EmptyDoc EXCEPT !.body = b, !.page = TRUE, !.synced = {b},
                                           !.sig = s, !.pushed = s]
                  /\ notion = {b}
      BY DEF Init
    <3>2. CASE md = [EmptyDoc EXCEPT !.body = b]
      BY <3>2 DEF EmptyDoc, Covered, Init
    <3>3. CASE \E s \in Signed :
                  /\ md = [EmptyDoc EXCEPT !.body = b, !.page = TRUE, !.synced = {b},
                                           !.sig = s, !.pushed = s]
                  /\ notion = {b}
      BY <3>3 DEF EmptyDoc, Covered, Init
    <3> QED BY <3>1, <3>2, <3>3
  <2>3. \A r \in Rows : rows[r] \notin Resolved
    BY DEF Init, Resolved
  <2>4. Text /\ Place
    BY <2>1, <2>2, ManagerTyped DEF Text, Place
  <2> QED BY <2>1, <2>3, <2>4, TurnInit DEF PullInv, Kept, SyncLabels, Procs
<1>2. PullInv /\ [Next]_vars => PullInv'
  BY PullStep
<1>3. PullInv => (faults = 0 => NoLineLost)
  BY DEF PullInv, Kept, Text, NoLineLost
<1> QED BY <1>1, <1>2, <1>3, PTL DEF Spec

-----------------------------------------------------------------------------
(***************************************************************************)
(* No line is lost, by the signature gate.  Where agents sign what they    *)
(* store and sync it, and people write in Notion only, a bound page at     *)
(* rest is the body last mirrored, so that a pass only pulls; and a writer *)
(* pushes either its author's new statement, for which the others' lines   *)
(* were dropped, or nothing that Notion's text does not allow.             *)
(***************************************************************************)
GateSetting ==
    /\ Overlap = FALSE /\ Directives = {} /\ Labels = {} /\ Signatures # {}
    /\ Editors \subseteq {"notion"} /\ Watched \subseteq {"notion"}
    /\ SyncFlags \subseteq {TRUE} /\ Modes \subseteq {"update", "sync_all"}

Unmirrored == ~md.page => notion = {}

Settled == Unmirrored /\ (md.page => md.synced = {md.body})

\* A writer's page, signed: a push of it drops nothing that somebody is owed
\* unless the gate stops it.
Reasserts == md.sig # {} /\ (md.sig # md.pushed => owed \subseteq md.body)

\* What holds at each place of a process.
GatePlace(p) ==
    LET at == pc[p]
        my == reg[p]
    IN \/ at \in {"idle", "D_read", "R_read", "A_query"} /\ Settled
       \/ at = "A_next" /\ Settled /\ my.todo = {}
       \/ at = "P_fetch" /\ Settled /\ md.page
       \/ at = "P_pull" /\ Settled /\ md.page /\ my.seen = notion
       \/ at = "W_write" /\ Settled /\ my.doc.sig # {}
       \/ /\ at = "S_read" /\ p # Manager /\ my.ret = "idle" /\ ~my.force
          /\ Unmirrored /\ (md.page => md.synced = {md.body} \/ Reasserts)
       \/ at = "S_discover" /\ p # Manager /\ my.ret = "idle" /\ ~md.page /\ notion = {}
       \/ at = "S_fetch" /\ p # Manager /\ my.ret = "idle" /\ md.page /\ Reasserts
       \/ at = "S_override" /\ p # Manager /\ my.ret = "idle" /\ md.page /\ my.seen = notion
       \/ at \in {"S_push", "S_create"} /\ p # Manager /\ my.ret = "idle" /\ owed \subseteq md.body
       \/ at = "S_stamp" /\ p # Manager /\ my.ret = "idle" /\ notion = {md.body}

GateText == owed \subseteq UNION notion /\ ~md.conflict /\ ~md.local

Gated ==
    /\ GateText
    /\ \A p \in Procs : pc[p] # "idle" => GatePlace(p)
    /\ (\A p \in Procs : pc[p] = "idle") => Settled
    /\ \A r \in Rows : Free(r)

GateInv == TurnInv /\ (faults = 0 => Gated)

LEMMA UnionNone == UNION {} = {}
  OBVIOUS

\* A page that is at rest is pulled when it differs from Notion.
LEMMA RestIsPulled ==
  ASSUME NEW m, NEW n, NEW c, m # n
  PROVE  DecidePullPush(m, n, {m}, c) = "pull"
  BY DEF DecidePullPush

LEMMA PassGated ==
  ASSUME GateSetting, TurnInv, GateText, GatePlace(Manager), \A r \in Rows : Free(r), NoFault,
         SyncPull \/ WikiDirective \/ ConflictResolution \/ ConflictApply
  PROVE  GateText' /\ GatePlace(Manager)' /\ UNCHANGED rows
<1>t. TypeOK /\ HoldsStore(Manager) /\ md \in Doc
  BY ManagerTyped DEF TurnInv, LocalInv, TypeOK
<1>f. ~Fault
  BY <1>t DEF NoFault, Fault, TypeOK
<1>h. pc[Manager] \in Holding => reg[Manager].doc = md
  BY <1>t DEF HoldsStore
<1>1. CASE SyncPull
  <2>1. CASE PullRead
    <3>1. /\ UNCHANGED <<md, notion, owed, rows>> /\ Settled
          /\ (Goto(Manager, "P_fetch") /\ md.page) \/ Goto(Manager, "D_read")
      BY <2>1 DEF PullRead, GatePlace
    <3>2. (pc'[Manager] = "P_fetch" /\ md.page) \/ pc'[Manager] = "D_read"
      BY <3>1, <1>t, GotoAt, ManagerTyped
    <3> QED BY <3>1, <3>2 DEF GateText, GatePlace, Settled, Unmirrored
  <2>2. CASE PullDecide
    <3>p. /\ UNCHANGED <<md, notion, owed, rows>> /\ Settled /\ md.page /\ reg[Manager].doc = md
      BY <2>2, <1>h DEF PullDecide, GatePlace, Holding
    <3>1. PICK c \in BOOLEAN :
            LET act == DecidePullPush(reg[Manager].doc.body, UNION notion, reg[Manager].doc.synced, c)
            IN \/ act = "noop" /\ Leave(Manager, "D_read")
               \/ act = "push"
               \/ /\ act # "noop"
                  /\ \E n : reg' = [reg EXCEPT ![Manager].seen = notion, ![Manager].new = n]
                  /\ act = "pull" => Goto(Manager, "P_pull")
      BY <2>2, <1>f, Zenon DEF PullDecide
    <3>2. md.synced = {md.body}
      BY <3>p DEF Settled
    <3>3. /\ DecidePullPush(md.body, UNION notion, md.synced, c) = "noop" => md.body = UNION notion
          /\ md.body # UNION notion => DecidePullPush(md.body, UNION notion, md.synced, c) = "pull"
          /\ md.body = UNION notion => DecidePullPush(md.body, UNION notion, md.synced, c) = "noop"
      BY <3>2, RestIsPulled DEF DecidePullPush
    <3>4. \/ Leave(Manager, "D_read")
          \/ /\ \E n : reg' = [reg EXCEPT ![Manager].seen = notion, ![Manager].new = n]
             /\ Goto(Manager, "P_pull")
      BY <3>1, <3>3, <3>p
    <3>5. CASE Leave(Manager, "D_read")
      <4>1. pc'[Manager] = "D_read"
        BY <3>5, <1>t, LeaveAt, ManagerTyped
      <4> QED BY <4>1, <3>p DEF GateText, GatePlace, Settled, Unmirrored
    <3>6. CASE /\ \E n : reg' = [reg EXCEPT ![Manager].seen = notion, ![Manager].new = n]
               /\ Goto(Manager, "P_pull")
      <4>1. pc'[Manager] = "P_pull"
        BY <3>6, <1>t, GotoAt, ManagerTyped
      <4>2. reg'[Manager].seen = notion
        BY <3>6, <1>t, ManagerTyped DEF TypeOK, Reg
      <4> QED BY <4>1, <4>2, <3>p DEF GateText, GatePlace, Settled, Unmirrored
    <3> QED BY <3>4, <3>5, <3>6
  <2>3. CASE PullWrite
    <3>1. Leave(Manager, "D_read") /\ UNCHANGED <<notion, owed, rows>>
      BY <2>3 DEF PullWrite
    <3>2. /\ reg[Manager].doc = md /\ reg[Manager].seen = notion /\ md.page
      BY <2>3, <1>h DEF PullWrite, GatePlace, Holding
    <3> DEFINE b == UNION notion
    <3>3. md' = [StampHumanOverride(md) EXCEPT !.body = b, !.synced = {b}]
      BY <2>3, <3>2 DEF PullWrite
    <3> HIDE DEF b
    <3>4. /\ md'.body = b /\ md'.synced = {b} /\ md'.page = md.page /\ md'.local = md.local
          /\ ~md'.conflict
      BY <3>3, <1>t DEF StampHumanOverride, Doc
    <3>5. pc'[Manager] = "D_read"
      BY <3>1, <1>t, LeaveAt, ManagerTyped
    <3> QED BY <3>1, <3>2, <3>4, <3>5 DEF GateText, GatePlace, Settled, Unmirrored
  <2>4. CASE MergeWrite \/ ConflictMark
    BY <2>4 DEF MergeWrite, ConflictMark, GatePlace
  <2> QED BY <1>1, <2>1, <2>2, <2>3, <2>4 DEF SyncPull
<1>2. CASE DirectiveRead \/ ResolutionRead
  <2>1. /\ UNCHANGED <<md, notion, owed, rows>> /\ Settled
        /\ Goto(Manager, "R_read") \/ Goto(Manager, "A_query")
    BY <1>2 DEF GateSetting, GateText, DirectiveRead, ResolutionRead, GatePlace
  <2>2. pc'[Manager] = "R_read" \/ pc'[Manager] = "A_query"
    BY <2>1, <1>t, GotoAt, ManagerTyped
  <2> QED BY <2>1, <2>2 DEF GateText, GatePlace, Settled, Unmirrored
<1>3. CASE QueryRows
  <2>1. /\ reg' = [reg EXCEPT ![Manager].todo = {x \in Rows \X Resolved : rows[x[1]] = x[2]}]
        /\ Goto(Manager, "A_next")
        /\ UNCHANGED <<md, notion, owed, rows>> /\ Settled
    BY <1>3, <1>f DEF QueryRows, GatePlace
  <2>2. {x \in Rows \X Resolved : rows[x[1]] = x[2]} = {}
    BY DEF Free, Resolved
  <2>3. reg' = [reg EXCEPT ![Manager].todo = {}]
    BY <2>1, <2>2
  <2>4. reg'[Manager].todo = {}
    BY <2>3, <1>t, ManagerTyped DEF TypeOK, Reg
  <2>5. pc'[Manager] = "A_next"
    BY <2>1, <1>t, GotoAt, ManagerTyped
  <2> QED BY <2>1, <2>4, <2>5 DEF GateText, GatePlace, Settled, Unmirrored
<1>4. CASE NextRow
  <2>1. Leave(Manager, "idle") /\ UNCHANGED <<md, notion, owed, rows>> /\ Settled
    BY <1>4 DEF NextRow, GatePlace
  <2>2. pc'[Manager] = "idle"
    BY <2>1, <1>t, LeaveAt, ManagerTyped
  <2> QED BY <2>1, <2>2 DEF GateText, GatePlace, Settled, Unmirrored
<1>5. ~DirectiveWrite /\ ~ResolutionFetch /\ ~ResolutionApply /\ ~Escalate /\ ~CreateRow
      /\ ~ApplyFetch /\ ~ApplyWrite /\ ~MarkApplied
  BY DEF DirectiveWrite, ResolutionFetch, ResolutionApply, Escalate, CreateRow, ApplyFetch,
         ApplyWrite, MarkApplied, GatePlace
<1> QED BY <1>1, <1>2, <1>3, <1>4, <1>5 DEF WikiDirective, ConflictResolution, ConflictApply

LEMMA WriterGated ==
  ASSUME GateSetting, TurnInv, GateText, NEW w \in Writers, GatePlace(w), NoFault,
         WriteStart(w) \/ SyncAll(w) \/ Writer(w)
  PROVE  GateText' /\ GatePlace(w)' /\ UNCHANGED rows
<1>t. w \in Procs /\ w # Manager /\ TypeOK /\ md \in Doc /\ reg[w].doc \in Doc
  BY RegFields, ProcessAssumption DEF Procs, TurnInv, LocalInv, TypeOK
<1>1. CASE WriteStart(w)
  <2>1. UNCHANGED <<md, notion, owed, rows>> /\ Settled
    BY <1>1 DEF WriteStart, GatePlace
  <2>2. PICK body \in Body, s \in Signed :
           /\ reg' = [reg EXCEPT ![w].doc = [md EXCEPT !.sig = IF s # {} THEN s ELSE @],
                                 ![w].new = body]
           /\ Goto(w, "W_write")
    BY <1>1 DEF WriteStart, GateSetting
  <2>3. s # {}
    BY DEF GateSetting, Signed
  <2>4. [md EXCEPT !.sig = IF s # {} THEN s ELSE @].sig = s
    BY <2>3, <1>t DEF Doc
  <2>5. reg'[w].doc = [md EXCEPT !.sig = IF s # {} THEN s ELSE @]
    BY <2>2, <1>t DEF TypeOK, Reg
  <2>6. pc'[w] = "W_write" /\ reg'[w].doc.sig # {}
    BY <2>2, <2>3, <2>4, <2>5, <1>t, GotoAt
  <2> QED BY <2>1, <2>6 DEF GateText, GatePlace, Settled, Unmirrored
<1>2. CASE SyncAll(w)
  <2>1. UNCHANGED <<md, notion, owed, rows>> /\ Settled /\ Call(w, FALSE, "idle")
    BY <1>2 DEF SyncAll, GatePlace
  <2>2. pc'[w] = "S_read" /\ reg'[w].ret = "idle" /\ reg'[w].force = FALSE
    BY <2>1, <1>t, UnforcedCallAt
  <2> QED BY <2>1, <2>2, <1>t DEF GateText, GatePlace, Settled, Unmirrored
<1>3. CASE WriteStore(w)
  <2> DEFINE b == reg[w].new
             doc == reg[w].doc
  <2>p. doc = [md EXCEPT !.sig = doc.sig] /\ doc.sig # {} /\ Settled
    BY <1>3, <1>t DEF WriteStore, TurnInv, HoldsStore, GatePlace
  <2>d. /\ doc.page = md.page /\ doc.local = md.local /\ doc.conflict = md.conflict
        /\ doc.pushed = md.pushed
    BY <2>p, <1>t DEF Doc
  <2>1. /\ UNCHANGED <<notion, rows>> /\ md' = [doc EXCEPT !.body = b]
        /\ IF doc.sig = doc.pushed THEN Added("agent", md.body, b) ELSE Dropped(Lines \ b)
    <3>1. md' = [doc EXCEPT !.body = b]
      BY <1>3 DEF WriteStore
    <3>2. doc.sig = doc.pushed => Added("agent", md.body, b)
      BY <1>3, <2>p DEF WriteStore
    <3>3. doc.sig # doc.pushed => Dropped(Lines \ b)
      BY <1>3, <2>p DEF WriteStore
    <3> QED BY <1>3, <3>1, <3>2, <3>3 DEF WriteStore
  <2>2. Call(w, FALSE, "idle")
    BY <1>3 DEF WriteStore, GateSetting
  <2>3. pc'[w] = "S_read" /\ reg'[w].ret = "idle" /\ reg'[w].force = FALSE
    BY <2>2, <1>t, UnforcedCallAt
  <2>4. doc \in Doc /\ owed \subseteq Lines
    BY <1>t DEF TypeOK, Body
  <2> HIDE DEF doc, b
  <2>5. /\ md'.body = b /\ md'.page = md.page /\ md'.local = md.local
        /\ md'.conflict = md.conflict /\ md'.sig = doc.sig /\ md'.pushed = doc.pushed
    BY <2>1, <2>d, <2>4 DEF Doc
  <2>6. /\ owed' \subseteq owed
        /\ doc.sig # doc.pushed => owed' \subseteq b
    <3>1. "agent" \notin Watched
      BY DEF GateSetting
    <3> QED BY <2>1, <2>4, <3>1 DEF Dropped, Added
  <2>7. GateText'
    BY <2>1, <2>5, <2>6 DEF GateText
  <2>8. Unmirrored' /\ Reasserts'
    BY <2>1, <2>5, <2>6, <2>p DEF Unmirrored, Settled, Reasserts
  <2> QED BY <2>1, <2>3, <2>7, <2>8, <1>t DEF GatePlace
<1>4. ~WritePrepend(w)
  BY DEF WritePrepend, GatePlace
<1> QED BY <1>1, <1>2, <1>3, <1>4 DEF Writer

LEMMA SyncGated ==
  ASSUME GateSetting, TurnInv, GateText, NEW p \in Procs, GatePlace(p), NoFault, SyncDoc(p)
  PROVE  GateText' /\ GatePlace(p)' /\ UNCHANGED rows
<1>t. TypeOK /\ md \in Doc /\ reg[p].doc \in Doc
  BY RegFields DEF TurnInv, LocalInv, TypeOK
<1>f. ~Fault
  BY <1>t DEF NoFault, Fault, TypeOK
<1>h. pc[p] \in Pushing => reg[p].doc = md
  BY DEF TurnInv, HoldsStore, Holding
<1>r. UNCHANGED rows
  BY SyncDocKeeps
<1>p. p # Manager /\ reg[p].ret = "idle"
  BY DEF SyncDoc, SyncRead, SyncDiscover, SyncFetch, SyncOverride, SyncPush, SyncStamp, GatePlace
<1>b. ASSUME Return(p), Settled' PROVE GatePlace(p)'
  <2>1. pc'[p] = "idle"
    BY <1>b, <1>t, <1>p, ReturnAt
  <2> QED BY <1>b, <2>1 DEF GatePlace
<1>1. CASE SyncRead(p)
  <2>p. /\ UNCHANGED <<md, notion, owed>> /\ Unmirrored /\ ~reg[p].force
        /\ md.page => md.synced = {md.body} \/ Reasserts
    BY <1>1 DEF SyncRead, GatePlace
  <2>t. GateText'
    BY <2>p DEF GateText
  <2>1. CASE md.page /\ md.synced = {md.body}
    <3>1. Return(p)
      BY <1>1, <2>1, <2>p DEF SyncRead
    <3> QED BY <2>1, <2>p, <2>t, <3>1, <1>b, <1>r DEF Settled, Unmirrored
  <2>2. CASE ~(md.page /\ md.synced = {md.body})
    <3>1. /\ reg' = [reg EXCEPT ![p].doc = md]
          /\ (Goto(p, "S_discover") /\ ~md.page) \/ (Goto(p, "S_fetch") /\ md.page)
      <4>1. reg' = [reg EXCEPT ![p].doc = md]
        BY <1>1, <2>2, <2>p DEF SyncRead, GateText
      <4>2. CASE md.page
        BY <1>1, <2>2, <2>p, <4>1, <4>2 DEF SyncRead, GateText
      <4>3. CASE ~md.page
        <5>1. Goto(p, "S_discover") \/ Return(p)
          BY <1>1, <4>3, Zenon DEF SyncRead
        <5>2. Return(p) => md.local
          <6>1. SUFFICES ASSUME Return(p), ~md.local PROVE FALSE
            OBVIOUS
          <6>2. Goto(p, "S_discover")
            BY <1>1, <4>3, <6>1 DEF SyncRead
          <6>3. pc'[p] = "S_discover"
            BY <6>2, <1>t, GotoAt
          <6>4. pc'[p] = reg[p].ret
            BY <6>1, <1>t, ReturnAt
          <6> QED BY <6>3, <6>4, <1>p
        <5> QED BY <4>1, <5>1, <5>2, <4>3 DEF GateText
      <4> QED BY <4>1, <4>2, <4>3
    <3>2. reg'[p].ret = reg[p].ret
      BY <3>1, <1>t, DocAt
    <3>3. (pc'[p] = "S_discover" /\ ~md.page) \/ (pc'[p] = "S_fetch" /\ md.page)
      BY <3>1, <1>t, GotoAt
    <3> QED BY <2>2, <2>p, <2>t, <3>2, <3>3, <1>p, <1>r DEF GatePlace, Unmirrored, Reasserts
  <2> QED BY <2>1, <2>2
<1>2. CASE SyncDiscover(p)
  <2>p. /\ UNCHANGED <<md, notion, owed>> /\ ~md.page /\ notion = {}
    BY <1>2 DEF SyncDiscover, GatePlace
  <2>t. GateText' /\ owed = {}
    BY <2>p, UnionNone DEF GateText
  <2>1. (Goto(p, "S_create") /\ UNCHANGED reg) \/ Return(p)
    BY <1>2, <2>p, Zenon DEF SyncDiscover
  <2>2. CASE Return(p)
    BY <2>p, <2>t, <2>2, <1>b, <1>r DEF Settled, Unmirrored
  <2>3. CASE Goto(p, "S_create") /\ UNCHANGED reg
    <3>1. pc'[p] = "S_create"
      BY <2>3, <1>t, GotoAt
    <3> QED BY <2>3, <2>p, <2>t, <3>1, <1>p, <1>r DEF GatePlace
  <2> QED BY <2>1, <2>2, <2>3
<1>3. CASE SyncFetch(p)
  <2>p. /\ UNCHANGED <<md, notion, owed>> /\ md.page /\ Reasserts /\ reg[p].doc = md
    BY <1>3, <1>h DEF SyncFetch, GatePlace, Pushing
  <2>1. /\ reg' = [reg EXCEPT ![p].seen = notion]
        /\ Goto(p, IF ShouldSkipPush(md, notion) THEN "S_override" ELSE "S_push")
    BY <1>3, <1>f, <2>p DEF SyncFetch
  <2>2. reg'[p].ret = reg[p].ret /\ reg'[p].seen = notion
    BY <2>1, <1>t DEF TypeOK, Reg
  <2>3. CASE ShouldSkipPush(md, notion)
    <3>1. pc'[p] = "S_override"
      BY <2>1, <2>3, <1>t, GotoAt
    <3> QED BY <2>p, <2>2, <3>1, <1>p, <1>r DEF GateText, GatePlace
  <2>4. CASE ~ShouldSkipPush(md, notion)
    <3>1. pc'[p] = "S_push"
      BY <2>1, <2>4, <1>t, GotoAt
    <3>2. owed \subseteq md.body
      <4>1. UNION {md.body} = md.body
        BY UnionOne
      <4> QED BY <2>p, <2>4, <4>1 DEF ShouldSkipPush, Reasserts, GateText
    <3> QED BY <2>p, <2>2, <3>1, <3>2, <1>p, <1>r DEF GateText, GatePlace
  <2> QED BY <2>3, <2>4
<1>4. CASE SyncOverride(p)
  <2>p. reg[p].doc = md /\ reg[p].seen = notion /\ md.page
    BY <1>4, <1>h DEF SyncOverride, GatePlace, Pushing
  <2> DEFINE b == UNION notion
  <2>1. /\ md' = [StampHumanOverride(md) EXCEPT !.body = b, !.synced = {b}]
        /\ owed' \subseteq owed /\ notion' = notion /\ Return(p)
    BY <1>4, <2>p DEF SyncOverride, Dropped
  <2>2. GateText => owed \subseteq b
    BY DEF GateText
  <2> HIDE DEF b
  <2>3. /\ md'.body = b /\ md'.synced = {b} /\ md'.page = md.page /\ md'.local = md.local
        /\ ~md'.conflict
    BY <2>1, <1>t DEF StampHumanOverride, Doc
  <2>4. GateText' /\ Settled'
    BY <2>p, <2>1, <2>3 DEF GateText, Settled, Unmirrored
  <2> QED BY <2>1, <2>4, <1>b, <1>r
<1>5. CASE SyncPush(p)
  <2>1. notion' = {md.body} /\ Goto(p, "S_stamp") /\ UNCHANGED <<md, owed, reg>>
    BY <1>5, <1>f, <1>h DEF SyncPush, Pushing
  <2>2. pc'[p] = "S_stamp" /\ owed \subseteq md.body
    BY <1>5, <2>1, <1>t, GotoAt DEF SyncPush, GatePlace
  <2>3. UNION notion' = md.body
    BY <2>1, UnionOne
  <2> QED BY <2>1, <2>2, <2>3, <1>p, <1>r DEF GateText, GatePlace
<1>6. CASE SyncStamp(p)
  <2>p. reg[p].doc = md /\ notion = {md.body}
    BY <1>6, <1>h DEF SyncStamp, GatePlace, Pushing
  <2>1. /\ md' = [StampAgentPush(md) EXCEPT !.page = TRUE, !.synced = {md.body}]
        /\ Return(p) /\ UNCHANGED <<notion, owed>>
    BY <1>6, <2>p DEF SyncStamp
  <2>2. /\ md'.body = md.body /\ md'.page /\ md'.local = md.local /\ md'.synced = {md.body}
        /\ ~md'.conflict
    BY <2>1, <1>t DEF StampAgentPush, Doc
  <2>3. GateText' /\ Settled'
    BY <2>1, <2>2 DEF GateText, Settled, Unmirrored
  <2> QED BY <2>1, <2>3, <1>b, <1>r
<1> QED BY <1>1, <1>2, <1>3, <1>4, <1>5, <1>6 DEF SyncDoc

LEMMA PeopleGated ==
  ASSUME GateSetting, TypeOK, GateText, Settled, People
  PROVE  GateText' /\ Settled' /\ \A r \in Rows : Free(r) => Free(r)'
<1>1. CASE EditNotion
  <2>1. PICK old \in notion : \E b \in EditsOf(old) : notion' = {b} /\ Authored("notion", old, b)
    BY <1>1 DEF EditNotion
  <2>2. PICK b \in EditsOf(old) : notion' = {b} /\ Authored("notion", old, b)
    BY <2>1
  <2>3. notion = {old}
    BY <2>1 DEF TypeOK, Maybe
  <2>4. UNION notion = old /\ UNION notion' = b
    BY <2>2, <2>3, UnionOne
  <2>5. owed' \subseteq (owed \ (old \ b)) \cup (b \ old)
    BY <2>2 DEF Authored
  <2>6. UNCHANGED <<md, rows>>
    BY <1>1 DEF EditNotion
  <2> QED BY <2>3, <2>4, <2>5, <2>6 DEF GateText, Settled, Unmirrored, Free
<1>2. ~EditMarkdown /\ ~Relabel
  BY DEF GateSetting, EditMarkdown, Relabel
<1>3. CASE AdminResolve
  <2>1. PICK r \in Rows, c \in Choices : rows[r] = "open" /\ rows' = [rows EXCEPT ![r] = c]
    BY <1>3 DEF AdminResolve
  <2>2. \A s \in Rows : Free(s) => Free(s)'
    BY <2>1 DEF Free, TypeOK
  <2>3. UNCHANGED <<md, notion, owed>>
    BY <1>3 DEF AdminResolve
  <2> QED BY <2>2, <2>3 DEF GateText, Settled, Unmirrored
<1> QED BY <1>1, <1>2, <1>3 DEF People

LEMMA GateStep ==
  ASSUME GateSetting, GateInv, [Next]_vars
  PROVE  GateInv'
<1>o. Overlap = FALSE
  BY DEF GateSetting
<1>1. TurnInv /\ TurnInv'
  BY <1>o, TurnStep DEF GateInv
<1>t. TypeOK /\ LocalInv
  BY <1>1 DEF TurnInv, LocalInv
<1> SUFFICES ASSUME faults' = 0 PROVE Gated'
  BY <1>1 DEF GateInv
<1>f. Gated /\ NoFault /\ ~Fault
  BY <1>t, NoFaultYet DEF GateInv, Fault, NoFault, TypeOK
<1>2. CASE \E p \in Procs : Turn(p)
  <2>1. PICK p \in Procs : Turn(p) /\ ~Crash(p)
    BY <1>2, <1>f DEF Crash
  <2>2. \A q \in Procs \ {p} : pc[q] = "idle" /\ pc'[q] = "idle"
    BY <1>o, <2>1, <1>t, Alone
  <2>3. GateText /\ GatePlace(p) /\ \A r \in Rows : Free(r)
    <3>1. CASE pc[p] = "idle"
      <4>1. Settled
        BY <2>2, <3>1, <1>f DEF Gated
      <4> QED BY <3>1, <4>1, <1>f DEF Gated, GatePlace
    <3> QED BY <3>1, <1>f DEF Gated
  <2>4. GateText' /\ GatePlace(p)' /\ UNCHANGED rows
    BY <2>1, <2>3, <1>1, <1>f, PassGated, WriterGated, SyncGated DEF Turn
  <2>5. pc'[p] = "idle" => Settled'
    BY <2>4 DEF GatePlace
  <2> QED BY <2>2, <2>3, <2>4, <2>5 DEF Gated, Free
<1>3. CASE People
  <2>1. \A p \in Procs : pc[p] = "idle" /\ pc'[p] = "idle"
    BY <1>o, <1>3, PeopleWait
  <2>2. GateText' /\ Settled' /\ \A r \in Rows : Free(r) => Free(r)'
    BY <2>1, <1>3, <1>t, <1>f, PeopleGated DEF Gated
  <2> QED BY <2>1, <2>2, <1>f DEF Gated
<1>4. CASE UNCHANGED vars
  BY <1>4, <1>f DEF vars, Gated, GateText, GatePlace, Settled, Unmirrored, Reasserts, Free
<1> QED BY <1>2, <1>3, <1>4, NextCases

\* When passes, writers and people take turns and nothing has failed, a page whose
\* agents sign what they write, and sync it, never costs a human a line they typed
\* in Notion: the gate of should_skip_push lets an agent push over Notion only
\* under a new signature, and gives a pulled line that an update left out back.
THEOREM GateLosesNothing ==
  ASSUME GateSetting
  PROVE  Spec => [](faults = 0 => NoLineLost)
<1>1. Init => GateInv
  <2> SUFFICES ASSUME Init PROVE GateInv
    OBVIOUS
  <2>1. \A p \in Procs : pc[p] = "idle"
    BY DEF Init
  <2>2. ~md.local /\ ~md.conflict /\ owed = {} /\ Settled
    <3>1. PICK b \in {{}} \cup {{l} : l \in Lines \ Directives} :
             \/ md = [EmptyDoc EXCEPT !.body = b] /\ notion = {}
             \/ \E s \in Signed :
                  md = [EmptyDoc EXCEPT !.body = b, !.page = TRUE, !.synced = {b},
                                        !.sig = s, !.pushed = s]
      BY DEF Init
    <3>2. CASE md = [EmptyDoc EXCEPT !.body = b] /\ notion = {}
      BY <3>2 DEF EmptyDoc, Settled, Unmirrored, Init
    <3>3. CASE \E s \in Signed :
                  md = [EmptyDoc EXCEPT !.body = b, !.page = TRUE, !.synced = {b},
                                        !.sig = s, !.pushed = s]
      BY <3>3 DEF EmptyDoc, Settled, Unmirrored, Init
    <3> QED BY <3>1, <3>2, <3>3
  <2>3. \A r \in Rows : Free(r)
    BY DEF Init, Free
  <2> QED BY <2>1, <2>2, <2>3, TurnInit DEF GateInv, Gated, GateText
<1>2. GateInv /\ [Next]_vars => GateInv'
  BY GateStep
<1>3. GateInv => (faults = 0 => NoLineLost)
  BY DEF GateInv, Gated, GateText, NoLineLost
<1> QED BY <1>1, <1>2, <1>3, PTL DEF Spec
=============================================================================
