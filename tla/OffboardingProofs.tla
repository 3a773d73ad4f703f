-------------------------- MODULE OffboardingProofs -------------------------
(***************************************************************************)
(* Theorems about Offboarding, for any pages, keys, threads and bounds.    *)
(***************************************************************************)
EXTENDS Offboarding, FiniteSetTheorems, TLAPS

USE IndexAssumption, BoundsAssumption

-----------------------------------------------------------------------------
(* Types *)

LEMMA InitTyped == Init => TypeOK
<1>1. 0 \in 0..Delay /\ 0 \in 0..MaxFaults /\ 1 \in 1..MaxHires
  OBVIOUS
<1>2. [t \in Threads |-> Free] \in [Threads -> [at : {"free", "verified", "append"}, key : SUBSET Keys]]
  BY DEF Free
<1>3. TRUE \in BOOLEAN /\ FALSE \in BOOLEAN /\ {Root, Index} \in SUBSET OnDisk
  BY DEF OnDisk
<1>4. QED
  BY <1>1, <1>2, <1>3 DEF Init, TypeOK

\* The fields of events.
LEMMA EventFields == \A e \in Event : e.id \in Ids /\ e.key \in Keys /\ e.done \in BOOLEAN
BY DEF Event

LEMMA WriteTyped ==
    ASSUME TypeOK, NEW page \in Pages \cup Ids, Write(page)
    PROVE  /\ tree' \in SUBSET OnDisk /\ written' \in SUBSET (Pages \cup Ids)
           /\ late' \in BOOLEAN
BY DEF TypeOK, Write, OnDisk

LEMMA FaultTyped == ASSUME TypeOK, Fault PROVE faults' \in 0..MaxFaults
BY DEF TypeOK, Fault

LEMMA TornTyped == ASSUME TypeOK PROVE Torn \in {"no", "left", "pushed"}
BY DEF TypeOK, Torn

LEMMA CommandTyped ==
    ASSUME TypeOK, IssueToken \/ RevokeToken \/ Command \/ Work \/ NewDay
    PROVE  TypeOK'
<1>0. 0 \in 0..Delay /\ TRUE \in BOOLEAN /\ FALSE \in BOOLEAN
  OBVIOUS
<1>1. CASE IssueToken \/ RevokeToken
  <2>1. token' \in BOOLEAN /\ reissued' \in BOOLEAN
    BY <1>1 DEF TypeOK, IssueToken, RevokeToken
  <2>2. QED
    BY <1>1, <2>1 DEF TypeOK, IssueToken, RevokeToken, hrVars, archiveVars, bridgeVars
<1>2. CASE Confirm \/ Revoke
  <2>1. CASE Confirm
    BY <1>0, <2>1 DEF TypeOK, Confirm, archiveVars, bridgeVars
  <2>2. CASE Revoke
    <3>1. token' \in BOOLEAN /\ reissued' \in BOOLEAN /\ confirm' \in {"idle", "revoke"}
      BY <1>0, <2>2 DEF Revoke
    <3>2. QED
      BY <2>2, <3>1 DEF TypeOK, Revoke, hrVars, archiveVars, bridgeVars
  <2>3. QED
    BY <1>2, <2>1, <2>2
<1>3. CASE Rehire
  <2>1. hires' \in 1..MaxHires
    BY <1>3 DEF TypeOK, Rehire
  <2>2. QED
    BY <1>0, <1>3, <2>1 DEF TypeOK, Rehire, archiveVars, bridgeVars
<1>4. CASE Bootstrap
  BY <1>4, WriteTyped DEF TypeOK, Bootstrap, hrVars, archiveVars, bridgeVars
<1>5. CASE Work
  <2>1. PICK page \in Pages \ tree : Write(page)
    BY <1>5 DEF Work
  <2>2. QED
    BY <1>5, <2>1, WriteTyped DEF TypeOK, Work, hrVars, archiveVars, bridgeVars
<1>6. CASE NewDay
  <2>1. age' \in 0..Delay
    <3>1. age \in 0..Delay
      BY DEF TypeOK
    <3>2. age' = age \/ (age < Delay /\ age' = age + 1)
      BY <1>6 DEF NewDay
    <3>3. QED
      BY <3>1, <3>2
  <2>2. /\ ranToday' \in BOOLEAN
        /\ UNCHANGED <<status, filed, hires, token, confirm, hire, archive, packed, branch, torn, tree,
                       written, late, reissued, events, request, bridgeVars, faults>>
    BY <1>0, <1>6 DEF NewDay
  <2>3. QED
    BY <2>1, <2>2 DEF TypeOK, bridgeVars
<1>7. QED
  BY <1>1, <1>2, <1>3, <1>4, <1>5, <1>6 DEF Command

LEMMA ArchiveTyped ==
    ASSUME TypeOK, Archive \/ PushFails \/ RemoveFails
    PROVE  TypeOK'
<1>1. CASE Pass
  <2>1. filed' \in BOOLEAN /\ ranToday' \in BOOLEAN
    BY <1>1 DEF TypeOK, Pass
  <2>2. archive' \in {"idle", "push", "remove", "file"} /\ packed' \in SUBSET OnDisk
    BY <1>1 DEF TypeOK, Pass
  <2>3. QED
    BY <1>1, <2>1, <2>2 DEF TypeOK, Pass, bridgeVars
<1>2. CASE Push \/ PushNothing \/ RemovePage \/ RemoveRoot \/ FileMember
  <2>1. TRUE \in BOOLEAN
    OBVIOUS
  <2>2. CASE Push \/ PushNothing
    <3>1. /\ archive' \in {"idle", "push", "remove", "file"} /\ ranToday' \in BOOLEAN
          /\ torn' \in {"no", "left", "pushed"}
          /\ packed' \in SUBSET OnDisk /\ branch' \in SUBSET OnDisk
      BY <2>1, <2>2 DEF TypeOK, Push, PushNothing
    <3>2. QED
      BY <2>2, <3>1 DEF TypeOK, Push, PushNothing, hrVars, bridgeVars
  <2>3. CASE RemovePage \/ RemoveRoot
    BY <2>3 DEF TypeOK, RemovePage, RemoveRoot, hrVars, archiveVars, bridgeVars
  <2>4. CASE FileMember
    BY <2>1, <2>4 DEF TypeOK, FileMember, bridgeVars
  <2>5. QED
    BY <1>2, <2>2, <2>3, <2>4
<1>3. CASE PushFails \/ RemoveFails
  <2>1. torn' \in {"no", "left", "pushed"} /\ ranToday' \in BOOLEAN
    BY <1>3, TornTyped DEF TypeOK, PushFails, RemoveFails
  <2>2. faults' \in 0..MaxFaults
    BY <1>3, FaultTyped DEF TypeOK, PushFails, RemoveFails
  <2>3. QED
    BY <1>3, <2>1, <2>2 DEF TypeOK, PushFails, RemoveFails, hrVars, bridgeVars
<1>4. QED
  BY <1>1, <1>2, <1>3 DEF Archive

LEMMA ServeTyped ==
    ASSUME TypeOK, NEW t \in Threads, Serve(t) \/ KillRequest(t)
    PROVE  TypeOK'
<1> DEFINE R == [at : {"free", "verified", "append"}, key : SUBSET Keys]
<1>1. CASE Verify(t)
  <2>1. request' = [request EXCEPT ![t] = [request[t] EXCEPT !.at = "verified"]]
    BY <1>1 DEF Verify
  <2>2. [request[t] EXCEPT !.at = "verified"] \in R
    BY DEF TypeOK
  <2>3. request' \in [Threads -> R]
    BY <2>1, <2>2 DEF TypeOK
  <2>4. QED
    BY <1>1, <2>3 DEF TypeOK, Verify, hrVars, archiveVars, bridgeVars
<1>2. CASE Admit(t)
  <2>1. PICK k \in Keys : request' = [request EXCEPT ![t] =
            IF Admitted(k) THEN [at |-> "append", key |-> {k}] ELSE Free]
    BY <1>2 DEF Admit
  <2>2. request' \in [Threads -> R]
    BY <2>1 DEF TypeOK, Free
  <2>3. QED
    BY <1>2, <2>2 DEF TypeOK, Admit, hrVars, archiveVars, bridgeVars
<1>3. CASE AppendEvent(t)
  <2>1. PICK k \in request[t].key :
            events' = events \cup {[id |-> CHOOSE i \in Unused : TRUE, key |-> k, done |-> FALSE]}
    BY <1>3 DEF AppendEvent
  <2>2. (CHOOSE i \in Unused : TRUE) \in Ids
    BY <1>3 DEF AppendEvent, Unused
  <2>3. request[t] \in R
    BY DEF TypeOK
  <2>4. k \in Keys
    BY <2>1, <2>3
  <2>5. events' \in SUBSET Event
    <3>1. [id |-> CHOOSE i \in Unused : TRUE, key |-> k, done |-> FALSE] \in Event
      BY <2>2, <2>4 DEF Event
    <3>2. QED
      BY <2>1, <3>1 DEF TypeOK
  <2>6. request' \in [Threads -> R]
    BY <1>3 DEF TypeOK, AppendEvent, Free
  <2>7. QED
    BY <1>3, <2>5, <2>6 DEF TypeOK, AppendEvent, hrVars, archiveVars, bridgeVars
<1>4. CASE KillRequest(t)
  BY <1>4, FaultTyped DEF TypeOK, KillRequest, Free, hrVars, archiveVars, bridgeVars
<1>5. QED
  BY <1>1, <1>2, <1>3, <1>4 DEF Serve

\* Marking an event leaves an event with the same id.
LEMMA MarkedFields ==
    ASSUME TypeOK
    PROVE  /\ Marked \in SUBSET Event
           /\ \A e \in Marked : \E f \in copy :
                /\ e.id = f.id
                /\ e.done => f.done \/ \E c \in cur : c.id = e.id
<1>1. ASSUME NEW f \in copy
      PROVE  [f EXCEPT !.done = TRUE] \in Event /\ [f EXCEPT !.done = TRUE].id = f.id
  <2>1. f \in Event
    BY DEF TypeOK
  <2>2. QED
    BY <2>1 DEF Event
<1>2. \A e \in Marked : \E f \in copy :
        IF \E c \in cur : f.id = c.id THEN e = [f EXCEPT !.done = TRUE] ELSE e = f
  BY DEF Marked
<1>3. copy \subseteq Event
  BY DEF TypeOK
<1>4. ASSUME NEW e \in Marked
      PROVE  /\ e \in Event
             /\ \E f \in copy : e.id = f.id /\ (e.done => f.done \/ \E c \in cur : c.id = e.id)
  <2>1. PICK f \in copy :
          IF \E c \in cur : f.id = c.id THEN e = [f EXCEPT !.done = TRUE] ELSE e = f
    BY <1>2
  <2>2. CASE \E c \in cur : f.id = c.id
    BY <1>1, <2>1, <2>2
  <2>3. CASE ~\E c \in cur : f.id = c.id
    BY <1>3, <2>1, <2>3
  <2>4. QED
    BY <2>2, <2>3
<1>5. QED
  BY <1>4

LEMMA BridgeTyped ==
    ASSUME TypeOK, BridgeManager \/ KillBridge
    PROVE  TypeOK'
<1>1. CASE List \/ MarkRead
  BY <1>1 DEF TypeOK, List, MarkRead, hrVars, archiveVars
<1>2. CASE Materialize
  <2>1. PICK e \in batch : Write(e.id) /\ cur' = {e} /\ batch' = batch \ {e}
    BY <1>2 DEF Materialize
  <2>2. e \in Event /\ e.id \in Ids
    BY EventFields DEF TypeOK
  <2>3. cur' \in SUBSET Event /\ batch' \in SUBSET Event
    BY <2>1, <2>2 DEF TypeOK
  <2>4. QED
    BY <1>2, <2>1, <2>2, <2>3, WriteTyped DEF TypeOK, Materialize, hrVars, archiveVars
<1>3. CASE MarkWrite
  <2>1. events' \in SUBSET Event
    BY <1>3, MarkedFields DEF TypeOK, MarkWrite
  <2>2. lost' \in SUBSET Ids
    BY <1>3, EventFields DEF TypeOK, MarkWrite
  <2>3. QED
    BY <1>3, <2>1, <2>2 DEF TypeOK, MarkWrite, hrVars, archiveVars
<1>4. CASE KillBridge
  BY <1>4, FaultTyped DEF TypeOK, KillBridge, hrVars, archiveVars
<1>5. QED
  BY <1>1, <1>2, <1>3, <1>4 DEF BridgeManager

LEMMA NextTyped == TypeOK /\ [Next]_vars => TypeOK'
<1>1. ASSUME TypeOK, KillCommand \/ KillPass PROVE TypeOK'
  BY <1>1, FaultTyped, TornTyped DEF TypeOK, KillCommand, KillPass, hrVars, archiveVars, bridgeVars
<1>2. ASSUME TypeOK, UNCHANGED vars PROVE TypeOK'
  BY <1>2 DEF TypeOK, vars, hrVars, archiveVars, bridgeVars
<1>3. QED
  BY <1>1, <1>2, CommandTyped, ArchiveTyped, ServeTyped, BridgeTyped DEF Next

LEMMA AlwaysTyped == Spec => []TypeOK
BY InitTyped, NextTyped, PTL DEF Spec

\* Every state of the member, the archive and the bridge has its type.
THEOREM TypeCorrect == Spec => []TypeOK
BY AlwaysTyped

-----------------------------------------------------------------------------
(* Events and their marks *)

\* Whatever ledger an event is in - the file, the copy about to be written back
\* - its mark says that its page was written; so does being in hand.
MarksInv ==
    /\ MarkedMeansWritten
    /\ \A e \in copy : e.done => e.id \in written
    /\ \A e \in cur : e.id \in written

LEMMA WrittenGrows == TypeOK /\ [Next]_vars => written \subseteq written'
BY DEF Next, vars, IssueToken, RevokeToken, Command, Confirm, Revoke, Rehire, Bootstrap, Work,
       NewDay, Archive, Pass, Push, PushNothing, RemovePage, RemoveRoot,
       FileMember, PushFails, RemoveFails, Serve, Verify, Admit,
       AppendEvent, KillRequest, BridgeManager, List, Materialize, MarkRead, MarkWrite,
       KillCommand, KillPass, KillBridge, Write

LEMMA NextMarks == TypeOK /\ MarksInv /\ [Next]_vars => MarksInv'
<1>1. SUFFICES ASSUME TypeOK, MarksInv, [Next]_vars PROVE MarksInv'
  OBVIOUS
<1>2. written \subseteq written'
  BY <1>1, WrittenGrows
<1>3. ASSUME NEW t \in Threads, AppendEvent(t)
      PROVE  MarksInv'
  <2>1. \A e \in events' : e \in events \/ e.done = FALSE
    BY <1>3 DEF AppendEvent
  <2>2. QED
    BY <1>1, <1>2, <1>3, <2>1 DEF AppendEvent, MarksInv, MarkedMeansWritten, bridgeVars
<1>4. CASE Materialize
  BY <1>1, <1>2, <1>4 DEF Materialize, Write, MarksInv, MarkedMeansWritten
<1>5. CASE MarkWrite
  <2>1. \A e \in Marked : e.done => e.id \in written
    <3>1. SUFFICES ASSUME NEW e \in Marked, e.done PROVE e.id \in written
      OBVIOUS
    <3>2. PICK f \in copy : e.id = f.id /\ (f.done \/ \E c \in cur : c.id = e.id)
      BY <1>1, <3>1, MarkedFields
    <3>3. QED
      BY <1>1, <3>2 DEF MarksInv
  <2>2. \A e \in events' : e.done => e.id \in written
    BY <1>1, <1>5, <2>1 DEF MarkWrite, MarksInv, MarkedMeansWritten
  <2>3. QED
    BY <1>2, <1>5, <2>2 DEF MarkWrite, MarksInv, MarkedMeansWritten
<1>6. CASE MarkRead \/ KillBridge \/ List
  BY <1>1, <1>2, <1>6 DEF MarkRead, KillBridge, List, MarksInv, MarkedMeansWritten
<1>7. CASE UNCHANGED <<events, copy, cur>>
  BY <1>1, <1>2, <1>7 DEF MarksInv, MarkedMeansWritten
<1>8. CASE IssueToken \/ RevokeToken \/ Command \/ Work \/ NewDay \/ Archive \/ PushFails
          \/ RemoveFails
  BY <1>7, <1>8 DEF IssueToken, RevokeToken, Command, Confirm, Revoke, Rehire, Bootstrap, Work,
       NewDay, Archive, Pass, Push, PushNothing, RemovePage, RemoveRoot,
       FileMember, PushFails, RemoveFails, bridgeVars
<1>9. CASE KillCommand \/ KillPass \/ UNCHANGED vars
  BY <1>7, <1>9 DEF KillCommand, KillPass, vars, bridgeVars
<1>10. ASSUME NEW t \in Threads, Verify(t) \/ Admit(t) \/ KillRequest(t)
       PROVE  MarksInv'
  BY <1>7, <1>10 DEF Verify, Admit, KillRequest, bridgeVars
<1>11. QED
  BY <1>1, <1>3, <1>4, <1>5, <1>6, <1>8, <1>9, <1>10 DEF Next, Serve, BridgeManager

\* Whatever the rewrites of the ledger overwrite, and wherever the bridge
\* manager is killed, an event is marked only after its page was written.
THEOREM MarkedCorrect == Spec => []MarkedMeansWritten
<1>1. Init => MarksInv
  BY DEF Init, MarksInv, MarkedMeansWritten
<1>2. MarksInv => MarkedMeansWritten
  BY DEF MarksInv
<1>3. QED
  BY <1>1, <1>2, NextMarks, AlwaysTyped, PTL DEF Spec

-----------------------------------------------------------------------------
(* The archive of a first employment *)

\* Until a member comes back, the archive is at work for a departed member only,
\* and once it has removed the tree only blockers can be there.
ReturnInv == hires = 1 =>
    /\ hire = "idle"
    /\ archive # "idle" => status = "departed"
    /\ archive = "file" => tree \subseteq Ids \cup {Root}
    /\ filed => status = "departed" /\ archive = "idle" /\ tree \subseteq Ids \cup {Root}

\* As long as nobody wrote a page during the archive and nothing that a removal
\* left was pushed, all pages are on the volume or on the branch.  Before a first
\* removal they are all on the volume, and during it all on the branch.
KeptInv == hires = 1 /\ ~late /\ torn # "pushed" =>
    /\ Index \in written
    /\ written \subseteq tree \cup branch
    /\ torn = "no" /\ archive # "remove" /\ ~filed /\ (status = "active" \/ tree # {}) =>
          written \subseteq tree
    /\ archive = "push" => packed = tree /\ Root \in tree
    /\ tree # {} => Root \in tree
    /\ archive = "remove" =>
          /\ torn = "no"
          /\ branch = packed /\ written \subseteq branch
          /\ Root \in tree /\ tree \subseteq packed
    /\ archive = "file" => tree = {}

ArchiveInv == TypeOK /\ ReturnInv /\ KeptInv

\* A write by the bridge or by the member at work.
LEMMA WriteKept ==
    ASSUME ArchiveInv, NEW page \in Pages \cup Ids, Write(page),
           page \in Ids \/ status = "active",
           UNCHANGED <<hrVars, hire, archiveVars>>
    PROVE  ReturnInv' /\ KeptInv'
<1>1. ReturnInv'
  BY DEF ArchiveInv, ReturnInv, Write, hrVars, archiveVars
<1>2. SUFFICES ASSUME hires = 1, ~late', torn # "pushed" PROVE KeptInv'
  BY <1>1 DEF KeptInv, hrVars, archiveVars
<1>3. ~late /\ ~Archiving /\ tree' = tree \cup {Root, page} /\ written' = written \cup {page}
  BY <1>2 DEF Write
<1>4. archive = "idle"
  <2>1. archive \in {"idle", "push", "remove", "file"}
    BY DEF ArchiveInv, TypeOK
  <2>2. archive # "push" /\ archive # "remove"
    BY <1>3 DEF Archiving
  <2>3. archive # "file"
    BY <1>2, <1>3 DEF ArchiveInv, ReturnInv, KeptInv, Archiving
  <2>4. QED
    BY <2>1, <2>2, <2>3
<1>5. torn = "no" /\ ~filed => written \subseteq tree
  <2>1. status = "active" \/ status = "departed"
    BY DEF ArchiveInv, TypeOK
  <2>2. QED
    BY <1>2, <1>3, <1>4, <2>1 DEF ArchiveInv, KeptInv, Archiving
<1>6. QED
  BY <1>2, <1>3, <1>4, <1>5 DEF ArchiveInv, KeptInv, hrVars, archiveVars

LEMMA PassKept ==
    ASSUME ArchiveInv, Archive \/ PushFails \/ RemoveFails \/ KillPass
    PROVE  ReturnInv' /\ KeptInv'
<1>1. CASE Pass
  <2>1. archive = "idle" /\ UNCHANGED <<status, hires, hire, branch, torn, tree, written, late>>
    BY <1>1 DEF Pass
  <2>2. CASE Due /\ tree # {}
    <3>1. archive' = "push" /\ packed' = tree /\ filed' = filed /\ ~filed /\ status = "departed"
      BY <1>1, <2>2 DEF Pass, Due
    <3>2. QED
      BY <2>1, <2>2, <3>1 DEF ArchiveInv, ReturnInv, KeptInv
  <2>3. CASE Due /\ tree = {}
    <3>1. archive' = "idle" /\ packed' = packed /\ filed' = TRUE /\ status = "departed"
      BY <1>1, <2>1, <2>3 DEF Pass, Due
    <3>2. QED
      BY <2>1, <2>3, <3>1 DEF ArchiveInv, ReturnInv, KeptInv
  <2>4. CASE ~Due
    <3>1. filed \in BOOLEAN
      BY DEF ArchiveInv, TypeOK
    <3>2. archive' = "idle" /\ packed' = packed /\ filed' = filed
      BY <1>1, <2>1, <2>4, <3>1 DEF Pass
    <3>3. QED
      BY <2>1, <3>2 DEF ArchiveInv, ReturnInv, KeptInv
  <2>5. QED
    BY <2>2, <2>3, <2>4
<1>2. CASE Push \/ PushNothing
  <2>1. torn \in {"no", "left", "pushed"}
    BY DEF ArchiveInv, TypeOK
  <2>2. CASE Push
    BY <2>1, <2>2 DEF Push, ArchiveInv, ReturnInv, KeptInv, hrVars
  <2>3. CASE PushNothing
    BY <2>3 DEF PushNothing, ArchiveInv, ReturnInv, KeptInv, hrVars
  <2>4. QED
    BY <1>2, <2>2, <2>3
<1>3. CASE RemovePage \/ RemoveRoot
  <2>1. CASE RemovePage
    <3>1. PICK page \in tree \ {Root} : tree' = tree \ {page}
      BY <2>1 DEF RemovePage
    <3>2. archive = "remove" /\ UNCHANGED <<hrVars, hire, archiveVars, written, late>>
      BY <2>1 DEF RemovePage
    <3>3. QED
      BY <3>1, <3>2 DEF ArchiveInv, ReturnInv, KeptInv, hrVars, archiveVars
  <2>2. CASE RemoveRoot
    BY <2>2 DEF RemoveRoot, ArchiveInv, ReturnInv, KeptInv, hrVars
  <2>3. QED
    BY <1>3, <2>1, <2>2
<1>4. CASE FileMember
  BY <1>4 DEF FileMember, ArchiveInv, ReturnInv, KeptInv
<1>5. CASE PushFails \/ RemoveFails \/ KillPass
  <2>1. /\ archive' = "idle"
        /\ UNCHANGED <<status, filed, hires, hire, branch, tree, written, late>>
        /\ torn' = IF archive = "remove" THEN Torn ELSE torn
    BY <1>5 DEF PushFails, RemoveFails, KillPass, hrVars
  <2>2. ReturnInv'
    BY <2>1 DEF ArchiveInv, ReturnInv
  <2>3. CASE archive # "remove"
    BY <2>1, <2>2, <2>3 DEF ArchiveInv, KeptInv
  <2>4. CASE archive = "remove"
    BY <2>1, <2>2, <2>4 DEF ArchiveInv, KeptInv, Torn
  <2>5. QED
    BY <2>3, <2>4
<1>6. QED
  BY <1>1, <1>2, <1>3, <1>4, <1>5 DEF Archive

LEMMA CommandKept ==
    ASSUME ArchiveInv, Command \/ KillCommand
    PROVE  ReturnInv' /\ KeptInv'
<1>1. CASE Confirm
  BY <1>1 DEF Confirm, ArchiveInv, ReturnInv, KeptInv, archiveVars
<1>2. CASE Rehire
  <2>1. hires' # 1
    BY <1>2 DEF Rehire, ArchiveInv, TypeOK
  <2>2. QED
    BY <2>1 DEF ReturnInv, KeptInv
<1>3. CASE Bootstrap
  <2>1. hires # 1 /\ hires' = hires
    BY <1>3 DEF Bootstrap, ArchiveInv, ReturnInv, hrVars
  <2>2. QED
    BY <2>1 DEF ReturnInv, KeptInv
<1>4. CASE Revoke \/ KillCommand
  BY <1>4 DEF Revoke, KillCommand, ArchiveInv, ReturnInv, KeptInv, hrVars, archiveVars
<1>5. QED
  BY <1>1, <1>2, <1>3, <1>4 DEF Command

LEMMA NextArchiveInv == ArchiveInv /\ [Next]_vars => ArchiveInv'
<1>1. SUFFICES ASSUME ArchiveInv, [Next]_vars PROVE ReturnInv' /\ KeptInv'
  BY NextTyped DEF ArchiveInv
<1>2. CASE Work
  <2>1. PICK page \in Pages : Write(page)
    BY <1>2 DEF Work
  <2>2. status = "active" /\ UNCHANGED <<hrVars, hire, archiveVars>>
    BY <1>2 DEF Work
  <2>3. QED
    BY <1>1, <2>1, <2>2, WriteKept
<1>3. CASE Materialize
  <2>1. PICK e \in batch : Write(e.id)
    BY <1>3 DEF Materialize
  <2>2. e.id \in Ids
    BY <1>1, EventFields DEF ArchiveInv, TypeOK
  <2>3. UNCHANGED <<hrVars, hire, archiveVars>>
    BY <1>3 DEF Materialize
  <2>4. QED
    BY <1>1, <2>1, <2>2, <2>3, WriteKept
<1>4. CASE UNCHANGED <<status, filed, hires, hire, archive, packed, branch, torn, tree, written, late>>
  BY <1>1, <1>4 DEF ArchiveInv, ReturnInv, KeptInv
<1>5. CASE IssueToken \/ RevokeToken \/ NewDay \/ UNCHANGED vars
  BY <1>4, <1>5 DEF IssueToken, RevokeToken, NewDay, vars, hrVars, archiveVars
<1>6. ASSUME NEW t \in Threads, Serve(t) \/ KillRequest(t)
      PROVE  ReturnInv' /\ KeptInv'
  BY <1>4, <1>6 DEF Serve, Verify, Admit, AppendEvent, KillRequest, hrVars, archiveVars
<1>7. CASE List \/ MarkRead \/ MarkWrite \/ KillBridge
  BY <1>4, <1>7 DEF List, MarkRead, MarkWrite, KillBridge, hrVars, archiveVars
<1>8. QED
  BY <1>1, <1>2, <1>3, <1>5, <1>6, <1>7, PassKept, CommandKept DEF Next, BridgeManager

LEMMA AlwaysArchiveInv == Spec => []ArchiveInv
<1>1. Init => ArchiveInv
  BY InitTyped DEF Init, ArchiveInv, ReturnInv, KeptInv
<1>2. QED
  BY <1>1, NextArchiveInv, PTL DEF Spec

\* However the archive pass, the admin, the member and the bridge interleave,
\* fail and are killed, no page of a first employment is lost unless somebody
\* wrote one during the archive, or the tree that a stopped removal left was
\* pushed over the whole one.
THEOREM NothingLostCorrect == Spec => []NothingLost
<1>1. ArchiveInv => NothingLost
  BY DEF ArchiveInv, KeptInv, NothingLost
<1>2. QED
  BY <1>1, AlwaysArchiveInv, PTL

\* and only blockers come back to a tree that was archived.
THEOREM ReturnCorrect == Spec => []OnlyBlockersReturn
<1>1. ArchiveInv => OnlyBlockersReturn
  BY DEF ArchiveInv, ReturnInv, OnlyBlockersReturn
<1>2. QED
  BY <1>1, AlwaysArchiveInv, PTL

-----------------------------------------------------------------------------
(* The token *)

LEMMA NextCutOff == TypeOK /\ CutOff /\ [Next]_vars => CutOff'
<1>1. SUFFICES ASSUME TypeOK, CutOff, [Next]_vars PROVE CutOff'
  OBVIOUS
<1>2. CASE UNCHANGED <<status, confirm, reissued, faults, token>>
  BY <1>1, <1>2 DEF CutOff
<1>3. CASE IssueToken \/ RevokeToken \/ Command
  BY <1>1, <1>3 DEF CutOff, IssueToken, RevokeToken, Command, Confirm, Revoke, Rehire, Bootstrap,
                    TypeOK, hrVars
<1>4. CASE faults' # 0
  BY <1>4 DEF CutOff
<1>5. ASSUME Fault PROVE faults' # 0
  BY <1>1, <1>5 DEF Fault, TypeOK
<1>6. CASE Work \/ NewDay \/ Archive \/ BridgeManager \/ UNCHANGED vars
  BY <1>2, <1>6 DEF Work, NewDay, Archive, Pass, Push, PushNothing, RemovePage,
                    RemoveRoot, FileMember, BridgeManager, List,
                    Materialize, MarkRead, MarkWrite, vars, hrVars
<1>7. CASE PushFails \/ RemoveFails \/ KillCommand \/ KillPass \/ KillBridge
  <2>1. CASE RemoveFails
    BY <1>2, <1>4, <1>5, <2>1 DEF RemoveFails, hrVars
  <2>2. QED
    BY <1>4, <1>5, <1>7, <2>1 DEF PushFails, KillCommand, KillPass, KillBridge
<1>8. ASSUME NEW t \in Threads, Serve(t) \/ KillRequest(t)
      PROVE  CutOff'
  BY <1>2, <1>4, <1>5, <1>8 DEF Serve, Verify, Admit, AppendEvent, KillRequest, hrVars
<1>9. QED
  BY <1>1, <1>3, <1>6, <1>7, <1>8 DEF Next

\* Wherever the admin's commands stand, confirm-offboard leaves no active token.
THEOREM CutOffCorrect == Spec => []CutOff
<1>1. Init => CutOff
  BY DEF Init, CutOff
<1>2. QED
  BY <1>1, NextCutOff, AlwaysTyped, PTL DEF Spec

-----------------------------------------------------------------------------
(* Reports and their idempotency keys *)

EventsOf(k) == {e \in events : e.key = k}
CopyOf(k)   == {e \in copy : e.key = k}
Holding(k)  == {t \in Threads : request[t].at = "append" /\ k \in request[t].key}

\* A thread holds one key; the copy of a mark is part of the ledger; and once a
\* key has an event, only threads that were admitted before can add another.
HoldInv ==
    /\ \A t \in Threads : \A k, l \in request[t].key : k = l
    /\ IsFiniteSet(events) /\ IsFiniteSet(copy)
    /\ bridge = "rewrite" => copy \subseteq events
CountInv ==
    \A k \in Keys : EventsOf(k) # {} =>
        Cardinality(EventsOf(k)) + Cardinality(Holding(k)) <= Cardinality(Threads)
ReportInv == HoldInv /\ CountInv

LEMMA HoldingFinite ==
    ASSUME IsFiniteSet(Threads), NEW k
    PROVE  /\ IsFiniteSet(Holding(k)) /\ Cardinality(Holding(k)) \in Nat
           /\ Cardinality(Threads) \in Nat /\ Cardinality(Holding(k)) <= Cardinality(Threads)
           /\ \A t \in Holding(k) : Cardinality(Holding(k) \ {t}) = Cardinality(Holding(k)) - 1
<1>1. Holding(k) \in SUBSET Threads
  BY DEF Holding
<1>2. IsFiniteSet(Holding(k)) /\ Cardinality(Holding(k)) <= Cardinality(Threads)
  BY <1>1, FS_Subset
<1>3. Cardinality(Holding(k)) \in Nat /\ Cardinality(Threads) \in Nat
  BY <1>2, FS_CardinalityType
<1>4. QED
  BY <1>2, <1>3, FS_RemoveElement

LEMMA EventsFinite ==
    ASSUME IsFiniteSet(events), IsFiniteSet(copy), NEW k
    PROVE  /\ IsFiniteSet(EventsOf(k)) /\ Cardinality(EventsOf(k)) \in Nat
           /\ IsFiniteSet(CopyOf(k)) /\ Cardinality(CopyOf(k)) \in Nat
           /\ copy \subseteq events => Cardinality(CopyOf(k)) <= Cardinality(EventsOf(k))
           /\ \A e : Cardinality(EventsOf(k) \cup {e}) \in {Cardinality(EventsOf(k)), Cardinality(EventsOf(k)) + 1}
<1>1. EventsOf(k) \in SUBSET events /\ CopyOf(k) \in SUBSET copy
  BY DEF EventsOf, CopyOf
<1>2. IsFiniteSet(EventsOf(k)) /\ IsFiniteSet(CopyOf(k))
  BY <1>1, FS_Subset
<1>3. copy \subseteq events => CopyOf(k) \in SUBSET EventsOf(k)
  BY DEF EventsOf, CopyOf
<1>4. Cardinality(EventsOf(k)) \in Nat /\ Cardinality(CopyOf(k)) \in Nat
  BY <1>2, FS_CardinalityType
<1>5. copy \subseteq events => Cardinality(CopyOf(k)) <= Cardinality(EventsOf(k))
  BY <1>2, <1>3, FS_Subset
<1>6. QED
  BY <1>2, <1>4, <1>5, FS_AddElement

\* Marking gives every event of a key one event of the same key.
LEMMA MarkedCounts ==
    ASSUME TypeOK, IsFiniteSet(copy), NEW k
    PROVE  /\ IsFiniteSet(Marked)
           /\ \A e \in Marked : e.key = k => CopyOf(k) # {}
           /\ Cardinality({e \in Marked : e.key = k}) \in Nat
           /\ Cardinality({e \in Marked : e.key = k}) <= Cardinality(CopyOf(k))
<1> DEFINE mark(e) == IF \E c \in cur : e.id = c.id THEN [e EXCEPT !.done = TRUE] ELSE e
           all == [e \in copy |-> mark(e)]
           part == [e \in CopyOf(k) |-> mark(e)]
           marked == {e \in Marked : e.key = k}
<1>1. Marked = {mark(e) : e \in copy}
  BY DEF Marked
<1>2. \A e \in copy : mark(e).key = e.key
  <2>1. \A e \in copy : e \in Event
    BY DEF TypeOK
  <2>2. \A e \in Event : [e EXCEPT !.done = TRUE].key = e.key
    BY DEF Event
  <2>3. QED
    BY <2>1, <2>2
<1>3. all \in Surjection(copy, Marked)
  BY <1>1 DEF Surjection
<1>4. part \in Surjection(CopyOf(k), marked)
  <2>0. \A e : e \in CopyOf(k) <=> e \in copy /\ e.key = k
    BY DEF CopyOf
  <2>1. ASSUME NEW e \in CopyOf(k) PROVE mark(e) \in marked
    <3>1. e \in copy /\ e.key = k
      BY <2>0
    <3>2. mark(e).key = k
      BY <1>2, <3>1
    <3>3. mark(e) \in Marked
      BY <1>1, <3>1
    <3>4. QED
      BY <3>2, <3>3
  <2>2. ASSUME NEW m \in marked PROVE \E e \in CopyOf(k) : mark(e) = m
    <3>1. PICK e \in copy : m = mark(e)
      BY <1>1
    <3>2. e.key = k
      <4>1. m.key = k
        OBVIOUS
      <4>2. QED
        BY <1>2, <3>1, <4>1
    <3>3. QED
      BY <2>0, <3>1, <3>2
  <2> HIDE DEF mark, marked
  <2>3. part \in [CopyOf(k) -> marked]
    BY <2>1
  <2>4. \A m \in marked : \E e \in CopyOf(k) : part[e] = m
    BY <2>2
  <2> HIDE DEF part
  <2>5. QED
    BY <2>3, <2>4 DEF Surjection
<1>5. ASSUME NEW m \in Marked, m.key = k PROVE CopyOf(k) # {}
  <2>1. PICK e \in copy : m = mark(e)
    BY <1>1
  <2>2. e.key = k
    BY <1>2, <1>5, <2>1
  <2>3. QED
    BY <2>1, <2>2 DEF CopyOf
<1>6. IsFiniteSet(CopyOf(k))
  <2>1. CopyOf(k) \in SUBSET copy
    BY DEF CopyOf
  <2>2. QED
    BY <2>1, FS_Subset
<1> HIDE DEF mark, all, part, marked
<1>7. IsFiniteSet(Marked)
  BY <1>3, FS_Surjection
<1>8. IsFiniteSet(marked) /\ Cardinality(marked) <= Cardinality(CopyOf(k))
  BY <1>4, <1>6, FS_Surjection
<1>9. Cardinality(marked) \in Nat
  BY <1>8, FS_CardinalityType
<1>10. QED
  BY <1>5, <1>7, <1>8, <1>9 DEF marked

LEMMA AppendReport ==
    ASSUME IsFiniteSet(Threads), TypeOK, ReportInv, NEW t \in Threads, AppendEvent(t)
    PROVE  ReportInv'
<1>1. PICK k \in request[t].key :
         events' = events \cup {[id |-> CHOOSE i \in Unused : TRUE, key |-> k, done |-> FALSE]}
  BY DEF AppendEvent
<1> DEFINE new == [id |-> CHOOSE i \in Unused : TRUE, key |-> k, done |-> FALSE]
<1>2. /\ request[t].at = "append" /\ request' = [request EXCEPT ![t] = Free]
      /\ UNCHANGED <<bridge, copy>>
  BY DEF AppendEvent, bridgeVars
<1>3. /\ request \in [Threads -> [at : {"free", "verified", "append"}, key : SUBSET Keys]]
      /\ k \in Keys
  BY <1>1 DEF TypeOK
<1>4. new.key = k /\ events' = events \cup {new}
  BY <1>1
<1> HIDE DEF new
<1>5. HoldInv'
  <2>1. IsFiniteSet(events')
    BY <1>4, FS_AddElement DEF ReportInv, HoldInv
  <2>2. \A s \in Threads : \A l, m \in request'[s].key : l = m
    BY <1>2, <1>3 DEF ReportInv, HoldInv, Free
  <2>3. QED
    BY <1>2, <1>4, <2>1, <2>2 DEF ReportInv, HoldInv
<1>6. ASSUME NEW l \in Keys, EventsOf(l)' # {}
      PROVE  Cardinality(EventsOf(l)') + Cardinality(Holding(l)') <= Cardinality(Threads)
  <2>1. CASE l = k
    <3>1. EventsOf(k)' = EventsOf(k) \cup {new}
      BY <1>4 DEF EventsOf
    <3>2. Holding(k)' = Holding(k) \ {t} /\ t \in Holding(k)
      BY <1>1, <1>2, <1>3 DEF Holding, Free
    <3>3. Cardinality(Holding(k)') = Cardinality(Holding(k)) - 1
      BY <3>2, HoldingFinite
    <3>4. Cardinality(EventsOf(k)') \in {Cardinality(EventsOf(k)), Cardinality(EventsOf(k)) + 1}
      BY <3>1, EventsFinite DEF ReportInv, HoldInv
    <3>5. /\ Cardinality(EventsOf(k)) \in Nat /\ Cardinality(Holding(k)) \in Nat
          /\ Cardinality(Threads) \in Nat /\ Cardinality(Holding(k)) <= Cardinality(Threads)
      BY HoldingFinite, EventsFinite DEF ReportInv, HoldInv
    <3>6. CASE EventsOf(k) = {}
      <4>1. Cardinality(EventsOf(k)) = 0
        BY <3>6, FS_EmptySet
      <4>2. QED
        BY <2>1, <3>3, <3>4, <3>5, <4>1
    <3>7. CASE EventsOf(k) # {}
      <4>1. Cardinality(EventsOf(k)) + Cardinality(Holding(k)) <= Cardinality(Threads)
        BY <1>3, <3>7 DEF ReportInv, CountInv
      <4>2. QED
        BY <2>1, <3>3, <3>4, <3>5, <4>1
    <3>8. QED
      BY <3>6, <3>7
  <2>2. CASE l # k
    <3>1. EventsOf(l)' = EventsOf(l)
      BY <1>4, <2>2 DEF EventsOf
    <3>2. l \notin request[t].key
      BY <1>1, <2>2 DEF ReportInv, HoldInv
    <3>3. Holding(l)' = Holding(l)
      BY <1>2, <1>3, <3>2 DEF Holding, Free
    <3>4. QED
      BY <1>6, <3>1, <3>3 DEF ReportInv, CountInv
  <2>3. QED
    BY <2>1, <2>2
<1>7. QED
  BY <1>5, <1>6 DEF ReportInv, CountInv

LEMMA RequestReport ==
    ASSUME IsFiniteSet(Threads), TypeOK, ReportInv, NEW t \in Threads,
           Verify(t) \/ Admit(t) \/ KillRequest(t)
    PROVE  ReportInv'
<1> DEFINE R == [at : {"free", "verified", "append"}, key : SUBSET Keys]
<1>0. request \in [Threads -> R] /\ UNCHANGED <<events, copy, bridge>>
  BY DEF TypeOK, Verify, Admit, KillRequest, bridgeVars
<1>1. \E r \in R : /\ request' = [request EXCEPT ![t] = r]
                   /\ \A k, l \in r.key : k = l
                   /\ r.at = "append" => \A k \in r.key : ~Known(k)
  <2>1. CASE Verify(t)
    <3>1. request' = [request EXCEPT ![t] = [Free EXCEPT !.at = "verified"]]
      BY <2>1 DEF Verify
    <3>2. [Free EXCEPT !.at = "verified"] = [at |-> "verified", key |-> {}]
      BY DEF Free
    <3>3. QED
      BY <3>1, <3>2
  <2>2. CASE Admit(t)
    <3>1. PICK k \in Keys : request' = [request EXCEPT ![t] =
              IF Admitted(k) THEN [at |-> "append", key |-> {k}] ELSE Free]
      BY <2>2 DEF Admit
    <3>2. CASE Admitted(k)
      <4>1. ~Known(k)
        BY <3>2 DEF Admitted
      <4>2. [at |-> "append", key |-> {k}] \in R
        OBVIOUS
      <4>3. request' = [request EXCEPT ![t] = [at |-> "append", key |-> {k}]]
        BY <3>1, <3>2
      <4>4. QED
        BY <4>1, <4>2, <4>3
    <3>3. CASE ~Admitted(k)
      <4>1. [at |-> "free", key |-> {}] \in R
        OBVIOUS
      <4>2. request' = [request EXCEPT ![t] = [at |-> "free", key |-> {}]]
        BY <3>1, <3>3 DEF Free
      <4>3. QED
        BY <4>1, <4>2
    <3>4. QED
      BY <3>2, <3>3
  <2>3. CASE KillRequest(t)
    <3>1. [at |-> "free", key |-> {}] \in R
      OBVIOUS
    <3>2. request' = [request EXCEPT ![t] = [at |-> "free", key |-> {}]]
      BY <2>3 DEF KillRequest, Free
    <3>3. QED
      BY <3>1, <3>2
  <2>4. QED
    BY <2>1, <2>2, <2>3
<1>2. PICK r \in R : /\ request' = [request EXCEPT ![t] = r]
                     /\ \A k, l \in r.key : k = l
                     /\ r.at = "append" => \A k \in r.key : ~Known(k)
  BY <1>1
<1>3. HoldInv'
  BY <1>0, <1>2 DEF ReportInv, HoldInv
<1>4. ASSUME NEW k \in Keys, EventsOf(k)' # {}
      PROVE  Cardinality(EventsOf(k)') + Cardinality(Holding(k)') <= Cardinality(Threads)
  <2>1. EventsOf(k)' = EventsOf(k)
    BY <1>0 DEF EventsOf
  <2>2. Known(k)
    BY <1>4, <2>1 DEF EventsOf, Known
  <2>3. Holding(k)' \in SUBSET Holding(k)
    BY <1>0, <1>2, <2>2 DEF Holding
  <2>4. /\ Cardinality(Holding(k)') <= Cardinality(Holding(k))
        /\ Cardinality(Holding(k)') \in Nat
    BY <2>3, HoldingFinite, FS_Subset, FS_CardinalityType
  <2>5. Cardinality(EventsOf(k)) + Cardinality(Holding(k)) <= Cardinality(Threads)
    BY <1>4, <2>1 DEF ReportInv, CountInv
  <2>6. /\ Cardinality(EventsOf(k)) \in Nat /\ Cardinality(Holding(k)) \in Nat
        /\ Cardinality(Threads) \in Nat
    BY HoldingFinite, EventsFinite DEF ReportInv, HoldInv
  <2>7. QED
    BY <2>1, <2>4, <2>5, <2>6
<1>5. QED
  BY <1>3, <1>4 DEF ReportInv, CountInv

LEMMA MarkReport ==
    ASSUME IsFiniteSet(Threads), TypeOK, ReportInv, MarkWrite
    PROVE  ReportInv'
<1>1. /\ bridge = "rewrite" /\ bridge' # "rewrite" /\ UNCHANGED request /\ copy' = {}
      /\ events' \in {events, Marked}
  BY DEF MarkWrite
<1>2. copy \subseteq events /\ IsFiniteSet(events) /\ IsFiniteSet(copy)
  BY <1>1 DEF ReportInv, HoldInv
<1>3. IsFiniteSet(events') /\ IsFiniteSet(copy')
  BY <1>1, <1>2, MarkedCounts, FS_EmptySet
<1>4. HoldInv'
  BY <1>1, <1>3 DEF ReportInv, HoldInv
<1>5. ASSUME NEW k \in Keys, EventsOf(k)' # {}
      PROVE  Cardinality(EventsOf(k)') + Cardinality(Holding(k)') <= Cardinality(Threads)
  <2>1. Holding(k)' = Holding(k)
    BY <1>1 DEF Holding
  <2>2. /\ Cardinality(EventsOf(k)) \in Nat /\ Cardinality(Holding(k)) \in Nat
        /\ Cardinality(Threads) \in Nat
    BY <1>2, HoldingFinite, EventsFinite
  <2>3. EventsOf(k) # {} => Cardinality(EventsOf(k)) + Cardinality(Holding(k)) <= Cardinality(Threads)
    BY DEF ReportInv, CountInv
  <2>4. CASE events' = events
    BY <1>5, <2>1, <2>3, <2>4 DEF EventsOf
  <2>5. CASE events' = Marked
    <3>1. EventsOf(k)' = {e \in Marked : e.key = k}
      BY <2>5 DEF EventsOf
    <3>2. CopyOf(k) # {}
      BY <1>2, <1>5, <3>1, MarkedCounts
    <3>3. EventsOf(k) # {}
      BY <1>2, <3>2 DEF CopyOf, EventsOf
    <3>4. /\ Cardinality(EventsOf(k)') \in Nat
          /\ Cardinality(EventsOf(k)') <= Cardinality(CopyOf(k))
      BY <1>2, <3>1, MarkedCounts
    <3>5. /\ Cardinality(CopyOf(k)) <= Cardinality(EventsOf(k))
          /\ Cardinality(CopyOf(k)) \in Nat
      BY <1>2, EventsFinite
    <3>6. QED
      BY <2>1, <2>2, <2>3, <3>3, <3>4, <3>5
  <2>6. QED
    BY <1>1, <2>4, <2>5
<1>6. QED
  BY <1>4, <1>5 DEF ReportInv, CountInv

LEMMA NextReport ==
    ASSUME IsFiniteSet(Threads), TypeOK, ReportInv, [Next]_vars
    PROVE  ReportInv'
<1>1. ASSUME UNCHANGED <<events, request>>,
             UNCHANGED <<copy, bridge>> \/ (copy' = {} /\ bridge' # "rewrite") \/ copy' = events
                \/ (UNCHANGED copy /\ bridge' # "rewrite")
      PROVE  ReportInv'
  <2>1. HoldInv'
    BY <1>1, FS_EmptySet DEF ReportInv, HoldInv
  <2>2. \A k : EventsOf(k)' = EventsOf(k) /\ Holding(k)' = Holding(k)
    BY <1>1 DEF EventsOf, Holding
  <2>3. QED
    BY <2>1, <2>2 DEF ReportInv, CountInv
<1>2. CASE List \/ Materialize \/ MarkRead \/ KillBridge
  BY <1>1, <1>2 DEF List, Materialize, MarkRead, KillBridge
<1>3. CASE Work \/ NewDay \/ Archive \/ UNCHANGED vars
  BY <1>1, <1>3 DEF Work, NewDay, Archive, Pass, Push, PushNothing, RemovePage,
                    RemoveRoot, FileMember, vars, bridgeVars
<1>4. CASE IssueToken \/ RevokeToken \/ Command
  BY <1>1, <1>4 DEF IssueToken, RevokeToken, Command, Confirm, Revoke, Rehire, Bootstrap, bridgeVars
<1>5. CASE PushFails \/ RemoveFails \/ KillCommand \/ KillPass
  BY <1>1, <1>5 DEF PushFails, RemoveFails, KillCommand, KillPass, bridgeVars
<1>6. QED
  BY <1>2, <1>3, <1>4, <1>5, AppendReport, RequestReport, MarkReport
  DEF Next, Serve, BridgeManager

\* A retried report is one event: a key has as many events as threads took it
\* before the first of them was written, whatever the rewriting of marks drops.
THEOREM ReportedCorrect ==
  ASSUME IsFiniteSet(Threads)
  PROVE  Spec => []ReportedOnce
<1>1. ASSUME Init PROVE ReportInv
  BY <1>1, FS_EmptySet DEF Init, ReportInv, HoldInv, CountInv, EventsOf, Free
<1>2. TypeOK /\ ReportInv /\ [Next]_vars => ReportInv'
  BY NextReport
<1>3. ASSUME ReportInv PROVE ReportedOnce
  <2>1. SUFFICES ASSUME NEW k \in Keys PROVE Cardinality(EventsOf(k)) <= Cardinality(Threads)
    BY DEF ReportedOnce, EventsOf
  <2>2. /\ Cardinality(EventsOf(k)) \in Nat /\ Cardinality(Holding(k)) \in Nat
        /\ Cardinality(Threads) \in Nat
    BY <1>3, HoldingFinite, EventsFinite DEF ReportInv, HoldInv
  <2>3. CASE EventsOf(k) = {}
    <3>1. Cardinality(EventsOf(k)) = 0
      BY <2>3, FS_EmptySet
    <3>2. QED
      BY <2>2, <3>1
  <2>4. CASE EventsOf(k) # {}
    BY <1>3, <2>2, <2>4 DEF ReportInv, CountInv
  <2>5. QED
    BY <2>3, <2>4
<1>4. QED
  BY <1>1, <1>2, <1>3, AlwaysTyped, PTL DEF Spec

=============================================================================
