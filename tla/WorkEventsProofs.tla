-------------------------- MODULE WorkEventsProofs --------------------------
(***************************************************************************)
(* Proofs about WorkEvents, for any sources, members, numbers of events    *)
(* and numbers of failures, and for every interleaving of appends with the *)
(* manager's rewrites.                                                     *)
(***************************************************************************)
EXTENDS WorkEvents, TLAPS

USE BoundsAssumption

-----------------------------------------------------------------------------
(* Types *)

\* A ledger file is a function from some ids to events.
LEMMA LedgerFields ==
    ASSUME NEW f \in Ledger
    PROVE  DOMAIN f \subseteq Ids /\ f \in [DOMAIN f -> Event]
BY DEF Ledger

LEMMA IsLedger ==
    ASSUME NEW S \in SUBSET Ids, NEW f \in [S -> Event]
    PROVE  f \in Ledger
BY DEF Ledger

LEMMA NoneIsLedger == None \in Ledger /\ DOMAIN None = {}
<1>1. DOMAIN None = {} /\ None \in [{} -> Event]
  BY DEF None
<1>2. QED
  BY <1>1, IsLedger

LEMMA RestrictIsLedger ==
    ASSUME NEW f \in Ledger, NEW S \in SUBSET DOMAIN f
    PROVE  Restrict(f, S) \in Ledger
<1>1. Restrict(f, S) \in [S -> Event]
  BY LedgerFields DEF Restrict
<1>2. QED
  BY <1>1, LedgerFields, IsLedger

\* The fields of an event, and marking one.
LEMMA EventFields ==
    ASSUME NEW e \in Event
    PROVE  e.targets \subseteq Members /\ e.done \subseteq Members
BY DEF Event

LEMMA MarkedIsLedger ==
    ASSUME NEW f \in Ledger, NEW i, NEW S \in SUBSET Members
    PROVE  /\ Marked(f, i, S) \in Ledger
           /\ DOMAIN Marked(f, i, S) = DOMAIN f
           /\ \A j \in DOMAIN f : Marked(f, i, S)[j].done =
                                    IF j = i THEN f[j].done \cup S ELSE f[j].done
<1> DEFINE g == Marked(f, i, S)
<1>1. g = [j \in DOMAIN f |-> IF j = i THEN [f[j] EXCEPT !.done = @ \cup S] ELSE f[j]]
  BY LedgerFields DEF Marked
<1>2. ASSUME NEW e \in Event
      PROVE  /\ [e EXCEPT !.done = @ \cup S] \in Event
             /\ [e EXCEPT !.done = @ \cup S].done = e.done \cup S
  BY DEF Event
<1>3. \A j \in DOMAIN f : f[j] \in Event
  BY LedgerFields
<1>4. g \in [DOMAIN f -> Event]
  BY <1>1, <1>2, <1>3
<1>5. \A j \in DOMAIN f : g[j].done = IF j = i THEN f[j].done \cup S ELSE f[j].done
  BY <1>1, <1>2, <1>3
<1>6. QED
  BY <1>1, <1>4, <1>5, LedgerFields, IsLedger

LEMMA FaultTyped ==
    ASSUME TypeOK, Fault \/ NoFault
    PROVE  faults' \in 0..MaxFaults /\ faults <= faults'
BY DEF TypeOK, Fault, NoFault

\* One more entry in a work log.
LEMMA OneMore ==
    ASSUME NEW K, NEW f \in [K -> Nat], NEW k
    PROVE  /\ [f EXCEPT ![k] = @ + 1] \in [K -> Nat]
           /\ \A x \in K : [f EXCEPT ![k] = @ + 1][x] = IF x = k THEN f[x] + 1 ELSE f[x]
<1>1. [f EXCEPT ![k] = @ + 1] = [x \in K |-> IF x = k THEN f[x] + 1 ELSE f[x]]
  BY Zenon
<1>2. \A x \in K : f[x] \in Nat /\ f[x] + 1 \in Nat
  OBVIOUS
<1>3. QED
  BY <1>1, <1>2

LEMMA DropTyped ==
    ASSUME DropEvent
    PROVE  /\ pc' = "pick" /\ pc' \in Labels
           /\ cur' \in 0..MaxEvents /\ left' = {} /\ left' \in SUBSET Members
           /\ who' = {} /\ copy' \in Ledger
BY NoneIsLedger DEF DropEvent, Labels

-----------------------------------------------------------------------------
LEMMA TypeInit == Init => TypeOK
BY NoneIsLedger DEF Init, TypeOK, Labels

\* The type invariant is kept by every step.
LEMMA TypeStep == TypeOK /\ [Next]_vars => TypeOK'
<1> SUFFICES ASSUME TypeOK, [Next]_vars PROVE TypeOK'
  OBVIOUS
<1> USE DEF ledgerVars, managerVars, Labels
<1>1. ASSUME NEW s \in Sources, Find(s) PROVE TypeOK'
  <2>1. PICK item \in Items, status \in Kinds[s], targets \in SUBSET Members :
          found' = [found EXCEPT ![s] =
             {[art |-> <<s, item>>, status |-> status, targets |-> targets, done |-> {}]}]
    BY <1>1 DEF Find
  <2>2. [art |-> <<s, item>>, status |-> status, targets |-> targets, done |-> {}] \in Event
    BY DEF Event, Artifacts
  <2>3. found' \in [Sources -> {{}} \cup {{e} : e \in Event}]
    BY <2>1, <2>2 DEF TypeOK
  <2>4. QED
    BY <1>1, <2>3, FaultTyped DEF Find, TypeOK
<1>2. ASSUME NEW s \in Sources, Append(s) PROVE TypeOK'
  <2>1. PICK e \in found[s] :
          ledger' = [i \in DOMAIN ledger \cup {used'} |-> IF i = used' THEN e ELSE ledger[i]]
    BY <1>2 DEF Append
  <2>2. e \in Event
    BY DEF TypeOK
  <2>3. used' \in Ids /\ used' \in 0..MaxEvents
    BY <1>2 DEF Append, TypeOK, Ids
  <2>4. ledger' \in Ledger
    <3>1. ledger' \in [DOMAIN ledger \cup {used'} -> Event]
      BY <2>1, <2>2, LedgerFields DEF TypeOK
    <3>2. DOMAIN ledger \cup {used'} \in SUBSET Ids
      BY <2>3, LedgerFields DEF TypeOK
    <3>3. QED
      BY <3>1, <3>2, IsLedger
  <2>5. QED
    BY <1>2, <2>3, <2>4, FaultTyped DEF Append, TypeOK
<1>3. CASE Poll
  <2>1. Pending \in SUBSET DOMAIN ledger
    BY DEF Pending
  <2>2. todo' \in Ledger
    BY <1>3, <2>1, RestrictIsLedger DEF Poll, TypeOK
  <2>3. QED
    BY <1>3, <2>2, FaultTyped DEF Poll, TypeOK
<1>4. CASE Pick
  <2>1. CASE DOMAIN todo = {} /\ pc' = "idle" /\ NoFault /\ UNCHANGED <<todo, cur, left>>
    BY <1>4, <2>1, FaultTyped DEF Pick, TypeOK
  <2>2. ASSUME NEW i \in DOMAIN todo,
               todo' = Restrict(todo, DOMAIN todo \ {i}),
               \/ /\ cur' = i
                  /\ left' = (todo[i].targets \cap active) \ todo[i].done
                  /\ pc' = "log"
                  /\ NoFault
               \/ Fault /\ UNCHANGED <<pc, cur, left>>
        PROVE  TypeOK'
    <3>1. todo' \in Ledger
      BY <2>2, RestrictIsLedger DEF TypeOK
    <3>2. i \in 0..MaxEvents
      BY LedgerFields DEF TypeOK, Ids
    <3>3. (todo[i].targets \cap active) \ todo[i].done \in SUBSET Members
      BY DEF TypeOK
    <3>4. QED
      BY <1>4, <2>2, <3>1, <3>2, <3>3, FaultTyped DEF Pick, TypeOK
  <2>3. QED
    BY <1>4, <2>1, <2>2 DEF Pick
<1>5. CASE WriteLog
  <2>1. CASE DropEvent /\ (NoFault \/ Fault) /\ UNCHANGED logs
    BY <1>5, <2>1, FaultTyped, DropTyped DEF WriteLog, TypeOK
  <2>2. ASSUME NEW m \in left,
               left' = left \ {m}, who' = {m},
               logs' = [logs EXCEPT ![<<cur, m>>] = @ + 1],
               pc' = "mark", NoFault, UNCHANGED <<cur, copy>>
        PROVE  TypeOK'
    <3>1. logs' \in [Ids \X Members -> Nat]
      BY <2>2, OneMore DEF TypeOK
    <3>2. left' \in SUBSET Members /\ who' \in {{}} \cup {{x} : x \in Members}
      BY <2>2 DEF TypeOK
    <3>3. QED
      BY <1>5, <2>2, <3>1, <3>2, FaultTyped DEF WriteLog, TypeOK
  <2>3. QED
    BY <1>5, <2>1, <2>2 DEF WriteLog
<1>6. CASE MarkRead
  BY <1>6, FaultTyped DEF MarkRead, TypeOK
<1>7. CASE Rewrite
  <2>1. who \in SUBSET Members
    BY DEF TypeOK
  <2>2. ledger' \in Ledger
    BY <1>7, <2>1, MarkedIsLedger DEF Rewrite, TypeOK
  <2>3. CASE pc' = "log" /\ who' = {} /\ copy' = None /\ NoFault /\ UNCHANGED <<cur, left>>
    BY <1>7, <2>2, <2>3, NoneIsLedger, FaultTyped DEF Rewrite, TypeOK
  <2>4. CASE DropEvent /\ Fault
    BY <1>7, <2>2, <2>4, DropTyped, FaultTyped DEF Rewrite, TypeOK
  <2>5. QED
    BY <1>7, <2>3, <2>4 DEF Rewrite
<1>8. CASE Crash
  BY <1>8, NoneIsLedger, FaultTyped DEF Crash, TypeOK
<1>9. CASE ChangeMember
  BY <1>9, FaultTyped DEF ChangeMember, TypeOK
<1>10. CASE UNCHANGED vars
  BY <1>10 DEF vars, TypeOK
<1>11. QED
  BY <1>1, <1>2, <1>3, <1>4, <1>5, <1>6, <1>7, <1>8, <1>9, <1>10 DEF Next, Record, ManagerStep

\* Everything the ledger and the manager hold keeps its type.
THEOREM TypeCorrect == Spec => []TypeOK
<1>1. QED
  BY TypeInit, TypeStep, PTL DEF Spec

-----------------------------------------------------------------------------
(* What a work log holds *)

Busy == {"log", "mark", "rewrite"}

\* The manager's list holds events of the ledger, which only it marks; none of
\* the events it still works on can get lost.
ListInv ==
    /\ DOMAIN ledger \subseteq 1..used
    /\ DOMAIN todo \subseteq DOMAIN ledger
    /\ \A i \in DOMAIN todo : todo[i].done = ledger[i].done
    /\ pc \in Busy => /\ cur \in DOMAIN ledger \ DOMAIN todo
                      /\ left \cap ledger[cur].done = {}
                      /\ left \cap who = {}
    /\ pc \notin {"mark", "rewrite"} => who = {}
    /\ pc = "rewrite" => /\ DOMAIN copy \subseteq DOMAIN ledger
                         /\ \A i \in DOMAIN copy : copy[i] = ledger[i]
                         /\ DOMAIN todo \cup {cur} \subseteq DOMAIN copy

\* What each step does to the file and the manager's list.
LEMMA AppendLedger ==
    ASSUME TypeOK, ListInv, NEW s \in Sources, Append(s)
    PROVE  /\ used' = used + 1 /\ used' \in Ids /\ used' \notin DOMAIN ledger
           /\ DOMAIN ledger' = DOMAIN ledger \cup {used'}
           /\ \A i \in DOMAIN ledger : ledger'[i] = ledger[i]
           /\ ledger'[used'] \in found[s]
<1>1. PICK e \in found[s] :
        ledger' = [i \in DOMAIN ledger \cup {used'} |-> IF i = used' THEN e ELSE ledger[i]]
  BY DEF Append
<1>2. used' = used + 1 /\ used' \in Ids /\ used' \notin DOMAIN ledger
  BY DEF Append, TypeOK, ListInv, Ids
<1>3. QED
  BY <1>1, <1>2

LEMMA RewriteLedger ==
    ASSUME TypeOK, ListInv, Rewrite
    PROVE  \/ /\ DOMAIN ledger' = DOMAIN copy
              /\ \A i \in DOMAIN copy :
                   ledger'[i].done = IF i = cur THEN ledger[i].done \cup who ELSE ledger[i].done
              /\ \/ pc' = "log" /\ who' = {} /\ NoFault /\ UNCHANGED <<cur, left>>
                 \/ DropEvent /\ Fault
           \/ UNCHANGED ledger /\ DropEvent /\ Fault
<1>1. copy \in Ledger /\ who \in SUBSET Members
  BY DEF TypeOK
<1>2. \A i \in DOMAIN copy : copy[i] = ledger[i]
  BY DEF ListInv, Rewrite
<1>3. QED
  BY <1>1, <1>2, MarkedIsLedger DEF Rewrite

LEMMA ListInit == Init => ListInv
BY NoneIsLedger DEF Init, ListInv, Busy

\* The manager's list stays right through every step.
LEMMA ListStep == TypeOK /\ ListInv /\ [Next]_vars => ListInv'
<1> SUFFICES ASSUME TypeOK, ListInv, [Next]_vars PROVE ListInv'
  OBVIOUS
<1> USE DEF ledgerVars, managerVars, Busy
<1>1. ASSUME NEW s \in Sources, Find(s) PROVE ListInv'
  BY <1>1 DEF Find, ListInv
<1>2. ASSUME NEW s \in Sources, Append(s) PROVE ListInv'
  <2>1. UNCHANGED managerVars
    BY <1>2 DEF Append
  <2>2. used \in Nat
    BY DEF TypeOK
  <2>3. DOMAIN ledger' \subseteq 1..used'
    BY <1>2, <2>2, AppendLedger DEF ListInv, Ids
  <2>4. QED
    BY <1>2, <2>1, <2>3, AppendLedger DEF ListInv
<1>3. CASE Poll
  <2>1. DOMAIN todo' \subseteq DOMAIN ledger /\ \A i \in DOMAIN todo' : todo'[i] = ledger[i]
    BY <1>3 DEF Poll, Restrict, Pending
  <2>2. QED
    BY <1>3, <2>1 DEF Poll, ListInv
<1>4. CASE Pick
  <2>1. CASE DOMAIN todo = {} /\ pc' = "idle" /\ NoFault /\ UNCHANGED <<todo, cur, left>>
    BY <1>4, <2>1 DEF Pick, ListInv
  <2>2. ASSUME NEW i \in DOMAIN todo,
               todo' = Restrict(todo, DOMAIN todo \ {i}),
               \/ /\ cur' = i
                  /\ left' = (todo[i].targets \cap active) \ todo[i].done
                  /\ pc' = "log"
                  /\ NoFault
               \/ Fault /\ UNCHANGED <<pc, cur, left>>
        PROVE  ListInv'
    <3>1. DOMAIN todo' = DOMAIN todo \ {i} /\ \A j \in DOMAIN todo' : todo'[j] = todo[j]
      BY <2>2 DEF Restrict
    <3>2. who = {} /\ pc = "pick"
      BY <1>4 DEF Pick, ListInv
    <3>3. QED
      BY <1>4, <2>2, <3>1, <3>2 DEF Pick, ListInv
  <2>3. QED
    BY <1>4, <2>1, <2>2 DEF Pick
<1>5. CASE WriteLog
  BY <1>5 DEF WriteLog, DropEvent, ListInv
<1>6. CASE MarkRead
  BY <1>6 DEF MarkRead, ListInv
<1>7. CASE Rewrite
  <2>1. pc = "rewrite" /\ UNCHANGED <<used, todo>>
    BY <1>7 DEF Rewrite
  <2>2. QED
    BY <1>7, <2>1, RewriteLedger DEF DropEvent, ListInv
<1>8. CASE Crash
  BY <1>8, NoneIsLedger DEF Crash, ListInv
<1>9. CASE ChangeMember
  BY <1>9 DEF ChangeMember, ListInv
<1>10. CASE UNCHANGED vars
  BY <1>10 DEF vars, ListInv
<1>11. QED
  BY <1>1, <1>2, <1>3, <1>4, <1>5, <1>6, <1>7, <1>8, <1>9, <1>10 DEF Next, Record, ManagerStep

\* Member m has an entry for event i that no failure accounts for: it is marked
\* or about to be marked, or the ledger does not have the event (any more).
Accounted(i, m) ==
    \/ i \notin DOMAIN ledger
    \/ m \in ledger[i].done
    \/ pc \in {"mark", "rewrite"} /\ cur = i /\ m \in who

\* One entry if it is accounted for, and one for each failure at most.
CountInv ==
    /\ \A i \in Ids, m \in Members : i > used => logs[<<i, m>>] = 0
    /\ \A i \in Ids, m \in Members :
         /\ logs[<<i, m>>] <= faults + 1
         /\ ~Accounted(i, m) => logs[<<i, m>>] <= faults

\* A step that adds no entry keeps the counts if what was accounted for stays
\* so, or if it is a failure.
LEMMA CountKept ==
    ASSUME TypeOK, TypeOK', CountInv, UNCHANGED logs, used' >= used, Fault \/ NoFault,
           \A i \in Ids, m \in Members :
              Fault \/ i > used \/ (Accounted(i, m) => Accounted(i, m)')
    PROVE  CountInv'
<1>1. faults \in Nat /\ faults' \in Nat /\ used \in Nat /\ used' \in Nat
  BY DEF TypeOK
<1>2. faults' = faults \/ Fault
  BY DEF Fault, NoFault
<1>3. ASSUME NEW i \in Ids, NEW m \in Members
      PROVE  /\ i > used' => logs[<<i, m>>] = 0
             /\ logs[<<i, m>>] <= faults' + 1
             /\ ~Accounted(i, m)' => logs[<<i, m>>] <= faults'
  <2>1. i \in Nat /\ logs[<<i, m>>] \in Nat
    BY <1>3 DEF TypeOK, Ids
  <2>2. /\ i > used => logs[<<i, m>>] = 0
        /\ logs[<<i, m>>] <= faults + 1
        /\ ~Accounted(i, m) => logs[<<i, m>>] <= faults
    BY <1>3 DEF CountInv
  <2>3. CASE Fault
    BY <2>1, <2>2, <2>3, <1>1 DEF Fault
  <2>4. CASE faults' = faults /\ ~Fault
    BY <2>1, <2>2, <2>4, <1>1, <1>3
  <2>5. QED
    BY <1>2, <2>3, <2>4
<1>4. QED
  BY <1>3 DEF CountInv

LEMMA CountInit == Init => CountInv
BY DEF Init, CountInv, Ids

\* Every step keeps the counts.
LEMMA CountStep ==
    ASSUME TypeOK, TypeOK', ListInv, ListInv', CountInv, [Next]_vars
    PROVE  CountInv'
<1> USE DEF ledgerVars, managerVars
<1>0. used \in Nat
  BY DEF TypeOK
<1>1. ASSUME NEW s \in Sources, Find(s) PROVE CountInv'
  BY <1>0, <1>1, CountKept DEF Find, Accounted
<1>2. ASSUME NEW s \in Sources, Append(s) PROVE CountInv'
  <2>1. UNCHANGED managerVars /\ NoFault
    BY <1>2 DEF Append
  <2>2. \A i \in Ids, m \in Members : i > used \/ (Accounted(i, m) => Accounted(i, m)')
    <3>1. \A i \in Ids : i > used \/ i # used'
      BY <1>0, <1>2, AppendLedger DEF Ids
    <3>2. QED
      BY <1>2, <2>1, <3>1, AppendLedger DEF Accounted
  <2>3. QED
    BY <1>0, <1>2, <2>1, <2>2, AppendLedger, CountKept
<1>3. CASE Poll
  BY <1>0, <1>3, CountKept DEF Poll, Accounted
<1>4. CASE Pick
  <2>1. /\ pc = "pick" /\ pc' \in {"pick", "idle", "log"}
        /\ UNCHANGED <<ledger, used, logs>> /\ (Fault \/ NoFault)
    BY <1>4 DEF Pick
  <2>2. \A i \in Ids, m \in Members : Accounted(i, m) => Accounted(i, m)'
    BY <2>1 DEF Accounted
  <2>3. QED
    BY <1>0, <2>1, <2>2, CountKept
<1>5. CASE WriteLog
  <2>1. CASE DropEvent /\ (NoFault \/ Fault) /\ UNCHANGED logs
    BY <1>0, <1>5, <2>1, CountKept DEF WriteLog, DropEvent, Accounted
  <2>2. ASSUME NEW m \in left,
               left' = left \ {m}, who' = {m},
               logs' = [logs EXCEPT ![<<cur, m>>] = @ + 1],
               pc' = "mark", NoFault, UNCHANGED <<cur, copy>>
        PROVE  CountInv'
    <3>1. UNCHANGED <<ledger, used, faults>> /\ pc = "log"
      BY <1>5, <2>2 DEF WriteLog, NoFault
    <3>2. cur \in Ids /\ cur <= used /\ m \in Members /\ ~Accounted(cur, m)
      BY <2>2, <3>1, <1>0 DEF ListInv, Busy, TypeOK, Accounted, Ids
    <3>3. \A x \in Ids \X Members : logs'[x] = IF x = <<cur, m>> THEN logs[x] + 1 ELSE logs[x]
      BY <2>2, OneMore DEF TypeOK
    <3>4. Accounted(cur, m)'
      BY <2>2 DEF Accounted
    <3>5. \A i \in Ids, x \in Members : Accounted(i, x) => Accounted(i, x)'
      BY <3>1 DEF Accounted
    <3>6. ASSUME NEW i \in Ids, NEW x \in Members
          PROVE  /\ i > used' => logs'[<<i, x>>] = 0
                 /\ logs'[<<i, x>>] <= faults' + 1
                 /\ ~Accounted(i, x)' => logs'[<<i, x>>] <= faults'
      <4>1. /\ i > used => logs[<<i, x>>] = 0
            /\ logs[<<i, x>>] <= faults + 1
            /\ ~Accounted(i, x) => logs[<<i, x>>] <= faults
        BY <3>6 DEF CountInv
      <4>2. CASE i = cur /\ x = m
        <5>1. logs'[<<i, x>>] = logs[<<i, x>>] + 1 /\ logs[<<i, x>>] \in Nat /\ faults \in Nat
          BY <3>3, <3>6, <4>2 DEF TypeOK
        <5>2. ~(i > used') /\ faults' = faults
          BY <1>0, <3>1, <3>2, <4>2 DEF Ids
        <5>3. ~Accounted(i, x) /\ Accounted(i, x)'
          BY <2>2, <3>2, <3>4, <4>2 DEF Accounted
        <5>4. QED
          BY <4>1, <5>1, <5>2, <5>3
      <4>3. CASE ~(i = cur /\ x = m)
        <5>1. logs'[<<i, x>>] = logs[<<i, x>>]
          BY <3>3, <3>6, <4>3
        <5>2. QED
          BY <3>1, <3>5, <3>6, <4>1, <5>1
      <4>4. QED
        BY <4>2, <4>3
    <3>7. QED
      BY <3>6 DEF CountInv
  <2>3. QED
    BY <1>5, <2>1, <2>2 DEF WriteLog
<1>6. CASE MarkRead
  BY <1>0, <1>6, CountKept DEF MarkRead, Accounted
<1>7. CASE Rewrite
  <2>1. pc = "rewrite" /\ UNCHANGED <<used, logs>> /\ (Fault \/ NoFault)
    BY <1>7 DEF Rewrite
  <2>2. \A i \in Ids, m \in Members : Fault \/ (Accounted(i, m) => Accounted(i, m)')
    <3>1. DOMAIN copy \subseteq DOMAIN ledger /\ cur \in DOMAIN copy
      BY <2>1 DEF ListInv
    <3>2. QED
      BY <1>7, <2>1, <3>1, RewriteLedger DEF Accounted
  <2>3. QED
    BY <1>0, <2>1, <2>2, CountKept
<1>8. CASE Crash
  BY <1>0, <1>8, CountKept DEF Crash
<1>9. CASE ChangeMember
  BY <1>0, <1>9, CountKept DEF ChangeMember, Accounted
<1>10. CASE UNCHANGED vars
  BY <1>0, <1>10, CountKept DEF vars, Accounted, NoFault
<1>11. QED
  BY <1>1, <1>2, <1>3, <1>4, <1>5, <1>6, <1>7, <1>8, <1>9, <1>10 DEF Next, Record, ManagerStep

LEMMA CountBound == TypeOK /\ CountInv => LoggedOnce
<1> SUFFICES ASSUME TypeOK, CountInv, NEW i \in Ids, NEW m \in Members
             PROVE  logs[<<i, m>>] <= 1 + faults
  BY DEF LoggedOnce
<1>1. logs[<<i, m>>] \in Nat /\ faults \in Nat
  BY DEF TypeOK
<1>2. logs[<<i, m>>] <= faults + 1
  BY DEF CountInv
<1>3. QED
  BY <1>1, <1>2

\* A member's work log names an event once, and once more for each failure at
\* most, whatever is appended between a mark's reading and its writing.
THEOREM OncePerFailure == Spec => []LoggedOnce
<1>1. Init => TypeOK /\ ListInv /\ CountInv
  BY TypeInit, ListInit, CountInit
<1>2. TypeOK /\ ListInv /\ CountInv /\ [Next]_vars => (TypeOK /\ ListInv /\ CountInv)'
  BY TypeStep, ListStep, CountStep
<1>3. QED
  BY <1>1, <1>2, CountBound, PTL DEF Spec

-----------------------------------------------------------------------------
(* What a mark says *)

\* A mark has its entry, an event being marked too, and an event is appended
\* without marks.
MarkInv ==
    /\ MarkedMeansLogged
    /\ pc \in {"mark", "rewrite"} => \A m \in who : logs[<<cur, m>>] > 0
    /\ \A s \in Sources : \A e \in found[s] : e.done = {}

LEMMA MarkInit == Init => MarkInv
BY NoneIsLedger DEF Init, MarkInv, MarkedMeansLogged

\* Every step keeps the marks behind the entries.
LEMMA MarkStep ==
    ASSUME TypeOK, TypeOK', ListInv, MarkInv, [Next]_vars
    PROVE  MarkInv'
<1> USE DEF ledgerVars, managerVars, MarkInv, MarkedMeansLogged
<1>1. ASSUME NEW s \in Sources, Find(s) PROVE MarkInv'
  <2>1. PICK item \in Items, status \in Kinds[s], targets \in SUBSET Members :
          found' = [found EXCEPT ![s] =
             {[art |-> <<s, item>>, status |-> status, targets |-> targets, done |-> {}]}]
    BY <1>1 DEF Find
  <2>2. \A t \in Sources : \A e \in found'[t] : e.done = {}
    BY <2>1 DEF TypeOK
  <2>3. QED
    BY <1>1, <2>2 DEF Find
<1>2. ASSUME NEW s \in Sources, Append(s) PROVE MarkInv'
  <2>1. UNCHANGED managerVars /\ found' = [found EXCEPT ![s] = {}]
    BY <1>2 DEF Append
  <2>2. \A t \in Sources : \A e \in found'[t] : e.done = {}
    BY <2>1 DEF TypeOK
  <2>3. ledger'[used'].done = {}
    BY <1>2, AppendLedger
  <2>4. QED
    BY <1>2, <2>1, <2>2, <2>3, AppendLedger
<1>3. CASE Poll
  BY <1>3 DEF Poll
<1>4. CASE Pick
  BY <1>4 DEF Pick
<1>5. CASE WriteLog
  <2>1. UNCHANGED <<ledger, found>>
    BY <1>5 DEF WriteLog
  <2>2. CASE DropEvent /\ UNCHANGED logs
    BY <2>1, <2>2 DEF DropEvent
  <2>3. ASSUME NEW m \in left,
               who' = {m},
               logs' = [logs EXCEPT ![<<cur, m>>] = @ + 1],
               UNCHANGED cur
        PROVE  MarkInv'
    <3>1. \A x \in Ids \X Members : logs'[x] = IF x = <<cur, m>> THEN logs[x] + 1 ELSE logs[x]
      BY <2>3, OneMore DEF TypeOK
    <3>2. \A x \in Ids \X Members : logs[x] \in Nat
      BY DEF TypeOK
    <3>3. \A x \in Ids \X Members : logs[x] > 0 \/ x = <<cur, m>> => logs'[x] > 0
      BY <3>1, <3>2
    <3>4. <<cur, m>> \in Ids \X Members
      BY <1>5 DEF WriteLog, ListInv, Busy, TypeOK, Ids
    <3>5. \A i \in DOMAIN ledger : \A x \in ledger[i].done : <<i, x>> \in Ids \X Members
      <4>1. \A i \in DOMAIN ledger : i \in Ids /\ ledger[i] \in Event
        BY LedgerFields DEF TypeOK
      <4>2. QED
        BY <4>1, EventFields
    <3>6. QED
      BY <2>1, <2>3, <3>3, <3>4, <3>5
  <2>4. QED
    BY <1>5, <2>2, <2>3 DEF WriteLog
<1>6. CASE MarkRead
  BY <1>6 DEF MarkRead
<1>7. CASE Rewrite
  <2>1. UNCHANGED <<found, logs>> /\ pc = "rewrite" /\ DOMAIN copy \subseteq DOMAIN ledger
    BY <1>7 DEF Rewrite, ListInv
  <2>2. MarkedMeansLogged'
    BY <1>7, <2>1, RewriteLedger
  <2>3. pc' \in {"log", "pick"}
    BY <1>7, RewriteLedger DEF DropEvent
  <2>4. QED
    BY <2>1, <2>2, <2>3
<1>8. CASE Crash
  BY <1>8 DEF Crash
<1>9. CASE ChangeMember
  BY <1>9 DEF ChangeMember
<1>10. CASE UNCHANGED vars
  BY <1>10 DEF vars
<1>11. QED
  BY <1>1, <1>2, <1>3, <1>4, <1>5, <1>6, <1>7, <1>8, <1>9, <1>10 DEF Next, Record, ManagerStep

\* A member marked as done has the entry, whatever fails and whoever is killed:
\* a mark is never ahead of the work log.
THEOREM NeverMarkedAhead == Spec => []MarkedMeansLogged
<1>1. Init => TypeOK /\ ListInv /\ MarkInv
  BY TypeInit, ListInit, MarkInit
<1>2. TypeOK /\ ListInv /\ MarkInv /\ [Next]_vars => (TypeOK /\ ListInv /\ MarkInv)'
  BY TypeStep, ListStep, MarkStep
<1>3. MarkInv => MarkedMeansLogged
  BY DEF MarkInv
<1>4. QED
  BY <1>1, <1>2, <1>3, PTL DEF Spec

=============================================================================
