--------------------------- MODULE LLMBudgetProofs --------------------------
(***************************************************************************)
(* Theorems about LLMBudget, for any processes, costs, limits and bounds.  *)
(***************************************************************************)
EXTENDS LLMBudget, FiniteSetTheorems, TLAPS

USE LimitsAssumption, BoundsAssumption

-----------------------------------------------------------------------------
(* Types *)

\* A run is sent back to work only while it has attempts left.
AttemptsLeft == \A p \in Procs : pc[p] = "attempt" => attempt[p] < MaxAttempts

Typed == TypeOK /\ AttemptsLeft

\* Costs are numbers.
LEMMA CostsAreNumbers == \A c \in Costs : c \in Nat /\ c > 0
<1>1. SUFFICES ASSUME NEW c \in Costs PROVE c \in Nat \ {0}
  OBVIOUS
<1>2. QED
  BY CostsAssumption

LEMMA PendingCost == ASSUME TypeOK, NEW p \in Procs PROVE cost[p] \in Nat
<1>1. cost[p] \in Costs \cup {0}
  BY DEF TypeOK
<1>2. QED
  BY <1>1, CostsAreNumbers

LEMMA InitTyped == Init => Typed
<1>1. NoUsage \in Ledger /\ NotRead \in File
  BY DEF Ledger, NoUsage, Categories, File, NotRead
<1>2. QED
  BY <1>1 DEF Init, Typed, TypeOK, AttemptsLeft, Months, Zero, Labels

\* A ledger that a call was added to is a ledger.
LEMMA AddedTyped ==
    ASSUME TypeOK, NEW p \in Procs
    PROVE  /\ Added(p) \in Ledger
           /\ [seen[p] EXCEPT !.verdicts = @ + 1] \in Ledger
           /\ NoUsage \in Ledger
<1> DEFINE c == Category[p]
<1>1. c \in Categories
  <2>1. c = IF p \in Builders THEN "builder" ELSE "runtime"
    BY DEF Category
  <2>2. QED
    BY <2>1 DEF Categories
<1>2. seen[p] \in Ledger /\ cost[p] \in Nat
  BY PendingCost DEF TypeOK
<1> HIDE DEF c
<1>3. /\ seen[p].total + cost[p] \in Nat
      /\ seen[p].managers[p] + cost[p] \in Nat
      /\ seen[p].categories[c] + cost[p] \in Nat
  <2>1. /\ seen[p].total \in Nat
        /\ seen[p].managers \in [Procs -> Nat]
        /\ seen[p].categories \in [Categories -> Nat]
    BY <1>2 DEF Ledger
  <2>2. seen[p].managers[p] \in Nat /\ seen[p].categories[c] \in Nat
    BY <1>1, <2>1
  <2>3. QED
    BY <1>2, <2>1, <2>2
<1>4. [seen[p] EXCEPT !.total = @ + cost[p],
                      !.categories[c] = @ + cost[p],
                      !.managers[p] = @ + cost[p]] \in Ledger
  BY <1>1, <1>2, <1>3 DEF Ledger
<1>5. Added(p) \in Ledger
  BY <1>4 DEF Added, c
<1>6. QED
  BY <1>2, <1>5 DEF Ledger, NoUsage

\* What a set has loaded is of the type of the file, and so is what it saves.
LEMMA NotReadTyped == NotRead \in File
BY DEF File, NotRead, NoUsage, Ledger, Categories

LEMMA SavedTyped ==
    ASSUME TypeOK, NEW p \in Procs
    PROVE  /\ file[p].used \in [Months -> Ledger] /\ file[p].alerted \in SUBSET Months
           /\ [file[p].used EXCEPT ![key[p]] = Added(p)] \in [Months -> Ledger]
           /\ [file[p].used EXCEPT ![key[p]] = [seen[p] EXCEPT !.verdicts = @ + 1]]
                 \in [Months -> Ledger]
           /\ file[p].alerted \cup {key[p]} \in SUBSET Months
<1>1. file[p] \in File /\ key[p] \in Months
  BY DEF TypeOK
<1>2. file[p].used \in [Months -> Ledger] /\ file[p].alerted \in SUBSET Months
  BY <1>1 DEF File
<1>3. QED
  BY <1>1, <1>2, AddedTyped

\* Whoever was late, the counts stay counts.
LEMMA LateTyped ==
    ASSUME TypeOK, NEW l, Settled(l)
    PROVE  late' \in [Procs -> Nat]
BY DEF TypeOK, Settled, Zero

LEMMA SaveFileTyped ==
    ASSUME TypeOK, NEW p \in Procs, NEW u \in [Months -> Ledger], NEW a \in SUBSET Months,
           SaveFile(p, u, a)
    PROVE  /\ used' \in [Months -> Ledger] /\ alerted' \in SUBSET Months
           /\ dropped' \in [Months -> Nat] /\ file' \in [Procs -> File]
           /\ key' \in [Procs -> Months] /\ late' \in [Procs -> Nat]
<1>1. late' \in [Procs -> Nat]
  BY LateTyped DEF SaveFile
<1>2. 1 \in Months
  BY DEF Months
<1>3. file' \in [Procs -> File] /\ key' \in [Procs -> Months]
  BY <1>2, NotReadTyped DEF SaveFile, TypeOK
<1>4. dropped' \in [Months -> Nat]
  <2>1. dropped \in [Months -> Nat]
    BY DEF TypeOK
  <2>2. \A m \in Months : dropped[m] + (IF m \in alerted \ a THEN 1 ELSE 0) \in Nat
    BY <2>1
  <2>3. dropped' = [m \in Months |-> dropped[m] + IF m \in alerted \ a THEN 1 ELSE 0]
    BY DEF SaveFile
  <2>4. QED
    BY <2>2, <2>3
<1>5. QED
  BY <1>1, <1>3, <1>4 DEF SaveFile

\* Counting one more, and adding a cost.
LEMMA Counted ==
    ASSUME NEW S, NEW f \in [S -> Nat], NEW x \in S, NEW n \in Nat
    PROVE  [f EXCEPT ![x] = @ + 1] \in [S -> Nat] /\ [f EXCEPT ![x] = @ + n] \in [S -> Nat]
OBVIOUS

LEMMA StepsBounded ==
    ASSUME TypeOK, NEW p \in Procs, ~AtStepCap(p)
    PROVE  steps[p] + 1 \in 0..MaxSteps
<1>1. steps[p] \in 0..MaxSteps
  BY DEF TypeOK
<1>2. QED
  BY <1>1 DEF AtStepCap

\* A process that goes anywhere but to its next attempt.
LEMMA Moved ==
    ASSUME Typed, NEW p \in Procs, NEW l \in Labels \ {"attempt"}, Goes(p, l), UNCHANGED attempt
    PROVE  pc' \in [Procs -> Labels] /\ AttemptsLeft'
BY DEF Typed, TypeOK, AttemptsLeft, Goes

LEMMA ExecuteTyped ==
    ASSUME Typed, NEW p \in Procs, StartRun(p) \/ Execute(p)
    PROVE  Typed'
<1>1. CASE StartRun(p)
  BY <1>1 DEF Typed, TypeOK, AttemptsLeft, StartRun, Goes, Labels
<1>2. CASE BeginAttempt(p)
  <2>1. /\ items' \in [Procs -> 0..MaxItems] /\ pc' \in [Procs -> Labels]
        /\ attempt' \in [Procs -> 0..MaxAttempts] /\ steps' \in [Procs -> 0..MaxSteps]
    <3>1. CASE AtStepCap(p) \/ OverRunCap(p)
      BY <1>2, <3>1 DEF Typed, TypeOK, BeginAttempt, Goes, Labels
    <3>2. CASE ~AtStepCap(p) /\ ~OverRunCap(p)
      <4>1. attempt[p] + 1 \in 0..MaxAttempts
        BY <1>2 DEF Typed, TypeOK, AttemptsLeft, BeginAttempt
      <4>2. steps[p] + 1 \in 0..MaxSteps
        BY <3>2, StepsBounded DEF Typed
      <4>3. /\ attempt' = [attempt EXCEPT ![p] = attempt[p] + 1]
            /\ steps' = [steps EXCEPT ![p] = steps[p] + 1]
            /\ items' = [items EXCEPT ![p] = 0]
            /\ pc' = [pc EXCEPT ![p] = "work"]
        BY <1>2, <3>2 DEF BeginAttempt, Goes
      <4>4. QED
        BY <4>1, <4>2, <4>3 DEF Typed, TypeOK, Labels
    <3>3. QED
      BY <3>1, <3>2
  <2>2. AttemptsLeft'
    BY <1>2 DEF Typed, TypeOK, AttemptsLeft, BeginAttempt, Goes
  <2>3. QED
    BY <1>2, <2>1, <2>2 DEF Typed, TypeOK, BeginAttempt, history
<1>3. CASE EndAttempt(p)
  BY <1>3 DEF Typed, TypeOK, AttemptsLeft, EndAttempt, Goes, Labels, history, runVars
<1>4. CASE ReadForVerdict(p)
  BY <1>4 DEF Typed, TypeOK, AttemptsLeft, ReadForVerdict, Goes, Labels, history, runVars
<1>5. CASE SaveVerdict(p)
  <2>1. pc' \in [Procs -> Labels] /\ seen' \in [Procs -> Ledger] /\ AttemptsLeft'
    BY <1>5, AddedTyped DEF Typed, TypeOK, AttemptsLeft, SaveVerdict, Goes, Labels, runVars
  <2>2. /\ used' \in [Months -> Ledger] /\ alerted' \in SUBSET Months
        /\ dropped' \in [Months -> Nat] /\ file' \in [Procs -> File]
        /\ key' \in [Procs -> Months] /\ late' \in [Procs -> Nat]
    BY <1>5, SavedTyped, SaveFileTyped DEF Typed, SaveVerdict
  <2>3. QED
    BY <1>5, <2>1, <2>2 DEF Typed, TypeOK, SaveVerdict, runVars
<1>6. QED
  BY <1>1, <1>2, <1>3, <1>4, <1>5 DEF Execute

LEMMA TrackTyped ==
    ASSUME Typed, NEW p \in Procs, Track(p)
    PROVE  Typed'
<1>0. TypeOK /\ pc' \in [Procs -> Labels] /\ AttemptsLeft'
  <2>1. TypeOK /\ UNCHANGED attempt
    BY DEF Typed, Track, CheckBudget, Call, ReadUsage, WriteUsage, Alert, PostAlert,
           FlagAlert, runVars
  <2>2. \E l \in Labels \ {"attempt"} : Goes(p, l)
    <3>1. Raised(p) \in Labels \ {"attempt"} /\ "work" \in Labels \ {"attempt"}
      BY DEF Raised, Labels
    <3>2. Charge(p) => \E l \in Labels \ {"attempt"} : Goes(p, l)
      BY <3>1 DEF Charge
    <3>3. CASE CheckBudget(p) \/ Call(p)
      BY <3>1, <3>3 DEF CheckBudget, Call, Labels
    <3>4. CASE ReadUsage(p) \/ WriteUsage(p)
      BY <3>4 DEF ReadUsage, WriteUsage, Labels
    <3>5. CASE Alert(p) \/ PostAlert(p) \/ FlagAlert(p)
      BY <3>1, <3>2, <3>5 DEF Alert, PostAlert, FlagAlert, Labels
    <3>6. QED
      BY <3>3, <3>4, <3>5 DEF Track
  <2>3. QED
    BY <2>1, <2>2, Moved
<1>00. Charge(p) => spent' \in [Procs -> Nat] /\ cost' \in [Procs -> Costs \cup {0}]
  <2>1. cost[p] \in Nat
    BY <1>0, PendingCost
  <2>2. QED
    BY <1>0, <2>1, Counted DEF TypeOK, Charge
<1>1. CASE CheckBudget(p)
  BY <1>0, <1>1 DEF Typed, TypeOK, CheckBudget, history
<1>2. CASE Call(p)
  <2>1. steps' \in [Procs -> 0..MaxSteps]
    <3>1. CASE AtStepCap(p) \/ OverRunCap(p)
      <4>1. AtStepCap(p) \/ OverRunCap(p) => UNCHANGED steps
        BY <1>2, Zenon DEF Call
      <4>2. QED
        BY <1>0, <3>1, <4>1 DEF TypeOK
    <3>2. CASE ~(AtStepCap(p) \/ OverRunCap(p))
      <4>1. steps' = [steps EXCEPT ![p] = steps[p] + 1]
        BY <1>2, <3>2 DEF Call
      <4>2. steps \in [Procs -> 0..MaxSteps]
        BY <1>0 DEF TypeOK
      <4>3. steps[p] + 1 \in 0..MaxSteps
        BY <1>0, <3>2, StepsBounded
      <4>4. QED
        BY <4>1, <4>2, <4>3
    <3>3. QED
      BY <3>1, <3>2
  <2>2. /\ late' \in [Procs -> Nat] /\ missed' \in [Procs -> Nat] /\ calls' \in [Procs -> Nat]
    <3>1. /\ late' = [late EXCEPT ![p] = @ + 1] \/ late' = [late EXCEPT ![p] = @]
          /\ missed' = [missed EXCEPT ![p] = @ + 1] \/ missed' = missed
          /\ calls' = [calls EXCEPT ![p] = @ + 1]
      BY <1>2 DEF Call
    <3>2. missed \in [Procs -> Nat] /\ calls \in [Procs -> Nat]
      BY <1>0 DEF TypeOK
    <3>3. late \in [Procs -> Nat] /\ late[p] \in Nat /\ late[p] + 1 \in Nat
      BY <1>0 DEF TypeOK
    <3>4. late' \in [Procs -> Nat]
      BY <3>1, <3>3
    <3>5. missed' \in [Procs -> Nat] /\ calls' \in [Procs -> Nat]
      BY <3>1, <3>2
    <3>6. QED
      BY <3>4, <3>5
  <2>3. billed' \in [Procs -> Nat]
    BY <1>0, <1>2, Counted, CostsAreNumbers DEF TypeOK, Call
  <2>4. cost' \in [Procs -> Costs \cup {0}]
    BY <1>0, <1>2 DEF TypeOK, Call
  <2>5. QED
    BY <1>0, <1>2, <2>1, <2>2, <2>3, <2>4 DEF Typed, TypeOK, Call
<1>3. CASE ReadUsage(p)
  <2>1. cost[p] \in Nat /\ entered[p] \in [Months -> Nat]
    BY <1>0, PendingCost DEF TypeOK
  <2>2. entered' = [entered EXCEPT ![p] = [entered[p] EXCEPT ![month] = @ + cost[p]]]
    BY <1>0, <1>3 DEF TypeOK, ReadUsage
  <2>3. entered' \in [Procs -> [Months -> Nat]]
    BY <1>0, <2>1, <2>2 DEF TypeOK
  <2>4. QED
    BY <1>0, <1>3, <2>3 DEF Typed, TypeOK, ReadUsage, runVars
<1>4. CASE WriteUsage(p)
  <2>1. seen' \in [Procs -> Ledger]
    BY <1>0, <1>4, AddedTyped DEF TypeOK, WriteUsage
  <2>2. /\ used' \in [Months -> Ledger] /\ alerted' \in SUBSET Months
        /\ dropped' \in [Months -> Nat] /\ file' \in [Procs -> File]
        /\ key' \in [Procs -> Months] /\ late' \in [Procs -> Nat]
    BY <1>0, <1>4, SavedTyped, SaveFileTyped DEF WriteUsage
  <2>3. QED
    BY <1>0, <1>4, <2>1, <2>2 DEF Typed, TypeOK, WriteUsage, runVars
<1>5. CASE Alert(p)
  <2>1. key' \in [Procs -> Months]
    BY <1>0, <1>5 DEF TypeOK, Alert
  <2>2. spent' \in [Procs -> Nat] /\ cost' \in [Procs -> Costs \cup {0}]
    BY <1>0, <1>00, <1>5 DEF TypeOK, Alert
  <2>3. QED
    BY <1>0, <1>5, <2>1, <2>2 DEF Typed, TypeOK, Alert, history
<1>6. CASE PostAlert(p)
  <2>1. key[p] \in Months /\ 1 \in Months
    BY <1>0 DEF TypeOK, Months
  <2>2. sent' \in [Months -> Nat]
    BY <1>0, <1>6, <2>1, Counted DEF TypeOK, PostAlert
  <2>3. /\ key' \in [Procs -> Months] /\ cost' \in [Procs -> Costs \cup {0}]
        /\ faults' \in 0..MaxFaults
    <3>1. \/ UNCHANGED <<cost, key, faults>>
          \/ /\ faults < MaxFaults /\ faults' = faults + 1
             /\ cost' = [cost EXCEPT ![p] = 0] /\ key' = [key EXCEPT ![p] = 1]
      BY <1>6 DEF PostAlert
    <3>2. /\ key \in [Procs -> Months] /\ cost \in [Procs -> Costs \cup {0}]
          /\ faults \in 0..MaxFaults
      BY <1>0 DEF TypeOK
    <3>3. QED
      BY <2>1, <3>1, <3>2
  <2>4. QED
    BY <1>0, <1>6, <2>2, <2>3 DEF Typed, TypeOK, PostAlert, runVars
<1>7. CASE FlagAlert(p)
  <2>1. /\ used' \in [Months -> Ledger] /\ alerted' \in SUBSET Months
        /\ dropped' \in [Months -> Nat] /\ file' \in [Procs -> File]
        /\ key' \in [Procs -> Months] /\ late' \in [Procs -> Nat]
    BY <1>0, <1>7, SavedTyped, SaveFileTyped DEF FlagAlert
  <2>2. spent' \in [Procs -> Nat] /\ cost' \in [Procs -> Costs \cup {0}]
    BY <1>00, <1>7 DEF FlagAlert
  <2>3. QED
    BY <1>0, <1>7, <2>1, <2>2 DEF Typed, TypeOK, FlagAlert
<1>8. QED
  BY <1>1, <1>2, <1>3, <1>4, <1>5, <1>6, <1>7 DEF Track

LEMMA WorldTyped ==
    ASSUME Typed, (\E p \in Procs : Killed(p) \/ SaveFails(p) \/ LoadFile(p)) \/ NewMonth
    PROVE  Typed'
<1>1. ASSUME NEW p \in Procs, Killed(p) \/ SaveFails(p)
      PROVE  Typed'
  <2>1. faults' \in 0..MaxFaults
    BY <1>1 DEF Typed, TypeOK, Killed, SaveFails
  <2>2. pc' \in [Procs -> Labels] /\ AttemptsLeft'
    <3>1. PICK l \in {"idle", "work"} : pc' = [pc EXCEPT ![p] = l]
      BY <1>1 DEF Killed, SaveFails, Goes, Raised
    <3>2. attempt' = attempt
      BY <1>1 DEF Killed, SaveFails, runVars
    <3>3. QED
      BY <3>1, <3>2 DEF Typed, TypeOK, AttemptsLeft, Labels
  <2>3. /\ seen' \in [Procs -> Ledger] /\ cost' \in [Procs -> Costs \cup {0}]
        /\ file' \in [Procs -> File]
    <3>1. /\ seen' = [seen EXCEPT ![p] = NoUsage] /\ cost' = [cost EXCEPT ![p] = 0]
          /\ file' = [file EXCEPT ![p] = NotRead]
      BY <1>1 DEF Killed, SaveFails
    <3>2. /\ seen \in [Procs -> Ledger] /\ cost \in [Procs -> Costs \cup {0}]
          /\ file \in [Procs -> File]
      BY DEF Typed, TypeOK
    <3>3. NoUsage \in Ledger /\ NotRead \in File
      BY AddedTyped, NotReadTyped DEF Typed
    <3>4. QED
      BY <3>1, <3>2, <3>3
  <2>4. key' \in [Procs -> Months]
    <3>1. key' = [key EXCEPT ![p] = 1]
      BY <1>1 DEF Killed, SaveFails
    <3>2. key \in [Procs -> Months]
      BY DEF Typed, TypeOK
    <3>3. 1 \in Months
      BY DEF Months
    <3>4. QED
      BY <3>1, <3>2, <3>3
  <2>5. QED
    BY <1>1, <2>1, <2>2, <2>3, <2>4 DEF Typed, TypeOK, Killed, SaveFails, runVars, history
<1>0. ASSUME NEW p \in Procs, LoadFile(p)
      PROVE  Typed'
  <2>1. pc' \in [Procs -> Labels] /\ AttemptsLeft'
    <3>1. PICK l \in {"writing", "flagging", "saving"} : pc' = [pc EXCEPT ![p] = l]
      <4>1. pc[p] \in {"write", "flag", "save"}
        BY <1>0 DEF LoadFile, Saving
      <4>2. pc' = [pc EXCEPT ![p] = Saving[pc[p]]]
        BY <1>0 DEF LoadFile, Goes
      <4>3. Saving[pc[p]] \in {"writing", "flagging", "saving"}
        BY <4>1 DEF Saving
      <4>4. QED
        BY <4>2, <4>3
    <3>2. attempt' = attempt
      BY <1>0 DEF LoadFile, runVars
    <3>3. QED
      BY <3>1, <3>2 DEF Typed, TypeOK, AttemptsLeft, Labels
  <2>2. file' \in [Procs -> File]
    BY <1>0 DEF Typed, TypeOK, LoadFile, File
  <2>3. QED
    BY <1>0, <2>1, <2>2 DEF Typed, TypeOK, LoadFile, runVars, history
<1>2. CASE NewMonth
  <2>1. month' \in Months
    BY <1>2 DEF Typed, TypeOK, NewMonth, Months
  <2>2. late' \in [Procs -> Nat]
    BY <1>2, LateTyped DEF Typed, NewMonth
  <2>3. QED
    BY <1>2, <2>1, <2>2 DEF Typed, TypeOK, AttemptsLeft, NewMonth, runVars
<1>3. QED
  BY <1>0, <1>1, <1>2

LEMMA NextTyped == Typed /\ [Next]_vars => Typed'
<1>1. CASE UNCHANGED vars
  BY <1>1 DEF Typed, TypeOK, AttemptsLeft, vars, runVars, history
<1>2. QED
  BY <1>1, ExecuteTyped, TrackTyped, WorldTyped DEF Next, Step

LEMMA AlwaysTyped == Spec => []Typed
BY InitTyped, NextTyped, PTL DEF Spec

\* Every state of the budget has its type; no run makes more attempts than
\* max_iterations or counts more steps than its cap.
THEOREM TypeCorrect == Spec => []TypeOK
<1>1. Typed => TypeOK
  BY DEF Typed
<1>2. QED
  BY <1>1, AlwaysTyped, PTL

-----------------------------------------------------------------------------
(* The limit of the month *)

\* While the ledger is below the limit nobody is late, and a process that
\* passed the check and has not called is not late yet, if it is checked at all.
NobodyLate ==
    /\ used[month].total < Limit => late = Zero
    /\ \A p \in Procs \ Unchecked : late[p] <= 1 /\ (pc[p] = "call" => late[p] = 0)

LimitInv == Typed /\ NobodyLate

\* Only CheckBudget sends a process to its call.
LEMMA OnlyCheckCalls ==
    ASSUME Typed, NEW p \in Procs, Step(p) \/ StartRun(p) \/ SaveFails(p) \/ Killed(p), ~CheckBudget(p)
    PROVE  \A q \in Procs : pc'[q] = "call" => pc[q] = "call"
<1>1. pc \in [Procs -> Labels] /\ Raised(p) # "call"
  BY DEF Typed, TypeOK, Raised
<1>2. \E l : l # "call" /\ pc' = [pc EXCEPT ![p] = l]
  <2>1. Charge(p) => \E l : l # "call" /\ pc' = [pc EXCEPT ![p] = l]
    BY <1>1 DEF Charge, Goes
  <2>2. LoadFile(p) => \E l : l # "call" /\ pc' = [pc EXCEPT ![p] = l]
    <3>1. \A l \in DOMAIN Saving : Saving[l] # "call"
      BY DEF Saving
    <3>2. QED
      BY <3>1 DEF LoadFile, Goes
  <2>3. CASE Execute(p) \/ StartRun(p) \/ SaveFails(p) \/ Killed(p)
    BY <1>1, <2>3 DEF Execute, StartRun, SaveFails, Killed, BeginAttempt, EndAttempt, ReadForVerdict,
                      SaveVerdict, Goes
  <2>4. CASE Call(p) \/ ReadUsage(p) \/ WriteUsage(p)
    BY <1>1, <2>4 DEF Call, ReadUsage, WriteUsage, Goes
  <2>5. CASE Alert(p) \/ PostAlert(p) \/ FlagAlert(p)
    BY <1>1, <2>1, <2>5 DEF Alert, PostAlert, FlagAlert, Goes
  <2>6. QED
    BY <2>2, <2>3, <2>4, <2>5 DEF Step, Track
<1>3. QED
  BY <1>1, <1>2

LEMMA StepNobodyLate ==
    ASSUME LimitInv, NEW p \in Procs, Step(p) \/ StartRun(p) \/ SaveFails(p) \/ Killed(p)
    PROVE  NobodyLate'
<1>0. /\ late \in [Procs -> Nat] /\ pc \in [Procs -> Labels] /\ used[month].total \in Nat
      /\ Typed /\ NobodyLate
  BY DEF LimitInv, Typed, TypeOK, Ledger
<1>1. CASE CheckBudget(p)
  <2>1. UNCHANGED <<late, used, month>>
    BY <1>1 DEF CheckBudget, history
  <2>2. p \notin Unchecked /\ pc'[p] = "call" => ~OverBudget
    BY <1>0, <1>1 DEF CheckBudget, Goes, Raised
  <2>3. \A q \in Procs \ {p} : pc'[q] = pc[q]
    BY <1>0, <1>1 DEF CheckBudget, Goes
  <2>4. ~OverBudget => late[p] = 0
    BY <1>0 DEF NobodyLate, OverBudget, Zero
  <2>5. ASSUME NEW q \in Procs \ Unchecked PROVE late[q] <= 1 /\ (pc'[q] = "call" => late[q] = 0)
    BY <1>0, <2>2, <2>3, <2>4 DEF NobodyLate
  <2>6. QED
    BY <1>0, <2>1, <2>5 DEF NobodyLate, Zero
<1>2. CASE Call(p)
  <2>1. UNCHANGED <<used, month>> /\ pc[p] = "call" /\ pc'[p] # "call"
    BY <1>0, <1>2 DEF Call, Goes, Raised
  <2>2. \A q \in Procs : late'[q] = IF q = p /\ OverBudget THEN late[p] + 1 ELSE late[q]
    BY <1>0, <1>2 DEF Call
  <2>3. ~OverBudget => late' = late
    BY <1>0, <1>2 DEF Call
  <2>4. ~CheckBudget(p)
    BY <2>1 DEF CheckBudget
  <2>5. used'[month'].total < Limit => late' = Zero
    BY <1>0, <2>1, <2>3 DEF NobodyLate, OverBudget, Zero
  <2>6. ASSUME NEW q \in Procs \ Unchecked PROVE late'[q] <= 1 /\ (pc'[q] = "call" => late'[q] = 0)
    BY <1>0, <2>1, <2>2, <2>4, OnlyCheckCalls DEF NobodyLate
  <2>7. QED
    BY <2>5, <2>6 DEF NobodyLate, Zero
<1>3. CASE WriteUsage(p) \/ SaveVerdict(p) \/ FlagAlert(p)
  <2>1. Settled(used'[month]) /\ month' = month /\ ~CheckBudget(p)
    BY <1>3 DEF WriteUsage, SaveVerdict, FlagAlert, SaveFile, CheckBudget
  <2>2. used'[month].total \in Nat
    <3>1. TypeOK' /\ month \in Months
      BY <1>0, <1>3, TrackTyped, ExecuteTyped DEF Track, Execute, Typed, TypeOK
    <3>2. QED
      BY <3>1 DEF TypeOK, Ledger
  <2>3. late' = Zero \/ (late' = late /\ ~(used'[month].total < Limit))
    BY <2>1 DEF Settled
  <2>4. \A q \in Procs : pc'[q] = "call" => pc[q] = "call"
    BY <1>0, <2>1, OnlyCheckCalls
  <2>5. QED
    BY <1>0, <2>1, <2>3, <2>4 DEF NobodyLate, Zero
<1>4. CASE ~CheckBudget(p) /\ ~Call(p) /\ ~WriteUsage(p) /\ ~SaveVerdict(p) /\ ~FlagAlert(p)
  <2>1. UNCHANGED <<late, used, month>>
    BY <1>4 DEF Step, Execute, Track, StartRun, Killed, SaveFails, LoadFile, ReadUsage, Alert,
                PostAlert, BeginAttempt, EndAttempt, ReadForVerdict, history
  <2>2. \A q \in Procs : pc'[q] = "call" => pc[q] = "call"
    BY <1>0, <1>4, OnlyCheckCalls
  <2>3. QED
    BY <1>0, <2>1, <2>2 DEF NobodyLate, Zero
<1>5. QED
  BY <1>1, <1>2, <1>3, <1>4

LEMMA NextLimitInv == LimitInv /\ [Next]_vars => LimitInv'
<1>1. SUFFICES ASSUME LimitInv, [Next]_vars PROVE NobodyLate'
  BY NextTyped DEF LimitInv
<1>2. CASE NewMonth
  BY <1>1, <1>2 DEF NewMonth, Settled, NobodyLate, Zero, LimitInv
<1>3. CASE UNCHANGED vars
  BY <1>1, <1>3 DEF vars, history, NobodyLate, Zero, LimitInv
<1>4. QED
  BY <1>1, <1>2, <1>3, StepNobodyLate DEF Next

LEMMA AlwaysLimitInv == Spec => []LimitInv
<1>1. Init => LimitInv
  BY InitTyped DEF Init, LimitInv, NobodyLate, Zero
<1>2. QED
  BY <1>1, NextLimitInv, PTL DEF Spec

\* However the calls of the processes and their updates of the ledger
\* interleave, whatever saves of the whole file undo, no process whose budget is
\* checked makes more than one query past the limit.
THEOREM LimitCorrect == Spec => []OneCallPastTheLimit
<1>1. LimitInv => OneCallPastTheLimit
  BY DEF LimitInv, NobodyLate, OneCallPastTheLimit
<1>2. QED
  BY <1>1, AlwaysLimitInv, PTL

-----------------------------------------------------------------------------
(* The ledger of a month, under concurrent read-modify-writes *)

Adds(l) == l.total = l.categories["runtime"] + l.categories["builder"]

\* What is stored adds up, and what each process has read or loaded adds up.
SplitsInv == /\ \A m \in Months : Adds(used[m])
             /\ \A p \in Procs : Adds(seen[p])
             /\ \A p \in Procs, m \in Months : Adds(file[p].used[m])

Reading == {"write", "writing", "save", "saving"}

\* No ledger, stored, read or loaded, credits a manager with more than it brought;
\* one that is about to add its call has not been credited with it.
CreditInv ==
    /\ NothingInvented
    /\ \A q, p \in Procs, m \in Months : file[q].used[m].managers[p] <= entered[p][m]
    /\ \A q \in Procs : pc[q] \in Reading =>
         \A p \in Procs : seen[q].managers[p] <= entered[p][key[q]]
    /\ \A q \in Procs : pc[q] \in {"write", "writing"} =>
         seen[q].managers[q] + cost[q] <= entered[q][key[q]]

LEMMA LedgerFields ==
    ASSUME NEW l \in Ledger
    PROVE  /\ l.total \in Nat /\ l.verdicts \in Nat
           /\ l.categories["runtime"] \in Nat /\ l.categories["builder"] \in Nat
           /\ \A p \in Procs : l.managers[p] \in Nat
BY DEF Ledger, Categories

\* What WriteUsage and SaveVerdict put in the place of what was read.
LEMMA AddedFields ==
    ASSUME TypeOK, NEW p \in Procs
    PROVE  /\ Adds(seen[p]) => Adds(Added(p))
           /\ \A q \in Procs : Added(p).managers[q] =
                 IF q = p THEN seen[p].managers[p] + cost[p] ELSE seen[p].managers[q]
<1> DEFINE c == Category[p]
<1>1. c \in {"runtime", "builder"}
  BY DEF Category
<1>2. seen[p] \in Ledger /\ cost[p] \in Nat
  BY PendingCost DEF TypeOK
<1> HIDE DEF c
<1>3. /\ seen[p].total \in Nat
      /\ seen[p].categories \in [Categories -> Nat]
      /\ seen[p].managers \in [Procs -> Nat]
  BY <1>2 DEF Ledger
<1> DEFINE a == [seen[p] EXCEPT !.total = @ + cost[p],
                                !.categories[c] = @ + cost[p],
                                !.managers[p] = @ + cost[p]]
<1>4. /\ a.total = seen[p].total + cost[p]
      /\ a.categories = [seen[p].categories EXCEPT ![c] = @ + cost[p]]
      /\ a.managers = [seen[p].managers EXCEPT ![p] = @ + cost[p]]
  BY <1>2 DEF Ledger
<1>5. \A k \in Categories :
        a.categories[k] = IF k = c THEN seen[p].categories[c] + cost[p] ELSE seen[p].categories[k]
  BY <1>3, <1>4
<1>6. \A q \in Procs : a.managers[q] =
        IF q = p THEN seen[p].managers[p] + cost[p] ELSE seen[p].managers[q]
  BY <1>3, <1>4
<1>7. a = Added(p)
  BY DEF Added, c
<1> HIDE DEF a
<1>8. /\ seen[p].categories["runtime"] \in Nat /\ seen[p].categories["builder"] \in Nat
      /\ "runtime" \in Categories /\ "builder" \in Categories
  BY <1>3 DEF Categories
<1>9. Adds(seen[p]) => Adds(a)
  BY <1>1, <1>2, <1>3, <1>4, <1>5, <1>8 DEF Adds
<1>10. QED
  BY <1>6, <1>7, <1>9

LEMMA VerdictFields ==
    ASSUME TypeOK, NEW p \in Procs, NEW l, l = [seen[p] EXCEPT !.verdicts = @ + 1]
    PROVE  /\ l.managers = seen[p].managers
           /\ Adds(seen[p]) => Adds(l)
<1>1. seen[p] \in Ledger
  BY DEF TypeOK
<1>2. l.managers = seen[p].managers /\ l.total = seen[p].total /\ l.categories = seen[p].categories
  BY <1>1 DEF Ledger
<1>3. QED
  BY <1>2 DEF Adds

LEMMA NoUsageFields == Adds(NoUsage)
BY DEF Adds, NoUsage, Categories

LEMMA NotReadFields ==
    \A m \in Months : Adds(NotRead.used[m]) /\ \A p \in Procs : NotRead.used[m].managers[p] = 0
<1>1. \A m \in Months : NotRead.used[m] = NoUsage
  BY DEF NotRead
<1>2. \A p \in Procs : NoUsage.managers[p] = 0
  BY DEF NoUsage
<1>3. QED
  BY <1>1, <1>2, NoUsageFields

\* A process that has read nothing, and one that forgets what it read.
Forgets(p) ==
    \/ StartRun(p) \/ BeginAttempt(p) \/ EndAttempt(p) \/ CheckBudget(p) \/ Call(p)
    \/ Alert(p) \/ PostAlert(p) \/ SaveFails(p) \/ Killed(p)

LEMMA ForgetsFields ==
    ASSUME Typed, NEW p \in Procs, Forgets(p)
    PROVE  /\ UNCHANGED <<used, entered>>
           /\ pc' = [pc EXCEPT ![p] = pc'[p]] /\ pc'[p] \notin Reading
           /\ key' = [key EXCEPT ![p] = key'[p]]
           /\ cost' = [cost EXCEPT ![p] = cost'[p]]
           /\ seen' = seen \/ seen' = [seen EXCEPT ![p] = NoUsage]
           /\ file' = file \/ file' = [file EXCEPT ![p] = NotRead]
<1>1. pc \in [Procs -> Labels] /\ key \in [Procs -> Months] /\ cost \in [Procs -> Costs \cup {0}]
  BY DEF Typed, TypeOK
<1>2. Raised(p) \notin Reading /\ {"attempt", "work", "call", "read", "idle", "verdict", "flag", "post"}
                                  \cap Reading = {}
  BY DEF Raised, Reading
<1>3. CASE StartRun(p) \/ BeginAttempt(p) \/ EndAttempt(p) \/ CheckBudget(p)
  BY <1>1, <1>2, <1>3 DEF StartRun, BeginAttempt, EndAttempt, CheckBudget, Goes, runVars, history
<1>4. CASE Call(p)
  BY <1>1, <1>2, <1>4 DEF Call, Goes, runVars, history
<1>5. CASE Alert(p) \/ PostAlert(p)
  BY <1>1, <1>2, <1>5 DEF Alert, PostAlert, Charge, Goes, runVars, history
<1>6. CASE SaveFails(p) \/ Killed(p)
  BY <1>1, <1>2, <1>6 DEF SaveFails, Killed, Goes, runVars, history
<1>7. QED
  BY <1>3, <1>4, <1>5, <1>6 DEF Forgets

LedgerInv == Typed /\ SplitsInv /\ CreditInv

LEMMA ForgetsLedger ==
    ASSUME LedgerInv, NEW p \in Procs, Forgets(p)
    PROVE  SplitsInv' /\ CreditInv'
<1>1. /\ pc \in [Procs -> Labels] /\ key \in [Procs -> Months]
      /\ cost \in [Procs -> Costs \cup {0}] /\ seen \in [Procs -> Ledger]
      /\ file \in [Procs -> File] /\ entered \in [Procs -> [Months -> Nat]]
  BY DEF LedgerInv, Typed, TypeOK
<1>2. /\ UNCHANGED <<used, entered>> /\ pc'[p] \notin Reading
      /\ \A q \in Procs \ {p} : /\ pc'[q] = pc[q] /\ key'[q] = key[q] /\ cost'[q] = cost[q]
                                /\ seen'[q] = seen[q]
      /\ \A q \in Procs : seen'[q] = seen[q] \/ seen'[q] = NoUsage
      /\ \A q \in Procs : file'[q] = file[q] \/ file'[q] = NotRead
  BY <1>1, ForgetsFields, SMTT(30) DEF LedgerInv
<1>3. SplitsInv'
  BY <1>2, NoUsageFields, NotReadFields DEF LedgerInv, SplitsInv, Adds
<1>4. \A q, r \in Procs, m \in Months : file'[q].used[m].managers[r] <= entered[r][m]
  <2>1. ASSUME NEW q \in Procs, NEW r \in Procs, NEW m \in Months
        PROVE  file'[q].used[m].managers[r] <= entered[r][m]
    <3>1. entered[r][m] \in Nat /\ NotRead.used[m].managers[r] = 0
      BY <1>1, NotReadFields
    <3>2. file[q].used[m].managers[r] <= entered[r][m]
      BY DEF LedgerInv, CreditInv
    <3>3. file'[q] = file[q] \/ file'[q] = NotRead
      BY <1>2
    <3>4. QED
      BY <3>1, <3>2, <3>3
  <2>2. QED
    BY <2>1
<1>5. CreditInv'
  <2>1. ASSUME NEW q \in Procs, pc'[q] \in Reading
        PROVE  q # p
    BY <1>2, <2>1
  <2>2. {"write", "writing"} \subseteq Reading
    BY DEF Reading
  <2>3. QED
    BY <1>2, <1>4, <2>1, <2>2 DEF LedgerInv, CreditInv, NothingInvented
<1>6. QED
  BY <1>3, <1>5

LEMMA LoadLedger ==
    ASSUME LedgerInv, NEW p \in Procs, LoadFile(p)
    PROVE  SplitsInv' /\ CreditInv'
<1>1. /\ pc \in [Procs -> Labels] /\ file \in [Procs -> File]
  BY DEF LedgerInv, Typed, TypeOK
<1>2. /\ UNCHANGED <<used, entered, seen, key, cost>>
      /\ file'[p].used = used /\ \A q \in Procs \ {p} : file'[q] = file[q]
      /\ pc[p] \in {"write", "flag", "save"} /\ pc' = [pc EXCEPT ![p] = Saving[pc[p]]]
  BY <1>1 DEF LoadFile, Saving, Goes, history
<1>3. \A q \in Procs : /\ pc'[q] \in Reading => pc[q] \in Reading
                       /\ pc'[q] \in {"write", "writing"} => pc[q] \in {"write", "writing"}
  BY <1>1, <1>2 DEF Saving, Reading
<1>4. SplitsInv'
  <2>1. \A q \in Procs, m \in Months : Adds(file'[q].used[m])
    BY <1>2 DEF LedgerInv, SplitsInv
  <2>2. QED
    BY <1>2, <2>1 DEF LedgerInv, SplitsInv, Adds
<1>5. \A q, r \in Procs, m \in Months : file'[q].used[m].managers[r] <= entered[r][m]
  BY <1>2 DEF LedgerInv, CreditInv, NothingInvented
<1>6. CreditInv'
  BY <1>2, <1>3, <1>5 DEF LedgerInv, CreditInv, NothingInvented
<1>7. QED
  BY <1>4, <1>6

LEMMA ReadLedger ==
    ASSUME LedgerInv, NEW p \in Procs, ReadUsage(p) \/ ReadForVerdict(p)
    PROVE  SplitsInv' /\ CreditInv'
<1>1. /\ pc \in [Procs -> Labels] /\ key \in [Procs -> Months] /\ month \in Months
      /\ seen \in [Procs -> Ledger] /\ used \in [Months -> Ledger]
      /\ file \in [Procs -> File]
      /\ entered \in [Procs -> [Months -> Nat]] /\ cost[p] \in Nat
  BY PendingCost DEF LedgerInv, Typed, TypeOK
<1>2. /\ UNCHANGED <<used, cost, file>>
      /\ seen'[p] = used[month] /\ key'[p] = month /\ pc'[p] \in {"write", "save"}
      /\ \A q \in Procs \ {p} : pc'[q] = pc[q] /\ key'[q] = key[q] /\ seen'[q] = seen[q]
  BY <1>1 DEF ReadUsage, ReadForVerdict, Goes, runVars
<1>3. /\ ReadForVerdict(p) => UNCHANGED entered /\ pc'[p] = "save"
      /\ ReadUsage(p) => \A q \in Procs, m \in Months :
            entered'[q][m] = IF q = p /\ m = month THEN entered[p][month] + cost[p]
                                                  ELSE entered[q][m]
  BY <1>1 DEF ReadUsage, ReadForVerdict, Goes, history
<1>4. \A q \in Procs, m \in Months : /\ entered[q][m] \in Nat /\ entered'[q][m] \in Nat
                                      /\ entered[q][m] <= entered'[q][m]
  BY <1>1, <1>3
<1>5. SplitsInv'
  BY <1>1, <1>2 DEF LedgerInv, SplitsInv, Adds
<1>6. \A q \in Procs, m \in Months : used[m].managers[q] \in Nat
  BY <1>1, LedgerFields
<1>7. \A q, r \in Procs : seen[q].managers[r] \in Nat /\ seen[q].managers[r] + cost[q] \in Nat
  BY <1>1, LedgerFields, PendingCost DEF LedgerInv, Typed
<1>8. NothingInvented'
  BY <1>2, <1>4, <1>6 DEF LedgerInv, CreditInv, NothingInvented
<1>80. \A q, r \in Procs, m \in Months : file'[q].used[m].managers[r] <= entered'[r][m]
  <2>1. \A q, r \in Procs, m \in Months : file[q].used[m].managers[r] \in Nat
    BY <1>1, LedgerFields DEF File
  <2>2. \A q, r \in Procs, m \in Months : file[q].used[m].managers[r] <= entered[r][m]
    BY DEF LedgerInv, CreditInv
  <2>3. QED
    BY <1>2, <1>4, <2>1, <2>2
<1>9. ASSUME NEW q \in Procs, pc'[q] \in Reading
      PROVE  /\ \A r \in Procs : seen'[q].managers[r] <= entered'[r][key'[q]]
             /\ pc'[q] \in {"write", "writing"} =>
                  seen'[q].managers[q] + cost'[q] <= entered'[q][key'[q]]
  <2>1. CASE q = p
    <3>1. \A r \in Procs : used[month].managers[r] <= entered[r][month]
      BY <1>1 DEF LedgerInv, CreditInv, NothingInvented
    <3>2. \A r \in Procs : seen'[p].managers[r] <= entered'[r][month]
      BY <1>1, <1>2, <1>4, <1>6, <3>1
    <3>3. ReadUsage(p) => used[month].managers[p] + cost[p] <= entered'[p][month]
      BY <1>1, <1>3, <1>6, <3>1
    <3>4. QED
      BY <1>2, <1>3, <2>1, <3>2, <3>3
  <2>2. CASE q # p
    <3>1. key[q] \in Months
      BY <1>1
    <3>2. /\ \A r \in Procs : seen[q].managers[r] <= entered[r][key[q]]
          /\ pc[q] \in {"write", "writing"} => seen[q].managers[q] + cost[q] <= entered[q][key[q]]
      BY <1>2, <1>9, <2>2 DEF LedgerInv, CreditInv
    <3>3. QED
      BY <1>2, <1>4, <1>7, <2>2, <3>1, <3>2
  <2>3. QED
    BY <2>1, <2>2
<1>10. {"write", "writing"} \subseteq Reading
  BY DEF Reading
<1>11. QED
  BY <1>5, <1>8, <1>80, <1>9, <1>10 DEF CreditInv

\* What a save of the whole file puts in its place, with ledger l for month k.
LEMMA SaveLedger ==
    ASSUME LedgerInv, NEW p \in Procs, NEW l, NEW k \in Months, NEW a,
           Adds(l), \A q \in Procs : l.managers[q] <= entered[q][k],
           SaveFile(p, [file[p].used EXCEPT ![k] = l], a),
           UNCHANGED <<cost, entered>>, pc'[p] \notin Reading,
           \A q \in Procs \ {p} : pc'[q] = pc[q] /\ seen'[q] = seen[q],
           Adds(seen'[p])
    PROVE  SplitsInv' /\ CreditInv'
<1>1. /\ file \in [Procs -> File] /\ key \in [Procs -> Months]
      /\ entered \in [Procs -> [Months -> Nat]]
  BY DEF LedgerInv, Typed, TypeOK
<1>2. /\ \A m \in Months : used'[m] = IF m = k THEN l ELSE file[p].used[m]
      /\ \A q \in Procs : file'[q] = IF q = p THEN NotRead ELSE file[q]
      /\ \A q \in Procs \ {p} : key'[q] = key[q]
  <2>1. file[p].used \in [Months -> Ledger]
    BY <1>1 DEF File
  <2>2. QED
    BY <1>1, <2>1 DEF SaveFile
<1>3. SplitsInv'
  <2>1. \A m \in Months : Adds(used'[m])
    BY <1>2 DEF LedgerInv, SplitsInv
  <2>2. \A q \in Procs, m \in Months : Adds(file'[q].used[m])
    BY <1>2, NotReadFields DEF LedgerInv, SplitsInv
  <2>3. \A q \in Procs : Adds(seen'[q])
    BY DEF LedgerInv, SplitsInv
  <2>4. QED
    BY <2>1, <2>2, <2>3 DEF SplitsInv, Adds
<1>4. NothingInvented'
  <2>1. \A q \in Procs, m \in Months : file[p].used[m].managers[q] <= entered[q][m]
    BY DEF LedgerInv, CreditInv
  <2>2. QED
    BY <1>2, <2>1 DEF NothingInvented
<1>5. \A q, r \in Procs, m \in Months : file'[q].used[m].managers[r] <= entered[r][m]
  BY <1>1, <1>2, NotReadFields DEF LedgerInv, CreditInv
<1>6. {"write", "writing"} \subseteq Reading
  BY DEF Reading
<1>7. CreditInv'
  BY <1>2, <1>4, <1>5, <1>6 DEF LedgerInv, CreditInv
<1>8. QED
  BY <1>3, <1>7

LEMMA WriteLedger ==
    ASSUME LedgerInv, NEW p \in Procs, WriteUsage(p) \/ SaveVerdict(p) \/ FlagAlert(p)
    PROVE  SplitsInv' /\ CreditInv'
<1> DEFINE v == [seen[p] EXCEPT !.verdicts = @ + 1]
<1>1. /\ pc \in [Procs -> Labels] /\ key[p] \in Months
      /\ seen \in [Procs -> Ledger] /\ file[p] \in File
  BY DEF LedgerInv, Typed, TypeOK
<1>2. Adds(v) /\ v.managers = seen[p].managers
  BY VerdictFields DEF LedgerInv, Typed, SplitsInv
<1>3. Adds(Added(p)) /\ \A q \in Procs : Added(p).managers[q] =
                 IF q = p THEN seen[p].managers[p] + cost[p] ELSE seen[p].managers[q]
  BY AddedFields DEF LedgerInv, Typed, SplitsInv
<1> HIDE DEF v
<1>4. CASE WriteUsage(p)
  <2>1. /\ SaveFile(p, [file[p].used EXCEPT ![key[p]] = Added(p)], file[p].alerted)
        /\ pc[p] = "writing" /\ pc' = [pc EXCEPT ![p] = "alert"]
        /\ seen' = [seen EXCEPT ![p] = NoUsage] /\ UNCHANGED <<cost, entered>>
    BY <1>4 DEF WriteUsage, Goes
  <2>2. \A q \in Procs : Added(p).managers[q] <= entered[q][key[p]]
    BY <1>3, <2>1 DEF LedgerInv, CreditInv, Reading
  <2>3. pc'[p] \notin Reading /\ \A q \in Procs \ {p} : pc'[q] = pc[q] /\ seen'[q] = seen[q]
    BY <1>1, <2>1 DEF Reading
  <2>4. Adds(seen'[p])
    BY <1>1, <2>1, NoUsageFields
  <2>5. QED
    BY <1>1, <1>3, <2>1, <2>2, <2>3, <2>4, SaveLedger
<1>5. CASE SaveVerdict(p)
  <2>1. /\ SaveFile(p, [file[p].used EXCEPT ![key[p]] = v], file[p].alerted)
        /\ pc[p] = "saving" /\ pc' = [pc EXCEPT ![p] = "idle"]
        /\ seen' = [seen EXCEPT ![p] = NoUsage] /\ UNCHANGED <<cost, entered>>
    BY <1>5 DEF SaveVerdict, Goes, v
  <2>2. \A q \in Procs : v.managers[q] <= entered[q][key[p]]
    BY <1>2, <2>1 DEF LedgerInv, CreditInv, Reading
  <2>3. pc'[p] \notin Reading /\ \A q \in Procs \ {p} : pc'[q] = pc[q] /\ seen'[q] = seen[q]
    BY <1>1, <2>1 DEF Reading
  <2>4. Adds(seen'[p])
    BY <1>1, <2>1, NoUsageFields
  <2>5. QED
    BY <1>1, <1>2, <2>1, <2>2, <2>3, <2>4, SaveLedger
<1>6. CASE FlagAlert(p)
  <2> DEFINE l == file[p].used[key[p]]
  <2>1. /\ SaveFile(p, file[p].used, file[p].alerted \cup {key[p]})
        /\ Charge(p) /\ UNCHANGED <<seen, entered>>
    BY <1>6 DEF FlagAlert
  <2>2. /\ UNCHANGED <<seen, entered>> /\ pc'[p] \notin Reading
        /\ \A q \in Procs \ {p} : pc'[q] = pc[q] /\ cost'[q] = cost[q] /\ key'[q] = key[q]
    <3>1. cost \in [Procs -> Costs \cup {0}] /\ key \in [Procs -> Months]
      BY DEF LedgerInv, Typed, TypeOK
    <3>2. Raised(p) \notin Reading /\ "work" \notin Reading
      BY DEF Raised, Reading
    <3>3. QED
      BY <1>1, <2>1, <3>1, <3>2 DEF Charge, Goes, SaveFile
  <2>3. /\ used' = file[p].used /\ \A q \in Procs : file'[q] = IF q = p THEN NotRead ELSE file[q]
    <3>1. file \in [Procs -> File]
      BY DEF LedgerInv, Typed, TypeOK
    <3>2. QED
      BY <2>1, <3>1 DEF SaveFile
  <2>4. SplitsInv'
    BY <2>2, <2>3, NotReadFields DEF LedgerInv, SplitsInv, Adds
  <2>5. \A q, r \in Procs, m \in Months : file'[q].used[m].managers[r] <= entered[r][m]
    <3>1. entered \in [Procs -> [Months -> Nat]]
      BY DEF LedgerInv, Typed, TypeOK
    <3>2. QED
      BY <2>3, <3>1, NotReadFields DEF LedgerInv, CreditInv
  <2>6. NothingInvented'
    BY <2>2, <2>3 DEF LedgerInv, CreditInv, NothingInvented
  <2>7. {"write", "writing"} \subseteq Reading
    BY DEF Reading
  <2>8. CreditInv'
    BY <2>2, <2>5, <2>6, <2>7 DEF LedgerInv, CreditInv
  <2>9. QED
    BY <2>4, <2>8
<1>7. QED
  BY <1>4, <1>5, <1>6

LEMMA NextLedgerInv == LedgerInv /\ [Next]_vars => LedgerInv'
<1>1. SUFFICES ASSUME LedgerInv, [Next]_vars PROVE SplitsInv' /\ CreditInv'
  BY NextTyped DEF LedgerInv
<1>2. CASE NewMonth \/ UNCHANGED vars
  BY <1>1, <1>2 DEF NewMonth, vars, history, LedgerInv, SplitsInv, Adds, CreditInv, NothingInvented
<1>3. ASSUME NEW p \in Procs, StartRun(p) \/ Step(p) \/ SaveFails(p) \/ Killed(p)
      PROVE  SplitsInv' /\ CreditInv'
  BY <1>1, <1>3, ForgetsLedger, LoadLedger, ReadLedger, WriteLedger
  DEF Step, Execute, Track, Forgets
<1>4. QED
  BY <1>1, <1>2, <1>3 DEF Next

LEMMA AlwaysLedgerInv == Spec => []LedgerInv
<1>1. ASSUME Init PROVE LedgerInv
  <2>1. \A p \in Procs : NoUsage.managers[p] = 0
    BY DEF NoUsage
  <2>2. SplitsInv
    BY <1>1, NoUsageFields, NotReadFields DEF Init, SplitsInv
  <2>3. CreditInv
    BY <1>1, <2>1, NotReadFields DEF Init, CreditInv, NothingInvented, Reading
  <2>4. QED
    BY <1>1, <2>2, <2>3, InitTyped DEF LedgerInv
<1>2. QED
  BY <1>1, NextLedgerInv, PTL DEF Spec

\* However many processes read, change and write the ledger of a month in
\* parallel, its total stays the sum of its categories, and no manager is ever
\* credited with more than it brought in that month.
THEOREM LedgerCorrect == Spec => []LedgerIsHonest
<1>1. LedgerInv => LedgerIsHonest
  BY DEF LedgerInv, SplitsInv, Adds, CreditInv, LedgerIsHonest, SplitsAddUp
<1>2. QED
  BY <1>1, AlwaysLedgerInv, PTL

-----------------------------------------------------------------------------
(* The caps of a run *)

Busy == {"read", "write", "writing", "alert", "post", "flag", "flagging"}

\* Every call but the missed one is a step, and so is every attempt.
StepsInv(p) ==
    /\ calls[p] + attempt[p] = steps[p] + missed[p]
    /\ missed[p] <= 1
    /\ missed[p] = 1 => pc[p] = "idle"
    /\ pc[p] \notin {"idle", "attempt"} \/ missed[p] = 1 => attempt[p] >= 1

\* A run that goes on has paid no more than its cap before the call at hand.
DollarsInv(p) ==
    /\ pc[p] # "idle" => spent[p] <= MaxUsd
    /\ pc[p] \in Busy => cost[p] \in Costs /\ billed[p] = spent[p] + cost[p]
    /\ pc[p] \notin Busy \cup {"idle"} => billed[p] = spent[p]
    /\ \E c \in Costs : billed[p] <= MaxUsd + c

CapsInv ==
    /\ Typed
    /\ \A p \in Procs \ Swallows : StepsInv(p)
    /\ \A p \in Procs \ (Swallows \cup Unpriced) : DollarsInv(p)

\* The variables of a process are its own.
LEMMA OthersKept ==
    ASSUME Typed, NEW p \in Procs, StartRun(p) \/ Step(p) \/ SaveFails(p) \/ Killed(p),
           NEW q \in Procs \ {p}
    PROVE  /\ pc'[q] = pc[q] /\ attempt'[q] = attempt[q] /\ steps'[q] = steps[q]
           /\ spent'[q] = spent[q] /\ cost'[q] = cost[q] /\ calls'[q] = calls[q]
           /\ billed'[q] = billed[q] /\ missed'[q] = missed[q]
<1>1. /\ pc \in [Procs -> Labels] /\ attempt \in [Procs -> 0..MaxAttempts]
      /\ steps \in [Procs -> 0..MaxSteps] /\ spent \in [Procs -> Nat]
      /\ cost \in [Procs -> Costs \cup {0}] /\ calls \in [Procs -> Nat]
      /\ billed \in [Procs -> Nat] /\ missed \in [Procs -> Nat]
  BY DEF Typed, TypeOK
<1>2. CASE StartRun(p) \/ SaveFails(p) \/ Killed(p) \/ LoadFile(p)
  BY <1>1, <1>2 DEF StartRun, SaveFails, Killed, LoadFile, Goes, runVars, history
<1>3. CASE Execute(p)
  BY <1>1, <1>3 DEF Execute, BeginAttempt, EndAttempt, ReadForVerdict, SaveVerdict, Goes,
                    runVars, history
<1>4. CASE Call(p)
  BY <1>1, <1>4 DEF Call, Goes
<1>5. CASE CheckBudget(p) \/ ReadUsage(p) \/ WriteUsage(p)
  BY <1>1, <1>5 DEF CheckBudget, ReadUsage, WriteUsage, Goes, runVars, history
<1>7. CASE Alert(p) \/ PostAlert(p) \/ FlagAlert(p)
  BY <1>1, <1>7 DEF Alert, PostAlert, FlagAlert, Charge, Goes, runVars, history
<1>6. QED
  BY <1>2, <1>3, <1>4, <1>5, <1>7 DEF Step, Track

\* The numbers of a process.
LEMMA OwnNumbers ==
    ASSUME Typed, NEW p \in Procs
    PROVE  /\ attempt[p] \in Nat /\ steps[p] \in Nat /\ spent[p] \in Nat /\ cost[p] \in Nat
           /\ calls[p] \in Nat /\ billed[p] \in Nat /\ missed[p] \in Nat /\ steps[p] <= MaxSteps
           /\ pc[p] \in Labels
BY PendingCost DEF Typed, TypeOK

LEMMA OwnSteps ==
    ASSUME CapsInv, NEW p \in Procs \ Swallows,
           StartRun(p) \/ Step(p) \/ SaveFails(p) \/ Killed(p)
    PROVE  StepsInv(p)'
<1>1. /\ pc \in [Procs -> Labels] /\ attempt \in [Procs -> 0..MaxAttempts]
      /\ steps \in [Procs -> 0..MaxSteps] /\ calls \in [Procs -> Nat]
      /\ missed \in [Procs -> Nat] /\ Typed /\ StepsInv(p) /\ Raised(p) = "idle"
  BY DEF CapsInv, Typed, TypeOK, Raised
<1>2. attempt[p] \in Nat /\ steps[p] \in Nat /\ calls[p] \in Nat /\ missed[p] \in Nat
  BY <1>1, OwnNumbers
<1>3. CASE StartRun(p)
  BY <1>1, <1>3 DEF StartRun, Goes, StepsInv
<1>4. CASE BeginAttempt(p)
  <2>1. CASE pc'[p] = "idle"
    BY <1>1, <1>2, <1>4, <2>1 DEF BeginAttempt, Goes, StepsInv, history
  <2>2. CASE pc'[p] # "idle"
    <3>1. /\ attempt'[p] = attempt[p] + 1 /\ steps'[p] = steps[p] + 1
          /\ calls' = calls /\ missed' = missed /\ pc[p] = "attempt" /\ pc'[p] = "work"
      BY <1>1, <1>4, <2>2 DEF BeginAttempt, Goes, history
    <3>2. QED
      BY <1>1, <1>2, <3>1 DEF StepsInv
  <2>3. QED
    BY <2>1, <2>2
<1>5. CASE Call(p)
  <2>1. calls'[p] = calls[p] + 1 /\ attempt' = attempt /\ pc[p] = "call"
    BY <1>1, <1>5 DEF Call
  <2>2. \/ missed'[p] = missed[p] + 1 /\ pc'[p] = "idle" /\ steps' = steps
        \/ missed' = missed /\ pc'[p] = "read" /\ steps'[p] = steps[p] + 1
    BY <1>1, <1>5 DEF Call, Goes
  <2>3. missed[p] = 0 /\ attempt[p] >= 1 /\ calls[p] + attempt[p] = steps[p]
    BY <1>1, <1>2, <2>1 DEF StepsInv
  <2>4. QED
    BY <1>2, <2>1, <2>2, <2>3 DEF StepsInv
<1>6. CASE SaveFails(p) \/ Killed(p)
  BY <1>1, <1>2, <1>6 DEF SaveFails, Killed, Goes, StepsInv, runVars, history
<1>7. CASE /\ Execute(p) \/ Track(p) \/ LoadFile(p)
           /\ ~BeginAttempt(p) /\ ~Call(p)
  <2>1. UNCHANGED <<attempt, steps, calls, missed>> /\ pc[p] \notin {"idle", "attempt"}
    BY <1>7 DEF Execute, EndAttempt, ReadForVerdict, SaveVerdict, Track, CheckBudget, ReadUsage,
                WriteUsage, Alert, PostAlert, FlagAlert, LoadFile, Saving, Goes, runVars, history
  <2>2. QED
    BY <1>1, <1>2, <2>1 DEF StepsInv
<1>8. QED
  BY <1>3, <1>4, <1>5, <1>6, <1>7 DEF Step

LEMMA OwnDollars ==
    ASSUME CapsInv, NEW p \in Procs \ (Swallows \cup Unpriced),
           StartRun(p) \/ Step(p) \/ SaveFails(p) \/ Killed(p)
    PROVE  DollarsInv(p)'
<1>1. /\ pc \in [Procs -> Labels] /\ spent \in [Procs -> Nat] /\ billed \in [Procs -> Nat]
      /\ cost \in [Procs -> Costs \cup {0}]
      /\ Typed /\ DollarsInv(p) /\ Raised(p) = "idle"
  BY DEF CapsInv, Typed, TypeOK, Raised
<1>2. spent[p] \in Nat /\ cost[p] \in Nat /\ billed[p] \in Nat
  BY <1>1, OwnNumbers
<1>3. CASE StartRun(p)
  <2>1. pc'[p] = "attempt" /\ spent'[p] = 0 /\ billed'[p] = 0
    BY <1>1, <1>3 DEF StartRun, Goes
  <2>2. \E c \in Costs : c \in Nat
    BY CostsAssumption, CostsAreNumbers
  <2>3. QED
    BY <2>1, <2>2 DEF DollarsInv, Busy
<1>4. CASE Execute(p)
  <2>1. /\ UNCHANGED <<spent, billed, cost>>
        /\ pc[p] \notin Busy /\ pc'[p] \notin Busy /\ pc[p] # "idle"
    BY <1>1, <1>4 DEF Execute, BeginAttempt, EndAttempt, ReadForVerdict, SaveVerdict, Goes, Busy,
                      runVars, history
  <2>2. QED
    BY <1>1, <2>1 DEF DollarsInv
<1>5. CASE Call(p)
  <2>1. PICK c \in Costs : billed'[p] = billed[p] + c /\ cost'[p] = c
    BY <1>1, <1>5 DEF Call
  <2>2. pc[p] = "call" /\ pc'[p] \in {"idle", "read"} /\ spent' = spent
    BY <1>1, <1>5 DEF Call, Goes
  <2>3. c \in Nat /\ c > 0
    BY CostsAreNumbers
  <2>4. billed[p] = spent[p] /\ spent[p] <= MaxUsd
    BY <1>1, <1>2, <2>2 DEF DollarsInv, Busy
  <2>5. QED
    BY <1>2, <2>1, <2>2, <2>3, <2>4 DEF DollarsInv, Busy
<1>6. CASE Charge(p) /\ pc[p] \in Busy /\ billed' = billed
  <2>1. /\ spent'[p] = spent[p] + cost[p]
        /\ pc'[p] \in {"idle", "work"}
        /\ pc'[p] = "work" => ~(cost[p] > 0 /\ spent'[p] > MaxUsd)
    BY <1>1, <1>6 DEF Charge, Goes
  <2>2. billed[p] = spent[p] + cost[p] /\ cost[p] > 0 /\ \E c \in Costs : billed[p] <= MaxUsd + c
    BY <1>1, <1>6, CostsAreNumbers DEF DollarsInv
  <2>3. QED
    BY <1>2, <1>6, <2>1, <2>2 DEF DollarsInv, Busy
<1>7. CASE pc'[p] = "idle" /\ billed' = billed
  BY <1>1, <1>7 DEF DollarsInv, Busy
<1>8. CASE /\ UNCHANGED <<spent, billed, cost>> /\ pc[p] # "idle" /\ pc'[p] # "idle"
           /\ (pc'[p] \in Busy) <=> (pc[p] \in Busy)
  BY <1>1, <1>8 DEF DollarsInv
<1>9. CASE SaveFails(p) \/ Killed(p)
  <2>1. UNCHANGED billed /\ pc'[p] = "idle"
    BY <1>1, <1>9 DEF SaveFails, Killed, Goes, history
  <2>2. QED
    BY <1>7, <2>1
<1>10. CASE LoadFile(p)
  <2>1. UNCHANGED <<spent, billed, cost>> /\ pc[p] \in {"write", "flag", "save"}
        /\ pc'[p] = Saving[pc[p]]
    BY <1>1, <1>10 DEF LoadFile, Saving, Goes, runVars, history
  <2>2. QED
    BY <1>8, <2>1 DEF Saving, Busy
<1>11. CASE CheckBudget(p)
  <2>1. UNCHANGED <<spent, billed, cost>> /\ pc[p] = "work" /\ pc'[p] \in {"idle", "call"}
    BY <1>1, <1>11 DEF CheckBudget, Goes, history
  <2>2. QED
    BY <1>7, <1>8, <2>1 DEF Busy
<1>12. CASE ReadUsage(p) \/ WriteUsage(p)
  <2>1. UNCHANGED <<spent, billed, cost>> /\ pc[p] \in {"read", "writing"}
        /\ pc'[p] \in {"write", "alert"}
    BY <1>1, <1>12 DEF ReadUsage, WriteUsage, Goes, runVars
  <2>2. QED
    BY <1>8, <2>1 DEF Busy
<1>13. CASE Alert(p)
  <2>1. pc[p] = "alert" /\ billed' = billed
    BY <1>13 DEF Alert, history
  <2>2. Charge(p) \/ (pc'[p] = "post" /\ UNCHANGED <<spent, cost>>)
    BY <1>1, <1>13 DEF Alert, Goes
  <2>3. QED
    BY <1>6, <1>8, <2>1, <2>2 DEF Busy
<1>14. CASE PostAlert(p)
  <2>1. pc[p] = "post" /\ UNCHANGED <<spent, billed>>
    BY <1>14 DEF PostAlert, runVars
  <2>2. pc'[p] = "idle" \/ (pc'[p] = "flag" /\ UNCHANGED cost)
    BY <1>1, <1>14 DEF PostAlert, Goes
  <2>3. QED
    BY <1>7, <1>8, <2>1, <2>2 DEF Busy
<1>15. CASE FlagAlert(p)
  <2>1. pc[p] = "flagging" /\ billed' = billed /\ Charge(p)
    BY <1>15 DEF FlagAlert
  <2>2. QED
    BY <1>6, <2>1 DEF Busy
<1>16. QED
  BY <1>3, <1>4, <1>5, <1>9, <1>10, <1>11, <1>12, <1>13, <1>14, <1>15 DEF Step, Track

LEMMA NextCapsInv == CapsInv /\ [Next]_vars => CapsInv'
<1>1. SUFFICES ASSUME CapsInv, [Next]_vars
               PROVE  /\ \A p \in Procs \ Swallows : StepsInv(p)'
                      /\ \A p \in Procs \ (Swallows \cup Unpriced) : DollarsInv(p)'
  BY NextTyped DEF CapsInv
<1>2. CASE NewMonth \/ UNCHANGED vars
  BY <1>1, <1>2 DEF NewMonth, vars, runVars, history, CapsInv, StepsInv, DollarsInv
<1>3. ASSUME NEW p \in Procs, StartRun(p) \/ Step(p) \/ SaveFails(p) \/ Killed(p)
      PROVE  /\ \A q \in Procs \ Swallows : StepsInv(q)'
             /\ \A q \in Procs \ (Swallows \cup Unpriced) : DollarsInv(q)'
  <2>1. ASSUME NEW q \in Procs \ Swallows PROVE StepsInv(q)'
    <3>1. CASE q = p
      BY <1>1, <1>3, <3>1, OwnSteps
    <3>2. CASE q # p
      <4>1. StepsInv(q)
        BY <1>1 DEF CapsInv
      <4>2. QED
        BY <1>1, <1>3, <3>2, <4>1, OthersKept DEF CapsInv, StepsInv
    <3>3. QED
      BY <3>1, <3>2
  <2>2. ASSUME NEW q \in Procs \ (Swallows \cup Unpriced) PROVE DollarsInv(q)'
    <3>1. CASE q = p
      BY <1>1, <1>3, <3>1, OwnDollars
    <3>2. CASE q # p
      <4>1. DollarsInv(q)
        BY <1>1 DEF CapsInv
      <4>2. QED
        BY <1>1, <1>3, <3>2, <4>1, OthersKept DEF CapsInv, DollarsInv
    <3>3. QED
      BY <3>1, <3>2
  <2>3. QED
    BY <2>1, <2>2
<1>4. QED
  BY <1>1, <1>2, <1>3 DEF Next

LEMMA AlwaysCapsInv == Spec => []CapsInv
<1>1. ASSUME Init PROVE CapsInv
  <2>1. \E c \in Costs : c \in Nat
    BY CostsAssumption, CostsAreNumbers
  <2>2. QED
    BY <1>1, <2>1, InitTyped DEF Init, CapsInv, StepsInv, DollarsInv, Zero, Busy
<1>2. QED
  BY <1>1, NextCapsInv, PTL DEF Spec

\* Wherever a run stops, its calls are within its step cap, its price is within
\* one call of its dollar cap, and at most one of its calls is billed without
\* being recorded, unless its agent swallows exceptions.
THEOREM CapsCorrect == Spec => []CapsHold
<1>1. ASSUME CapsInv PROVE CapsHold
  <2>1. SUFFICES ASSUME NEW p \in Procs \ Swallows
                 PROVE  /\ calls[p] <= MaxSteps
                        /\ missed[p] <= 1
                        /\ p \notin Unpriced => \E c \in Costs : billed[p] <= MaxUsd + c
    BY DEF CapsHold
  <2>2. calls[p] <= MaxSteps /\ missed[p] <= 1
    BY <1>1, OwnNumbers DEF CapsInv, StepsInv
  <2>3. p \notin Unpriced => \E c \in Costs : billed[p] <= MaxUsd + c
    BY <1>1 DEF CapsInv, DollarsInv
  <2>4. QED
    BY <2>2, <2>3
<1>2. QED
  BY <1>1, AlwaysCapsInv, PTL

-----------------------------------------------------------------------------
(* The alert *)

Posts == {"post"}
Flags == {"flag", "flagging"}

\* Processes at one of the labels L with the alert of month m.
At(L, m) == {p \in Procs : pc[p] \in L /\ key[p] = m}

\* The alerts of month m that its dropped keys account for.
Allowed(m) == Cardinality(Procs) * dropped[m]

\* Before the month is flagged every alert sent has a process that is about to
\* flag it, or died or failed with it; after it, only those that had seen no flag
\* send more, until a save takes the flag away again.
AlertInv ==
    \A m \in Months :
        /\ m \notin alerted => sent[m] <= Allowed(m) + Cardinality(At(Flags, m)) + faults
        /\ m \in alerted =>
             sent[m] + Cardinality(At(Posts, m)) <= Allowed(m) + Cardinality(Procs) + faults

LEMMA OneMoreTime == \A n, d \in Nat : n * d \in Nat /\ n * (d + 1) = n * d + n
OBVIOUS

LEMMA AtFinite ==
    ASSUME IsFiniteSet(Procs), NEW L, NEW m
    PROVE  /\ IsFiniteSet(At(L, m)) /\ Cardinality(At(L, m)) \in Nat
           /\ Cardinality(At(L, m)) <= Cardinality(Procs) /\ Cardinality(Procs) \in Nat
           /\ \A p \in At(L, m) : Cardinality(At(L, m) \ {p}) = Cardinality(At(L, m)) - 1
           /\ \A p : p \notin At(L, m) => Cardinality(At(L, m) \cup {p}) = Cardinality(At(L, m)) + 1
<1>1. At(L, m) \in SUBSET Procs
  BY DEF At
<1>2. IsFiniteSet(At(L, m)) /\ Cardinality(At(L, m)) <= Cardinality(Procs)
  BY <1>1, FS_Subset
<1>3. Cardinality(At(L, m)) \in Nat /\ Cardinality(Procs) \in Nat
  BY <1>2, FS_CardinalityType
<1>4. \A p \in At(L, m) : Cardinality(At(L, m) \ {p}) = Cardinality(At(L, m)) - 1
  BY <1>2, FS_RemoveElement
<1>5. \A p : p \notin At(L, m) => Cardinality(At(L, m) \cup {p}) = Cardinality(At(L, m)) + 1
  BY <1>2, FS_AddElement
<1>6. QED
  BY <1>2, <1>3, <1>4, <1>5

\* Those about to send and those about to flag are no more than all processes.
LEMMA AtDisjoint ==
    ASSUME IsFiniteSet(Procs), NEW m
    PROVE  Cardinality(At(Flags, m)) + Cardinality(At(Posts, m)) <= Cardinality(Procs)
<1>1. At(Flags, m) \cap At(Posts, m) = {} /\ At(Flags, m) \cup At(Posts, m) \in SUBSET Procs
  BY DEF At, Flags, Posts
<1>2. IsFiniteSet(At(Flags, m)) /\ IsFiniteSet(At(Posts, m))
  BY AtFinite
<1>3. Cardinality(At(Flags, m) \cup At(Posts, m)) <= Cardinality(Procs)
  BY <1>1, FS_Subset
<1>4. Cardinality(At(Flags, m) \cup At(Posts, m)) =
        Cardinality(At(Flags, m)) + Cardinality(At(Posts, m)) - Cardinality({})
  BY <1>1, <1>2, FS_Union
<1>5. Cardinality({}) = 0
  BY FS_EmptySet
<1>6. Cardinality(At(Flags, m)) \in Nat /\ Cardinality(At(Posts, m)) \in Nat
  BY AtFinite
<1>7. QED
  BY <1>3, <1>4, <1>5, <1>6

\* The numbers of a month.
LEMMA MonthNumbers ==
    ASSUME IsFiniteSet(Procs), Typed, NEW m \in Months
    PROVE  /\ sent[m] \in Nat /\ faults \in Nat /\ dropped[m] \in Nat /\ Allowed(m) \in Nat
           /\ Cardinality(Procs) \in Nat
           /\ Cardinality(At(Flags, m)) \in Nat /\ Cardinality(At(Posts, m)) \in Nat
           /\ Cardinality(At(Flags, m)) + Cardinality(At(Posts, m)) <= Cardinality(Procs)
<1>1. sent \in [Months -> Nat] /\ faults \in 0..MaxFaults /\ dropped \in [Months -> Nat]
  BY DEF Typed, TypeOK
<1>2. Cardinality(Procs) \in Nat
  BY AtFinite
<1>3. Allowed(m) \in Nat
  BY <1>1, <1>2, OneMoreTime DEF Allowed
<1>4. QED
  BY <1>1, <1>2, <1>3, AtFinite, AtDisjoint

\* A step that takes no process to, or from, the alert.
LEMMA AlertAside ==
    ASSUME IsFiniteSet(Procs), Typed, AlertInv,
           UNCHANGED <<alerted, sent, dropped, faults>>,
           \A m \in Months : At(Flags, m)' = At(Flags, m),
           \A m \in Months : m \in alerted => At(Posts, m)' = At(Posts, m)
    PROVE  AlertInv'
BY DEF AlertInv, Allowed

\* A step of a process that sends the alert, or fails.
LEMMA PostStep ==
    ASSUME IsFiniteSet(Procs), Typed, AlertInv, NEW p \in Procs, PostAlert(p)
    PROVE  AlertInv'
<1>1. /\ pc \in [Procs -> Labels] /\ key \in [Procs -> Months] /\ pc[p] = "post"
      /\ UNCHANGED <<alerted, dropped>>
      /\ sent' \in {sent, [sent EXCEPT ![key[p]] = @ + 1]}
      /\ \A q \in Procs \ {p} : pc'[q] = pc[q] /\ key'[q] = key[q]
  BY DEF PostAlert, Goes, Typed, TypeOK
<1>2. \/ pc'[p] = "flag" /\ key' = key /\ faults' = faults
      \/ pc'[p] \in {"work", "idle"} /\ faults' = faults + 1
  BY <1>1 DEF PostAlert, Goes, Raised
<1>3. SUFFICES ASSUME NEW m \in Months
               PROVE  /\ m \notin alerted =>
                           sent'[m] <= Allowed(m) + Cardinality(At(Flags, m)') + faults'
                      /\ m \in alerted =>
                           sent'[m] + Cardinality(At(Posts, m)')
                             <= Allowed(m) + Cardinality(Procs) + faults'
  BY <1>1 DEF AlertInv, Allowed
<1>4. /\ m \notin alerted => sent[m] <= Allowed(m) + Cardinality(At(Flags, m)) + faults
      /\ m \in alerted =>
           sent[m] + Cardinality(At(Posts, m)) <= Allowed(m) + Cardinality(Procs) + faults
  BY DEF AlertInv
<1>5. /\ sent[m] \in Nat /\ faults \in Nat /\ Allowed(m) \in Nat /\ Cardinality(Procs) \in Nat
      /\ Cardinality(At(Flags, m)) \in Nat /\ Cardinality(At(Posts, m)) \in Nat
  BY MonthNumbers
<1>6. CASE m # key[p]
  <2>1. At(Flags, m)' = At(Flags, m) /\ At(Posts, m)' = At(Posts, m)
    BY <1>1, <1>2, <1>6 DEF At, Flags, Posts
  <2>2. sent'[m] = sent[m] /\ faults' \in {faults, faults + 1}
    BY <1>1, <1>2, <1>6 DEF Typed, TypeOK
  <2>3. QED
    BY <1>4, <1>5, <2>1, <2>2
<1>7. CASE m = key[p]
  <2>1. sent'[m] \in {sent[m], sent[m] + 1}
    BY <1>1, <1>7 DEF Typed, TypeOK
  <2>2. At(Posts, m)' = At(Posts, m) \ {p} /\ p \in At(Posts, m)
    BY <1>1, <1>2, <1>7 DEF At, Posts
  <2>3. Cardinality(At(Posts, m)') = Cardinality(At(Posts, m)) - 1
    BY <2>2, AtFinite
  <2>4. p \notin At(Flags, m)
    BY <1>1 DEF At, Flags
  <2>5. CASE pc'[p] = "flag" /\ key' = key /\ faults' = faults
    <3>1. At(Flags, m)' = At(Flags, m) \cup {p}
      BY <1>1, <1>7, <2>5 DEF At, Flags
    <3>2. Cardinality(At(Flags, m)') = Cardinality(At(Flags, m)) + 1
      BY <2>4, <3>1, AtFinite
    <3>3. QED
      BY <1>4, <1>5, <2>1, <2>3, <2>5, <3>2
  <2>6. CASE pc'[p] \in {"work", "idle"} /\ faults' = faults + 1
    <3>1. At(Flags, m)' = At(Flags, m)
      BY <1>1, <2>4, <2>6 DEF At, Flags
    <3>2. QED
      BY <1>4, <1>5, <2>1, <2>3, <2>6, <3>1
  <2>7. QED
    BY <1>2, <2>5, <2>6
<1>8. QED
  BY <1>6, <1>7

\* A save of the whole file by a process that has sent nothing it does not flag.
LEMMA SaveStep ==
    ASSUME IsFiniteSet(Procs), Typed, AlertInv, NEW p \in Procs, NEW u, NEW a,
           SaveFile(p, u, a), UNCHANGED <<sent, faults>>,
           pc[p] # "post", pc'[p] \notin {"post", "flag", "flagging"},
           \A q \in Procs \ {p} : pc'[q] = pc[q],
           \A m \in Months \ a : p \notin At(Flags, m)
    PROVE  AlertInv'
<1>1. /\ alerted' = a /\ dropped' = [m \in Months |-> dropped[m] + IF m \in alerted \ a THEN 1 ELSE 0]
      /\ \A q \in Procs \ {p} : key'[q] = key[q]
  BY DEF SaveFile, Typed, TypeOK
<1>2. SUFFICES ASSUME NEW m \in Months
               PROVE  /\ m \notin a => sent[m] <= Allowed(m)' + Cardinality(At(Flags, m)') + faults
                      /\ m \in a => sent[m] + Cardinality(At(Posts, m)')
                                      <= Allowed(m)' + Cardinality(Procs) + faults
  BY <1>1 DEF AlertInv
<1>3. /\ m \notin alerted => sent[m] <= Allowed(m) + Cardinality(At(Flags, m)) + faults
      /\ m \in alerted =>
           sent[m] + Cardinality(At(Posts, m)) <= Allowed(m) + Cardinality(Procs) + faults
  BY DEF AlertInv
<1>4. /\ sent[m] \in Nat /\ faults \in Nat /\ dropped[m] \in Nat /\ Allowed(m) \in Nat
      /\ Cardinality(Procs) \in Nat
      /\ Cardinality(At(Flags, m)) \in Nat /\ Cardinality(At(Posts, m)) \in Nat
      /\ Cardinality(At(Flags, m)) + Cardinality(At(Posts, m)) <= Cardinality(Procs)
  BY MonthNumbers
<1>5. At(Posts, m)' = At(Posts, m)
  BY <1>1 DEF At, Posts
<1>6. CASE m \in a
  <2>1. dropped'[m] = dropped[m]
    BY <1>1, <1>4, <1>6
  <2>2. Allowed(m)' = Allowed(m)
    BY <2>1 DEF Allowed
  <2>3. sent[m] + Cardinality(At(Posts, m)) <= Allowed(m) + Cardinality(Procs) + faults
    BY <1>3, <1>4
  <2>4. QED
    BY <1>5, <1>6, <2>2, <2>3
<1>7. CASE m \notin a /\ m \notin alerted
  <2>1. dropped'[m] = dropped[m]
    BY <1>1, <1>4, <1>7
  <2>2. Allowed(m)' = Allowed(m)
    BY <2>1 DEF Allowed
  <2>3. At(Flags, m)' = At(Flags, m)
    BY <1>1, <1>7 DEF At, Flags
  <2>4. QED
    BY <1>3, <1>7, <2>2, <2>3
<1>8. CASE m \notin a /\ m \in alerted
  <2>1. dropped'[m] = dropped[m] + 1
    BY <1>1, <1>8
  <2>2. Allowed(m)' = Allowed(m) + Cardinality(Procs)
    BY <1>4, <2>1, OneMoreTime DEF Allowed
  <2>3. Cardinality(At(Flags, m)') \in Nat
    <3>1. At(Flags, m)' \in SUBSET Procs
      BY DEF At
    <3>2. QED
      BY <3>1, FS_Subset, FS_CardinalityType
  <2>4. QED
    BY <1>3, <1>4, <1>8, <2>2, <2>3
<1>9. QED
  BY <1>6, <1>7, <1>8

LEMMA SavesStep ==
    ASSUME IsFiniteSet(Procs), Typed, AlertInv, NEW p \in Procs,
           WriteUsage(p) \/ SaveVerdict(p) \/ FlagAlert(p)
    PROVE  AlertInv'
<1>1. pc \in [Procs -> Labels]
  BY DEF Typed, TypeOK
<1>2. CASE WriteUsage(p)
  <2>1. /\ SaveFile(p, [file[p].used EXCEPT ![key[p]] = Added(p)], file[p].alerted)
        /\ UNCHANGED <<sent, faults>> /\ pc[p] = "writing" /\ pc'[p] = "alert"
        /\ \A q \in Procs \ {p} : pc'[q] = pc[q]
    BY <1>1, <1>2 DEF WriteUsage, Goes
  <2>2. \A m : p \notin At(Flags, m)
    BY <2>1 DEF At, Flags
  <2>3. QED
    BY <2>1, <2>2, SaveStep
<1>3. CASE SaveVerdict(p)
  <2>1. /\ SaveFile(p, [file[p].used EXCEPT ![key[p]] = [seen[p] EXCEPT !.verdicts = @ + 1]],
                    file[p].alerted)
        /\ UNCHANGED <<sent, faults>> /\ pc[p] = "saving" /\ pc'[p] = "idle"
        /\ \A q \in Procs \ {p} : pc'[q] = pc[q]
    BY <1>1, <1>3 DEF SaveVerdict, Goes
  <2>2. \A m : p \notin At(Flags, m)
    BY <2>1 DEF At, Flags
  <2>3. QED
    BY <2>1, <2>2, SaveStep
<1>4. CASE FlagAlert(p)
  <2>1. /\ SaveFile(p, file[p].used, file[p].alerted \cup {key[p]})
        /\ UNCHANGED <<sent, faults>> /\ pc[p] = "flagging" /\ Charge(p)
    BY <1>4 DEF FlagAlert
  <2>2. pc'[p] \in {"work", "idle"} /\ \A q \in Procs \ {p} : pc'[q] = pc[q]
    BY <1>1, <2>1 DEF Charge, Goes, Raised
  <2>3. \A m \in Months \ (file[p].alerted \cup {key[p]}) : p \notin At(Flags, m)
    BY DEF At
  <2>4. QED
    BY <2>1, <2>2, <2>3, SaveStep
<1>5. QED
  BY <1>2, <1>3, <1>4

LEMMA KilledStep ==
    ASSUME IsFiniteSet(Procs), Typed, AlertInv, NEW p \in Procs, SaveFails(p) \/ Killed(p)
    PROVE  AlertInv'
<1>1. /\ UNCHANGED <<sent, alerted, dropped>> /\ faults' = faults + 1
      /\ pc'[p] \in {"work", "idle"}
      /\ \A q \in Procs \ {p} : pc'[q] = pc[q] /\ key'[q] = key[q]
  BY DEF SaveFails, Killed, Goes, Raised, Typed, TypeOK, history
<1>2. SUFFICES ASSUME NEW m \in Months
               PROVE  /\ m \notin alerted =>
                           sent[m] <= Allowed(m) + Cardinality(At(Flags, m)') + faults'
                      /\ m \in alerted =>
                           sent[m] + Cardinality(At(Posts, m)')
                             <= Allowed(m) + Cardinality(Procs) + faults'
  BY <1>1 DEF AlertInv, Allowed
<1>3. /\ Cardinality(At(Flags, m)) \in Nat /\ Cardinality(At(Posts, m)) \in Nat
      /\ Cardinality(Procs) \in Nat /\ sent[m] \in Nat /\ faults \in Nat /\ Allowed(m) \in Nat
  BY MonthNumbers
<1>4. ASSUME NEW L \in {Flags, Posts}
      PROVE  Cardinality(At(L, m)') \in {Cardinality(At(L, m)), Cardinality(At(L, m)) - 1}
  <2>1. At(L, m)' = At(L, m) \ {p}
    BY <1>1, <1>4 DEF At, Flags, Posts
  <2>2. p \notin At(L, m) => At(L, m) \ {p} = At(L, m)
    OBVIOUS
  <2>3. QED
    BY <2>1, <2>2, AtFinite
<1>5. /\ m \notin alerted => sent[m] <= Allowed(m) + Cardinality(At(Flags, m)) + faults
      /\ m \in alerted =>
           sent[m] + Cardinality(At(Posts, m)) <= Allowed(m) + Cardinality(Procs) + faults
  BY DEF AlertInv
<1>6. Cardinality(At(Flags, m)') \in {Cardinality(At(Flags, m)), Cardinality(At(Flags, m)) - 1}
  BY <1>4
<1>7. Cardinality(At(Posts, m)') \in {Cardinality(At(Posts, m)), Cardinality(At(Posts, m)) - 1}
  BY <1>4
<1>8. QED
  BY <1>1, <1>3, <1>5, <1>6, <1>7

\* The other steps of a process bring it to the alert only where no flag is.
LEMMA OtherStep ==
    ASSUME IsFiniteSet(Procs), Typed, AlertInv, NEW p \in Procs,
           StartRun(p) \/ Step(p), ~PostAlert(p), ~WriteUsage(p), ~SaveVerdict(p), ~FlagAlert(p)
    PROVE  AlertInv'
<1>1. pc \in [Procs -> Labels] /\ key \in [Procs -> Months]
  BY DEF Typed, TypeOK
<1>2. CASE LoadFile(p)
  <2>1. /\ UNCHANGED <<alerted, sent, dropped, faults, key>>
        /\ pc[p] \in {"write", "flag", "save"} /\ pc' = [pc EXCEPT ![p] = Saving[pc[p]]]
    BY <1>2 DEF LoadFile, Saving, Goes, history
  <2>2. \A L \in {Flags, Posts} : \A q \in Procs : pc'[q] \in L <=> pc[q] \in L
    BY <1>1, <2>1 DEF Saving, Flags, Posts
  <2>3. \A L \in {Flags, Posts}, m \in Months : At(L, m)' = At(L, m)
    BY <2>1, <2>2 DEF At
  <2>4. QED
    BY <2>1, <2>3, AlertAside
<1>3. CASE ~LoadFile(p)
  <2>1. /\ UNCHANGED <<alerted, sent, dropped, faults>>
        /\ pc[p] \notin Posts \cup Flags
        /\ pc'[p] \notin Flags
        /\ pc'[p] \in Posts => key'[p] \notin alerted
        /\ \A q \in Procs \ {p} : pc'[q] = pc[q] /\ key'[q] = key[q]
    <3>1. CASE StartRun(p)
      BY <1>1, <3>1 DEF StartRun, Goes, Posts, Flags
    <3>2. CASE BeginAttempt(p) \/ EndAttempt(p) \/ ReadForVerdict(p)
      BY <1>1, <3>2 DEF BeginAttempt, EndAttempt, ReadForVerdict, Goes, Posts, Flags, runVars, history
    <3>3. CASE CheckBudget(p) \/ Call(p)
      BY <1>1, <3>3 DEF CheckBudget, Call, Goes, Posts, Flags, Raised, history
    <3>4. CASE ReadUsage(p)
      BY <1>1, <3>4 DEF ReadUsage, Goes, Posts, Flags
    <3>5. CASE Alert(p)
      <4>1. /\ UNCHANGED <<alerted, sent, dropped, faults>> /\ pc[p] = "alert"
        BY <3>5 DEF Alert, history
      <4>2. CASE pc' = [pc EXCEPT ![p] = "post"] /\ key' = [key EXCEPT ![p] = month] /\ month \notin alerted
        BY <1>1, <4>1, <4>2 DEF Posts, Flags
      <4>3. CASE Charge(p) /\ UNCHANGED key
        BY <1>1, <4>1, <4>3 DEF Charge, Goes, Raised, Posts, Flags
      <4>4. QED
        BY <3>5, <4>2, <4>3 DEF Alert, Goes
    <3>6. QED
      BY <1>3, <3>1, <3>2, <3>3, <3>4, <3>5 DEF Step, Execute, Track
  <2>2. ASSUME NEW m \in Months PROVE At(Flags, m)' = At(Flags, m)
    BY <2>1 DEF At
  <2>3. ASSUME NEW m \in Months, m \in alerted PROVE At(Posts, m)' = At(Posts, m)
    BY <2>1, <2>3 DEF At
  <2>4. QED
    BY <2>1, <2>2, <2>3, AlertAside
<1>4. QED
  BY <1>2, <1>3

LEMMA NextAlertInv ==
    ASSUME IsFiniteSet(Procs), Typed, AlertInv, [Next]_vars
    PROVE  AlertInv'
<1>1. CASE NewMonth \/ UNCHANGED vars
  <2>1. UNCHANGED <<pc, key, alerted, sent, dropped, faults>>
    BY <1>1 DEF NewMonth, vars, history
  <2>2. \A L, m : At(L, m)' = At(L, m)
    BY <2>1 DEF At
  <2>3. QED
    BY <2>1, <2>2, AlertAside
<1>2. QED
  BY <1>1, PostStep, SavesStep, KilledStep, OtherStep DEF Next

\* A month is alerted once by each process, once more by each for every save that
\* took the alert key away, and once more for each failed post or save and killed
\* process, although the key is set after the post and several processes look for it.
THEOREM AlertCorrect ==
  ASSUME IsFiniteSet(Procs)
  PROVE  Spec => []AlertedOnce
<1>1. ASSUME Init PROVE AlertInv
  <2>1. SUFFICES ASSUME NEW m \in Months
                 PROVE  sent[m] <= Allowed(m) + Cardinality(At(Flags, m)) + faults /\ m \notin alerted
    BY DEF AlertInv
  <2>2. Cardinality(At(Flags, m)) \in Nat /\ Allowed(m) \in Nat /\ faults \in Nat
    BY <1>1, InitTyped, MonthNumbers
  <2>3. QED
    BY <1>1, <2>2 DEF Init
<1>2. Typed /\ AlertInv /\ [Next]_vars => AlertInv'
  BY NextAlertInv
<1>3. ASSUME Typed, AlertInv PROVE AlertedOnce
  <2>1. SUFFICES ASSUME NEW m \in Months
                 PROVE  sent[m] <= Cardinality(Procs) * (dropped[m] + 1) + faults
    BY DEF AlertedOnce
  <2>2. /\ Cardinality(At(Flags, m)) \in Nat /\ Cardinality(At(Posts, m)) \in Nat
        /\ Cardinality(At(Flags, m)) + Cardinality(At(Posts, m)) <= Cardinality(Procs)
        /\ Cardinality(Procs) \in Nat /\ sent[m] \in Nat /\ faults \in Nat
        /\ Allowed(m) \in Nat /\ dropped[m] \in Nat
    BY <1>3, MonthNumbers
  <2>3. /\ m \notin alerted => sent[m] <= Allowed(m) + Cardinality(At(Flags, m)) + faults
        /\ m \in alerted =>
             sent[m] + Cardinality(At(Posts, m)) <= Allowed(m) + Cardinality(Procs) + faults
    BY <1>3 DEF AlertInv
  <2>4. Cardinality(Procs) * (dropped[m] + 1) = Allowed(m) + Cardinality(Procs)
    BY <2>2, OneMoreTime DEF Allowed
  <2>5. QED
    BY <2>2, <2>3, <2>4
<1>4. QED
  BY <1>1, <1>2, <1>3, AlwaysTyped, PTL DEF Spec

=============================================================================
