----------------------------- MODULE LLMBudget ------------------------------
(***************************************************************************)
(* What LLM calls cost is capped twice: a run of an agent has caps of its  *)
(* own (llm/run_budget.py, counters in memory), and all processes share    *)
(* the budget of the month, whose usage ledger is one key of state.json    *)
(* (llm/budget.py).  BaseAgent.execute drives a run; llm/tracking.py is    *)
(* called after each SDK call.                                             *)
(*                                                                         *)
(* Each process is a manager that runs one agent at a time.  A step ends   *)
(* where the program reads or writes state.json or calls a service.  A set *)
(* of one key is two steps, since it loads the whole file and then saves   *)
(* the whole file: what others saved in between is undone, the keys of     *)
(* other months and alerts included.  The budget is enabled with hard_stop.*)
(***************************************************************************)
EXTENDS Naturals, FiniteSets

CONSTANTS
    Procs,       \* managers, each with an agent
    Builders,    \* those whose agent is of the category "builder"
    Unpriced,    \* those whose model has no known rate
    Swallows,    \* those whose agent catches every exception of a call
    Unchecked,   \* those that name their model: no budget is checked for them
    Costs,       \* what one call may cost
    Limit,       \* monthly_usd
    Threshold,   \* alert_threshold_percent of it
    MaxUsd,      \* max_usd_per_run
    MaxSteps,    \* max_steps_per_run
    MaxAttempts, \* max_iterations
    MaxItems,    \* calls one attempt makes at most
    MaxRuns,     \* bound on the runs of each process
    MaxMonths,   \* bound on the calendar
    MaxFaults    \* bound on failed calls and killed processes

ASSUME SetsAssumption ==
    /\ Builders \subseteq Procs /\ Unpriced \subseteq Procs
    /\ Swallows \subseteq Procs /\ Unchecked \subseteq Procs
ASSUME CostsAssumption == Costs \subseteq Nat \ {0} /\ Costs # {}
ASSUME LimitsAssumption ==
    /\ Limit \in Nat /\ Threshold \in Nat /\ MaxUsd \in Nat
    /\ MaxSteps \in Nat \ {0} /\ MaxAttempts \in Nat \ {0}
ASSUME BoundsAssumption ==
    MaxItems \in Nat /\ MaxRuns \in Nat /\ MaxMonths \in Nat \ {0} /\ MaxFaults \in Nat

VARIABLES
    month,     \* the month the clock shows
    used,      \* the usage ledger of each month
    alerted,   \* months whose alert key is set
    pc,        \* where each process is
    attempt,   \* its attempts in this run
    items,     \* calls it made in this attempt
    steps,     \* RunBudget.steps
    spent,     \* RunBudget.spent_usd
    cost,      \* the price of its last call, 0 if the model has no rate
    key,       \* the month whose ledger or alert it is about to save, else 1
    seen,      \* the ledger as it read it
    file,      \* state.json as its set has loaded it
    runs,      \* history: runs started
    calls,     \* history: calls of this run
    billed,    \* history: what the calls of this run cost
    missed,    \* history: calls of this run that record_usage never saw
    entered,   \* history: what it brought to record_usage in each month
    late,      \* history: its calls since the ledger was last below the limit
    sent,      \* history: alerts posted in each month
    dropped,   \* history: how often a save took the alert key of a month away
    faults

runVars == <<attempt, items, steps, spent>>
history == <<runs, calls, billed, missed, entered, late, sent, dropped>>
vars == <<month, used, alerted, pc, runVars, cost, key, seen, file, history, faults>>

Months     == 1..MaxMonths
Categories == {"runtime", "builder"}
Category   == [p \in Procs |-> IF p \in Builders THEN "builder" ELSE "runtime"]

Ledger == [total : Nat,                     \* estimated_usd
           categories : [Categories -> Nat],
           managers : [Procs -> Nat],
           verdicts : Nat]                  \* verify counts of all agents

NoUsage == [total |-> 0, categories |-> [c \in Categories |-> 0],
            managers |-> [p \in Procs |-> 0], verdicts |-> 0]

\* What of state.json the budget is about.
File    == [used : [Months -> Ledger], alerted : SUBSET Months]
NotRead == [used |-> [m \in Months |-> NoUsage], alerted |-> {}]

\* The label from which a set loads the file, and the one from which it saves it.
Saving == [write |-> "writing", flag |-> "flagging", save |-> "saving"]

Labels == {"idle", "attempt", "work", "call", "read", "write", "writing", "alert", "post",
           "flag", "flagging", "verdict", "save", "saving"}

TypeOK ==
    /\ month \in Months
    /\ used \in [Months -> Ledger]
    /\ alerted \in SUBSET Months
    /\ pc \in [Procs -> Labels]
    /\ attempt \in [Procs -> 0..MaxAttempts]
    /\ items \in [Procs -> 0..MaxItems]
    /\ steps \in [Procs -> 0..MaxSteps]
    /\ spent \in [Procs -> Nat]
    /\ cost \in [Procs -> Costs \cup {0}]
    /\ key \in [Procs -> Months]
    /\ seen \in [Procs -> Ledger]
    /\ file \in [Procs -> File]
    /\ runs \in [Procs -> 0..MaxRuns]
    /\ calls \in [Procs -> Nat]
    /\ billed \in [Procs -> Nat]
    /\ missed \in [Procs -> Nat]
    /\ entered \in [Procs -> [Months -> Nat]]
    /\ late \in [Procs -> Nat]
    /\ sent \in [Months -> Nat]
    /\ dropped \in [Months -> Nat]
    /\ faults \in 0..MaxFaults

Zero == [p \in Procs |-> 0]

Init ==
    /\ month = 1
    /\ used = [m \in Months |-> NoUsage]
    /\ alerted = {}
    /\ pc = [p \in Procs |-> "idle"]
    /\ attempt = Zero /\ items = Zero /\ steps = Zero /\ spent = Zero /\ cost = Zero
    /\ key = [p \in Procs |-> 1]
    /\ seen = [p \in Procs |-> NoUsage]
    /\ file = [p \in Procs |-> NotRead]
    /\ runs = Zero /\ calls = Zero /\ billed = Zero /\ missed = Zero /\ late = Zero
    /\ entered = [p \in Procs |-> [m \in Months |-> 0]]
    /\ sent = [m \in Months |-> 0]
    /\ dropped = [m \in Months |-> 0]
    /\ faults = 0

Goes(p, label) == pc' = [pc EXCEPT ![p] = label]

\* Faulty variant: every agent catches the exceptions of a call.
Raised_Caught(p) == "work"

\* An exception ends the run, unless the agent catches it around each call.
Raised(p) == IF p \in Swallows THEN "work" ELSE "idle"

\* Once the ledger is below the limit again, nobody is late.
Settled(ledger) == late' = IF ledger.total < Limit THEN Zero ELSE late

OverBudget == used[month].total >= Limit
NearLimit  == used[month].total >= Threshold

-----------------------------------------------------------------------------
(* StateStore.set *)

\* _load of the whole file; the caller has a key to change,
LoadFile(p) ==
    /\ pc[p] \in DOMAIN Saving
    /\ file' = [file EXCEPT ![p] = [used |-> used, alerted |-> alerted]]
    /\ Goes(p, Saving[pc[p]])
    /\ UNCHANGED <<month, used, alerted, runVars, cost, key, seen, history, faults>>

\* and _save of the whole file: the ledgers u and the alert keys a.
SaveFile(p, u, a) ==
    /\ used' = u
    /\ alerted' = a
    /\ dropped' = [m \in Months |-> dropped[m] + IF m \in alerted \ a THEN 1 ELSE 0]
    /\ file' = [file EXCEPT ![p] = NotRead]
    /\ key' = [key EXCEPT ![p] = 1]
    /\ Settled(u[month])

\* _save raises, as when another caller has renamed the temporary file they
\* share.  Only execute() catches it, when it was recording a verdict.
SaveFails(p) ==
    /\ pc[p] \in {"writing", "flagging", "saving"}
    /\ faults < MaxFaults
    /\ faults' = faults + 1
    /\ Goes(p, IF pc[p] = "saving" THEN "idle" ELSE Raised(p))
    /\ file' = [file EXCEPT ![p] = NotRead]
    /\ seen' = [seen EXCEPT ![p] = NoUsage]
    /\ key' = [key EXCEPT ![p] = 1]
    /\ cost' = [cost EXCEPT ![p] = 0]
    /\ UNCHANGED <<month, used, alerted, runVars, history>>

-----------------------------------------------------------------------------
(* BaseAgent.execute *)

StartRun(p) ==
    /\ pc[p] = "idle"
    /\ runs[p] < MaxRuns
    /\ runs' = [runs EXCEPT ![p] = @ + 1]
    /\ attempt' = [attempt EXCEPT ![p] = 0]
    /\ steps' = [steps EXCEPT ![p] = 0]
    /\ spent' = [spent EXCEPT ![p] = 0]
    /\ calls' = [calls EXCEPT ![p] = 0]
    /\ billed' = [billed EXCEPT ![p] = 0]
    /\ missed' = [missed EXCEPT ![p] = 0]
    /\ Goes(p, "attempt")
    /\ UNCHANGED <<month, used, alerted, items, cost, key, seen, file, entered, late, sent, dropped,
                   faults>>

\* RunBudget._check: a cap is reached.
AtStepCap(p)  == steps[p] >= MaxSteps
OverRunCap(p) == spent[p] > MaxUsd

\* Faulty variant: attempts are not counted.
BeginAttempt_Uncounted(p) ==
    /\ pc[p] = "attempt"
    /\ \/ /\ AtStepCap(p) \/ OverRunCap(p)
          /\ Goes(p, "idle")
          /\ UNCHANGED <<attempt, items, steps>>
       \/ /\ ~AtStepCap(p) /\ ~OverRunCap(p)
          /\ items' = [items EXCEPT ![p] = 0]
          /\ Goes(p, "work")
          /\ UNCHANGED <<attempt, steps>>
    /\ UNCHANGED <<month, used, alerted, spent, cost, key, seen, file, history, faults>>

\* begin_execute_step: an attempt is a step, and the caps are looked at first.
BeginAttempt(p) ==
    /\ pc[p] = "attempt"
    /\ \/ /\ AtStepCap(p) \/ OverRunCap(p)
          /\ Goes(p, "idle")
          /\ UNCHANGED <<attempt, items, steps>>
       \/ /\ ~AtStepCap(p) /\ ~OverRunCap(p)
          /\ attempt' = [attempt EXCEPT ![p] = @ + 1]
          /\ items' = [items EXCEPT ![p] = 0]
          /\ steps' = [steps EXCEPT ![p] = @ + 1]
          /\ Goes(p, "work")
    /\ UNCHANGED <<month, used, alerted, spent, cost, key, seen, file, history, faults>>

\* run() returned; verify passes, or asks for rework.
EndAttempt(p) ==
    /\ pc[p] = "work"
    /\ \/ Goes(p, "verdict")
       \/ attempt[p] < MaxAttempts /\ Goes(p, "attempt")
    /\ UNCHANGED <<month, used, alerted, runVars, cost, key, seen, file, history, faults>>

\* record_verify_verdict reads the whole ledger of the month,
ReadForVerdict(p) ==
    /\ pc[p] = "verdict"
    /\ key' = [key EXCEPT ![p] = month]
    /\ seen' = [seen EXCEPT ![p] = used[month]]
    /\ Goes(p, "save")
    /\ UNCHANGED <<month, used, alerted, runVars, cost, file, history, faults>>

\* and puts it back with one verdict more.
SaveVerdict(p) ==
    /\ pc[p] = "saving"
    /\ SaveFile(p, [file[p].used EXCEPT ![key[p]] = [seen[p] EXCEPT !.verdicts = @ + 1]],
                file[p].alerted)
    /\ seen' = [seen EXCEPT ![p] = NoUsage]
    /\ Goes(p, "idle")
    /\ UNCHANGED <<month, runVars, cost, runs, calls, billed, missed, entered, sent, faults>>

-----------------------------------------------------------------------------
(* One call: check_budget, the SDK, begin_llm_step, record_usage *)

\* Faulty variant: the budget is checked when the run begins, not at each call.
CheckBudget_Once(p) ==
    /\ pc[p] = "work"
    /\ items[p] < MaxItems
    /\ items' = [items EXCEPT ![p] = @ + 1]
    /\ Goes(p, IF OverBudget /\ p \notin Unchecked /\ calls[p] = 0 THEN Raised(p) ELSE "call")
    /\ UNCHANGED <<month, used, alerted, attempt, steps, spent, cost, key, seen, file, history, faults>>

\* The options of a call are built right before it, and the budget is checked
\* there, where the model is looked up; an agent that names its model skips that.
CheckBudget(p) ==
    /\ pc[p] = "work"
    /\ items[p] < MaxItems
    /\ items' = [items EXCEPT ![p] = @ + 1]
    /\ Goes(p, IF OverBudget /\ p \notin Unchecked THEN Raised(p) ELSE "call")
    /\ UNCHANGED <<month, used, alerted, attempt, steps, spent, cost, key, seen, file, history, faults>>

\* One query of the SDK, of however many turns.  The provider bills it; then begin_llm_step looks at the caps of the
\* run, and raises before anything is recorded.
Call(p) ==
    /\ pc[p] = "call"
    /\ \E c \in Costs :
         /\ billed' = [billed EXCEPT ![p] = @ + c]
         /\ cost' = [cost EXCEPT ![p] = IF p \in Unpriced THEN 0 ELSE c]
    /\ calls' = [calls EXCEPT ![p] = @ + 1]
    /\ late' = [late EXCEPT ![p] = IF OverBudget THEN @ + 1 ELSE @]
    /\ IF AtStepCap(p) \/ OverRunCap(p)
         THEN /\ missed' = [missed EXCEPT ![p] = @ + 1]
              /\ Goes(p, Raised(p))
              /\ UNCHANGED steps
         ELSE /\ steps' = [steps EXCEPT ![p] = @ + 1]
              /\ Goes(p, "read")
              /\ UNCHANGED missed
    /\ UNCHANGED <<month, used, alerted, attempt, items, spent, key, seen, file, runs, entered, sent, dropped,
                   faults>>

ReadUsage(p) ==
    /\ pc[p] = "read"
    /\ key' = [key EXCEPT ![p] = month]
    /\ seen' = [seen EXCEPT ![p] = used[month]]
    /\ entered' = [entered EXCEPT ![p][month] = @ + cost[p]]
    /\ Goes(p, "write")
    /\ UNCHANGED <<month, used, alerted, runVars, cost, file, runs, calls, billed, missed, late, sent,
                   dropped, faults>>

\* Faulty variant: the category is taken for "runtime".
Added_Runtime(p) ==
    [seen[p] EXCEPT !.total = @ + cost[p],
                    !.categories["runtime"] = seen[p].categories[Category[p]] + cost[p],
                    !.managers[p] = @ + cost[p]]

\* _add_dims on the total, the category and the manager of the agent.
Added(p) ==
    [seen[p] EXCEPT !.total = @ + cost[p],
                    !.categories[Category[p]] = @ + cost[p],
                    !.managers[p] = @ + cost[p]]

WriteUsage(p) ==
    /\ pc[p] = "writing"
    /\ SaveFile(p, [file[p].used EXCEPT ![key[p]] = Added(p)], file[p].alerted)
    /\ seen' = [seen EXCEPT ![p] = NoUsage]
    /\ Goes(p, "alert")
    /\ UNCHANGED <<month, runVars, cost, runs, calls, billed, missed, entered, sent, faults>>

-----------------------------------------------------------------------------
(* maybe_alert_budget, then RunBudget.add_cost *)

\* A cost of zero is not added, and then no cap is looked at.
Charge(p) ==
    /\ spent' = [spent EXCEPT ![p] = @ + cost[p]]
    /\ cost' = [cost EXCEPT ![p] = 0]
    /\ Goes(p, IF cost[p] > 0 /\ (spent'[p] > MaxUsd \/ AtStepCap(p)) THEN Raised(p) ELSE "work")

\* Near the limit and not over it, with no alert key for this month: alert.
Alert(p) ==
    /\ pc[p] = "alert"
    /\ IF NearLimit /\ ~OverBudget /\ month \notin alerted
         THEN key' = [key EXCEPT ![p] = month] /\ Goes(p, "post") /\ UNCHANGED <<spent, cost>>
         ELSE Charge(p) /\ UNCHANGED key
    /\ UNCHANGED <<month, used, alerted, attempt, items, steps, seen, file, history, faults>>

\* A post that Slack refuses counts as delivered.  Any other exception, before
\* or after the delivery, leaves record_usage before the key is set and before
\* the cost is charged to the run.
PostAlert(p) ==
    /\ pc[p] = "post"
    /\ sent' \in {sent, [sent EXCEPT ![key[p]] = @ + 1]}
    /\ \/ Goes(p, "flag") /\ UNCHANGED <<cost, key, faults>>
       \/ /\ faults < MaxFaults
          /\ faults' = faults + 1
          /\ cost' = [cost EXCEPT ![p] = 0]
          /\ key' = [key EXCEPT ![p] = 1]
          /\ Goes(p, Raised(p))
    /\ UNCHANGED <<month, used, alerted, runVars, seen, file, runs, calls, billed, missed, entered,
                   late, dropped>>

\* Faulty variant: the key of the alert is not set.
FlagAlert_Forgets(p) ==
    /\ pc[p] = "flagging"
    /\ SaveFile(p, file[p].used, file[p].alerted)
    /\ Charge(p)
    /\ UNCHANGED <<month, attempt, items, steps, seen, runs, calls, billed, missed, entered, sent, faults>>

FlagAlert(p) ==
    /\ pc[p] = "flagging"
    /\ SaveFile(p, file[p].used, file[p].alerted \cup {key[p]})
    /\ Charge(p)
    /\ UNCHANGED <<month, attempt, items, steps, seen, runs, calls, billed, missed, entered, sent, faults>>

-----------------------------------------------------------------------------
(* The process is killed, and the clock *)

Killed(p) ==
    /\ pc[p] # "idle"
    /\ faults < MaxFaults
    /\ faults' = faults + 1
    /\ Goes(p, "idle")
    /\ file' = [file EXCEPT ![p] = NotRead]
    /\ seen' = [seen EXCEPT ![p] = NoUsage]
    /\ key' = [key EXCEPT ![p] = 1]
    /\ cost' = [cost EXCEPT ![p] = 0]
    /\ UNCHANGED <<month, used, alerted, runVars, history>>

NewMonth ==
    /\ month < MaxMonths
    /\ month' = month + 1
    /\ Settled(used[month + 1])
    /\ UNCHANGED <<used, alerted, pc, runVars, cost, key, seen, file, runs, calls, billed, missed, entered,
                   sent, dropped, faults>>

Execute(p) == BeginAttempt(p) \/ EndAttempt(p) \/ ReadForVerdict(p) \/ SaveVerdict(p)

Track(p) ==
    \/ CheckBudget(p) \/ Call(p) \/ ReadUsage(p) \/ WriteUsage(p)
    \/ Alert(p) \/ PostAlert(p) \/ FlagAlert(p)

Step(p) == Execute(p) \/ Track(p) \/ LoadFile(p)

Next ==
    \/ \E p \in Procs : StartRun(p) \/ Step(p) \/ SaveFails(p) \/ Killed(p)
    \/ NewMonth

\* A run that began is driven to its end by its own process.
Fairness == \A p \in Procs : WF_vars(Step(p))

Spec == Init /\ [][Next]_vars /\ Fairness

-----------------------------------------------------------------------------
(* Properties *)

\* The month's total is what its categories hold together: a lost update or a
\* stale verdict takes whole calls away, never a part of one.
SplitsAddUp ==
    \A m \in Months :
        used[m].total = used[m].categories["runtime"] + used[m].categories["builder"]

\* Nothing is recorded twice, nor under another month or manager: concurrent
\* writers of one key lose costs, they never invent them.
NothingInvented ==
    \A p \in Procs, m \in Months : used[m].managers[p] <= entered[p][m]

\* What the ledger says of a month is consistent and was really spent, whichever
\* updates the read-modify-writes of usage and verdicts lose.
LedgerIsHonest == SplitsAddUp /\ NothingInvented

\* hard_stop: once the ledger of the month has reached the limit, a process
\* finishes the query it was making and makes no other.  This holds unless the
\* agent names its model, whose budget nobody checks.
OneCallPastTheLimit == \A p \in Procs \ Unchecked : late[p] <= 1

\* A run overshoots its dollar cap by no more than one call and never makes more
\* calls than its step cap; and at most one of its calls is billed and never comes
\* to record_usage, the one that finds the last step taken by the attempt itself.
\* This holds unless the agent of the run swallows the exceptions.
CapsHold ==
    \A p \in Procs \ Swallows :
        /\ calls[p] <= MaxSteps
        /\ missed[p] <= 1
        /\ p \notin Unpriced => \E c \in Costs : billed[p] <= MaxUsd + c

\* A month is alerted once by each process, once more by each for every save that
\* took the alert key away, and once more for each failed post or save and killed
\* process.
AlertedOnce ==
    \A m \in Months : sent[m] <= Cardinality(Procs) * (dropped[m] + 1) + faults

\* Every run comes to an end: the step cap stops an agent that is sent back to
\* work for ever.
RunsEnd == \A p \in Procs : pc[p] # "idle" ~> pc[p] = "idle"

=============================================================================
