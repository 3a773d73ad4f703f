----------------------------- MODULE WorkEvents -----------------------------
(***************************************************************************)
(* The ledger of work events (wiki/work_events.py), the managers that      *)
(* record events in it, and the employee wiki manager, which polls it and  *)
(* has each event written to the work logs of the members it concerns      *)
(* (work_event_materializer.py).                                           *)
(*                                                                         *)
(* An append is one step; marking an event reads the whole file in one     *)
(* step and replaces it in another.  Nothing locks the file.               *)
(***************************************************************************)
EXTENDS Naturals, Functions

CONSTANTS
    Kinds,      \* for each source, the statuses its events can have
    Items,      \* what a source reports on: issues, meetings, mails, threads
    Members,    \* employees
    MaxEvents,  \* bound on events recorded
    MaxFaults   \* bound on failures and killed processes

ASSUME BoundsAssumption == MaxEvents \in Nat /\ MaxFaults \in Nat

Sources   == DOMAIN Kinds
Artifacts == Sources \X Items    \* artifact_ref is "{source}:{item}"
Ids       == 1..MaxEvents

VARIABLES
    ledger,   \* work_events.jsonl: the events in the file, by id, in the order of ids
    used,     \* ids given so far
    active,   \* members who are active and let the sources be ingested
    found,    \* what each source is about to append, {} or one event
    pc,       \* where the manager is
    todo,     \* the manager's list of pending events, as it read them
    cur,      \* the event it has dispatched
    left,     \* members that event is still to be logged for
    who,      \* the member it is being logged for
    copy,     \* the ledger as mark_materialized read it
    logs,     \* entries for an event in a member's work log
    faults    \* faults so far

ledgerVars  == <<ledger, used, found>>
managerVars == <<pc, todo, cur, left, who, copy, logs>>
vars == <<ledgerVars, active, managerVars, faults>>

Event == [art : Artifacts, status : UNION {Kinds[s] : s \in Sources},
          targets : SUBSET Members,    \* event_target_members
          done : SUBSET Members]       \* materialized["employee"]

\* A ledger file: some of the ids given so far, each with its event.
Ledger == UNION {[S -> Event] : S \in SUBSET Ids}

Labels == {"idle", "pick", "log", "mark", "rewrite"}

TypeOK ==
    /\ ledger \in Ledger
    /\ used \in 0..MaxEvents
    /\ active \in SUBSET Members
    /\ found \in [Sources -> {{}} \cup {{e} : e \in Event}]
    /\ pc \in Labels
    /\ todo \in Ledger
    /\ cur \in 0..MaxEvents
    /\ left \in SUBSET Members
    /\ who \in {{}} \cup {{m} : m \in Members}
    /\ copy \in Ledger
    /\ logs \in [Ids \X Members -> Nat]
    /\ faults \in 0..MaxFaults

None == [i \in {} |-> {}]

Init ==
    /\ ledger = None
    /\ used = 0
    /\ active \in SUBSET Members
    /\ found = [s \in Sources |-> {}]
    /\ pc = "idle"
    /\ todo = None /\ copy = None
    /\ cur = 0
    /\ left = {} /\ who = {}
    /\ logs = [x \in Ids \X Members |-> 0]
    /\ faults = 0

Fault == faults < MaxFaults /\ faults' = faults + 1
NoFault == UNCHANGED faults

-----------------------------------------------------------------------------
(* Recording *)

Of(art) == {i \in DOMAIN ledger : ledger[i].art = art}

\* find_by_artifact: the last event of the artifact.
Latest(art) ==
    {i \in Of(art) : \A j \in Of(art) : j <= i}

\* record_*_work_event looks for the event; it has nothing to do when the last
\* one of the artifact has the same status.
Find(s) ==
    /\ found[s] = {}
    /\ \E item \in Items, status \in Kinds[s], targets \in SUBSET Members :
         LET art == <<s, item>> IN
         /\ \A i \in Latest(art) : ledger[i].status # status
         /\ found' = [found EXCEPT ![s] =
                {[art |-> art, status |-> status, targets |-> targets, done |-> {}]}]
    /\ NoFault
    /\ UNCHANGED <<ledger, used, active, managerVars>>

\* WorkEventStore.append, under a new id
Append(s) ==
    /\ used < MaxEvents
    /\ used' = used + 1
    /\ \E e \in found[s] :
         ledger' = [i \in DOMAIN ledger \cup {used'} |-> IF i = used' THEN e ELSE ledger[i]]
    /\ found' = [found EXCEPT ![s] = {}]
    /\ NoFault
    /\ UNCHANGED <<active, managerVars>>

Record(s) == Find(s) \/ Append(s)

-----------------------------------------------------------------------------
(* EmployeeWikiManagerAgent.run_once and WorkEventMaterializerAgent.run *)

\* Faulty variant: an event logged for one member counts as done.
Pending_Untouched == {i \in DOMAIN ledger : ledger[i].targets # {} /\ ledger[i].done = {}}

\* list_unmaterialized(target="employee")
Pending == {i \in DOMAIN ledger : ~(ledger[i].targets \subseteq ledger[i].done)}

Poll ==
    /\ pc = "idle"
    /\ Pending # {}
    /\ todo' = Restrict(ledger, Pending)
    /\ pc' = "pick"
    /\ NoFault
    /\ UNCHANGED <<ledgerVars, active, cur, left, who, copy, logs>>

\* Dispatches the next event; the members' configuration is read here.  The
\* dispatch may fail, or be refused by the fleet gate.
Pick ==
    /\ pc = "pick"
    /\ \/ /\ DOMAIN todo = {}
          /\ pc' = "idle"
          /\ NoFault
          /\ UNCHANGED <<todo, cur, left>>
       \/ \E i \in DOMAIN todo :
            /\ \A j \in DOMAIN todo : i <= j
            /\ todo' = Restrict(todo, DOMAIN todo \ {i})
            /\ \/ /\ cur' = i
                  /\ left' = (todo[i].targets \cap active) \ todo[i].done
                  /\ pc' = "log"
                  /\ NoFault
               \/ Fault /\ UNCHANGED <<pc, cur, left>>
    /\ UNCHANGED <<ledgerVars, active, who, copy, logs>>

\* On to the next event.
DropEvent ==
    /\ pc' = "pick"
    /\ cur' = 0 /\ left' = {} /\ who' = {} /\ copy' = None

\* Faulty variant: goes on to mark the event when the entry could not be written.
WriteLog_Swallowed ==
    /\ pc = "log"
    /\ \/ left = {} /\ DropEvent /\ NoFault /\ UNCHANGED logs
       \/ \E m \in left :
            /\ left' = left \ {m}
            /\ who' = {m}
            /\ pc' = "mark"
            /\ \/ logs' = [logs EXCEPT ![<<cur, m>>] = @ + 1] /\ NoFault
               \/ Fault /\ UNCHANGED logs
            /\ UNCHANGED <<cur, copy>>
    /\ UNCHANGED <<ledgerVars, active, todo>>

\* _materialize_*: an entry in the member's work log
WriteLog ==
    /\ pc = "log"
    /\ \/ left = {} /\ DropEvent /\ NoFault /\ UNCHANGED logs
       \/ \E m \in left :
            \/ /\ left' = left \ {m}
               /\ who' = {m}
               /\ logs' = [logs EXCEPT ![<<cur, m>>] = @ + 1]
               /\ pc' = "mark"
               /\ NoFault
               /\ UNCHANGED <<cur, copy>>
            \/ DropEvent /\ Fault /\ UNCHANGED logs
    /\ UNCHANGED <<ledgerVars, active, todo>>

\* mark_materialized, first half: list_all
MarkRead ==
    /\ pc = "mark"
    /\ copy' = ledger
    /\ pc' = "rewrite"
    /\ NoFault
    /\ UNCHANGED <<ledgerVars, active, todo, cur, left, who, logs>>

\* Faulty variant: the member replaces those already marked.
Marked_Replaced(events, i, members) == [events EXCEPT ![i].done = members]

Marked(events, i, members) == [events EXCEPT ![i].done = @ \cup members]

\* mark_materialized, second half: _rewrite puts the file back as it was read.
\* Both that and the refresh of the member's index after it may fail.
Rewrite ==
    /\ pc = "rewrite"
    /\ \/ /\ ledger' = Marked(copy, cur, who)
          /\ \/ /\ pc' = "log"
                /\ who' = {} /\ copy' = None
                /\ NoFault
                /\ UNCHANGED <<cur, left>>
             \/ DropEvent /\ Fault
       \/ UNCHANGED ledger /\ DropEvent /\ Fault
    /\ UNCHANGED <<used, found, active, todo, logs>>

ManagerStep == Poll \/ Pick \/ WriteLog \/ MarkRead \/ Rewrite

-----------------------------------------------------------------------------
(* The manager is killed and started again; members come and go *)

Crash ==
    /\ pc # "idle"
    /\ pc' = "idle"
    /\ todo' = None /\ copy' = None
    /\ cur' = 0 /\ left' = {} /\ who' = {}
    /\ Fault
    /\ UNCHANGED <<ledgerVars, active, logs>>

ChangeMember ==
    /\ \E m \in Members :
         active' = IF m \in active THEN active \ {m} ELSE active \cup {m}
    /\ NoFault
    /\ UNCHANGED <<ledgerVars, managerVars>>

Next ==
    \/ \E s \in Sources : Record(s)
    \/ ManagerStep
    \/ Crash
    \/ ChangeMember

\* The manager polls for ever.  Nobody has to record anything.
Spec == Init /\ [][Next]_vars /\ WF_vars(ManagerStep)

-----------------------------------------------------------------------------
(* Properties *)

\* A work log names an event once, and once more for each failure at most:
\* the mark in the ledger follows the entry, and is never taken back by
\* another mark or by an event appended meanwhile.
LoggedOnce ==
    \A i \in Ids, m \in Members : logs[<<i, m>>] <= 1 + faults

\* A mark in the ledger is never ahead of the work log: whatever fails and
\* whoever is killed, a member marked as done has the entry.
MarkedMeansLogged ==
    \A i \in DOMAIN ledger : \A m \in ledger[i].done : logs[<<i, m>>] > 0

\* An event in the ledger reaches the work log of every member it concerns who
\* stays active, however often the manager fails, unless the ledger loses it.
ReachesWorkLog ==
    \A i \in Ids, m \in Members :
        (i \in DOMAIN ledger /\ m \in ledger[i].targets)
            ~> (logs[<<i, m>>] > 0 \/ m \notin active \/ i \notin DOMAIN ledger)

\* The ledger is append-only: no event ever leaves it.
AppendOnly == [][DOMAIN ledger \subseteq DOMAIN ledger']_vars

=============================================================================
