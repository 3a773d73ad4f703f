----------------------------- MODULE FleetGate ------------------------------
(***************************************************************************)
(* The cooperative pause gate of the fleet (runtime/fleet_gate.py), the    *)
(* managers that dispatch through it, the agents that only ask it          *)
(* (agents/base.py, wiki/absorb.py), and the admins who pause and resume.  *)
(*                                                                         *)
(* Managers are threads or processes of their own and nothing locks the    *)
(* gate, so every StateStore call of the gate is a step of its own, and a  *)
(* set or a delete is two: it loads the whole of state.json, and then      *)
(* saves the whole of it, so that what others saved in between is undone.  *)
(* The state is the set of the keys that hold something true.              *)
(***************************************************************************)
EXTENDS Naturals

CONSTANTS
    Managers,    \* persistent managers, which dispatch through dispatch_slot
    Direct,      \* the managers that do the slot's work themselves, with no specialist
    Forcible,    \* the managers with a --force run (wiki_commit)
    Gated,       \* those whose specialist refuses to run when its page exists
    Consoles,    \* processes people start: one runs an agent outside any slot
                 \* (BaseAgent.execute, AbsorbWriter.run), a pause or a resume at a time
    MaxPauses,   \* bound on calls of request_pause
    MaxMishaps   \* bound on managers killed and on loads while another caller has
                 \* the file loaded

ASSUME ForcibleAssumption ==
    Direct \subseteq Managers /\ Forcible \subseteq Direct /\ Gated \subseteq Managers \ Direct
ASSUME BoundsAssumption == MaxPauses \in Nat /\ MaxMishaps \in Nat

VARIABLES
    state,      \* the keys of state.json that hold something true
    file,       \* state.json as the set or delete of each actor has loaded it
    pc,         \* where each manager and console is
    back,       \* where a manager goes on after try_enter_paused
    ran,        \* managers whose specialist really ran in this period: has written its
                \* page, or come to its end
    stale,      \* history: keys whose last change an overlapping save has undone
    pauses,     \* calls of request_pause so far
    resumes,    \* calls of resume so far
    mishaps     \* managers killed and overlapping loads so far

vars == <<state, file, pc, back, ran, stale, pauses, resumes, mishaps>>

store   == <<state, file, stale, mishaps>>
counts  == <<pauses, resumes>>

Actors == Managers \cup Consoles

ASSUME ActorsAssumption == Managers \cap Consoles = {}

Requested    == <<"pause_requested">>
Paused       == <<"paused">>
Busy(m)      == <<"busy", m>>
Completed(m) == <<"completed", m>>

Keys == {Requested, Paused} \cup {Busy(m) : m \in Managers} \cup {Completed(m) : m \in Managers}

\* The keys whose undone changes are told apart.
Watched == {Requested} \cup {Busy(m) : m \in Managers}

\* any_busy
AnyBusy == \E m \in Managers : Busy(m) \in state

\* The label from which a set or a delete loads the file, and the one from
\* which it saves it.
Saving == [te_set |-> "te_setting", mark |-> "marking", record |-> "recording",
           unmark |-> "unmarking", rp_at |-> "rp_ating", rp_set |-> "rp_setting",
           rs_paused |-> "rs_pausing"]

\* The labels at which an actor has the file loaded.
Loaded == {Saving[label] : label \in DOMAIN Saving}
              \cup {"requesting", "resuming", "rs_ating", "setting"}

TryEnter == {"te_req", "te_busy", "te_set", "te_setting"}
InSlot   == {"work", "work2", "run", "record", "recording"}
Leaving  == {"unmark", "unmarking"}
ManagerLabels == {"idle", "ready", "ready2", "slot", "slot2", "mark", "marking", "forced"}
                     \cup TryEnter \cup InSlot \cup Leaving
ConsoleLabels == {"idle", "asked", "working", "setting",
                  "requesting", "rp_at", "rp_ating", "rp_busy", "rp_set", "rp_setting",
                  "resuming", "rs_paused", "rs_pausing", "rs_at", "rs_ating"}

TypeOK ==
    /\ state \in SUBSET Keys
    /\ file \in [Actors -> SUBSET Keys]
    /\ pc \in [Actors -> ManagerLabels \cup ConsoleLabels]
    /\ \A m \in Managers : pc[m] \in ManagerLabels
    /\ \A c \in Consoles : pc[c] \in ConsoleLabels
    /\ back \in [Managers -> {"idle", "ready", "work", "forced"}]
    /\ ran \in SUBSET Managers
    /\ stale \in SUBSET Watched
    /\ pauses \in 0..MaxPauses
    /\ resumes \in 0..MaxPauses
    /\ mishaps \in 0..MaxMishaps

Init ==
    /\ state = {}
    /\ file = [x \in Actors |-> {}]
    /\ pc = [x \in Actors |-> "idle"]
    /\ back = [m \in Managers |-> "idle"]
    /\ ran = {} /\ stale = {}
    /\ pauses = 0 /\ resumes = 0 /\ mishaps = 0

Goto(x, label) == pc' = [pc EXCEPT ![x] = label]

\* Call try_enter_paused and go on at label.
CallTryEnter(m, label) ==
    /\ Goto(m, "te_req")
    /\ back' = [back EXCEPT ![m] = label]

\* try_enter_paused returns.
Returns(m) ==
    /\ Goto(m, back[m])
    /\ back' = [back EXCEPT ![m] = "idle"]

(***************************************************************************)
(* StateStore.set and delete.  Load reads the file.  Save puts content in  *)
(* its place, which is the loaded copy with key k changed: every other key *)
(* that somebody changed in the meantime gets its old value back.          *)
(***************************************************************************)
Load(x, label) ==
    /\ \/ (\A y \in Actors : pc[y] \notin Loaded) /\ UNCHANGED mishaps
       \/ /\ \E y \in Actors : pc[y] \in Loaded
          /\ mishaps < MaxMishaps
          /\ mishaps' = mishaps + 1
    /\ file' = [file EXCEPT ![x] = state]
    /\ Goto(x, label)
    /\ UNCHANGED <<state, stale>>

LoadToSave(x) == pc[x] \in DOMAIN Saving /\ Load(x, Saving[pc[x]])

Undone(x) == {k \in Watched : (k \in file[x]) # (k \in state)}

Save(x, k, content) ==
    /\ state' = content
    /\ stale' = (stale \cup Undone(x)) \ {k}
    /\ file' = [file EXCEPT ![x] = {}]
    /\ UNCHANGED mishaps

Set(x, k) == Save(x, k, file[x] \cup {k})

\* False is saved, or the key deleted.
Clear(x, k) == Save(x, k, file[x] \ {k})

\* A set of a key the gate does not look at.
SetOther(x) ==
    /\ state' = file[x]
    /\ stale' = stale \cup Undone(x)
    /\ file' = [file EXCEPT ![x] = {}]
    /\ UNCHANGED mishaps

(***************************************************************************)
(* should_start_work and can_dispatch, asked at label first: the pause     *)
(* request is read there, the paused flag at label second.                 *)
(***************************************************************************)
MayStart(x, first, second, label) ==
    \/ pc[x] = first /\ Requested \notin state /\ Goto(x, second)
    \/ pc[x] = second /\ Paused \notin state /\ Goto(x, label)

Refused(x, first, second) ==
    \/ pc[x] = first /\ Requested \in state
    \/ pc[x] = second /\ Paused \in state

-----------------------------------------------------------------------------
(* try_enter_paused *)

TryEnterRequested(m) ==
    /\ pc[m] = "te_req"
    /\ \/ Requested \in state /\ Goto(m, "te_busy") /\ UNCHANGED back
       \/ Requested \notin state /\ Returns(m)
    /\ UNCHANGED <<store, ran, counts>>

TryEnterBusy(m) ==
    /\ pc[m] = "te_busy"
    /\ \/ ~AnyBusy /\ Goto(m, "te_set") /\ UNCHANGED back
       \/ AnyBusy /\ Returns(m)
    /\ UNCHANGED <<store, ran, counts>>

TryEnterSet(m) ==
    /\ pc[m] = "te_setting"
    /\ Set(m, Paused)
    /\ Returns(m)
    /\ UNCHANGED <<ran, counts>>

-----------------------------------------------------------------------------
(* A manager's loop and its dispatch_slot *)

\* Most loops try to enter the pause on every tick; hr_manager's and the
\* catch-up path of admin_manager go straight to their run.
LoopTick(m) ==
    /\ pc[m] = "idle"
    /\ \/ CallTryEnter(m, "ready")
       \/ Goto(m, "slot") /\ UNCHANGED back
    /\ UNCHANGED <<store, ran, counts>>

LoopCheck(m) ==
    /\ \/ MayStart(m, "ready", "ready2", "slot") /\ UNCHANGED back
       \/ Refused(m, "ready", "ready2") /\ CallTryEnter(m, "idle")
       \/ pc[m] = "ready" /\ Goto(m, "idle") /\ UNCHANGED back   \* nothing is due
    /\ UNCHANGED <<store, ran, counts>>

\* The slot's own check.  A forced wiki_commit runs although it was refused.
SlotCheck(m) ==
    /\ \/ MayStart(m, "slot", "slot2", "mark") /\ UNCHANGED back
       \/ Refused(m, "slot", "slot2") /\ CallTryEnter(m, "idle")
       \/ m \in Forcible /\ Refused(m, "slot", "slot2") /\ CallTryEnter(m, "forced")
    /\ UNCHANGED <<store, ran, counts>>

ForcedWork(m) ==
    /\ pc[m] = "forced"
    /\ Goto(m, "idle")
    /\ UNCHANGED <<store, ran, counts, back>>

\* set_busy(manager, True)
SetBusy(m) ==
    /\ pc[m] = "marking"
    /\ Set(m, Busy(m))
    /\ CallTryEnter(m, "work")
    /\ UNCHANGED <<ran, counts>>

\* Faulty variant: a specialist that is exempt from the gate.
Dispatch_Exempt(m) ==
    /\ pc[m] = "work"
    /\ Goto(m, "run")
    /\ UNCHANGED <<store, ran, counts, back>>

\* The manager dispatches its specialist, whose execute() asks the gate again
\* and then should_run, and answers SKIPPED when either refuses; a direct
\* manager just goes to work.
Dispatch(m) ==
    /\ \/ m \in Direct /\ pc[m] = "work" /\ Goto(m, "run")
       \/ /\ m \notin Direct
          /\ \/ MayStart(m, "work", "work2", IF m \in Gated \cap ran THEN "record" ELSE "run")
             \/ Refused(m, "work", "work2") /\ Goto(m, "record")
    /\ UNCHANGED <<store, ran, counts, back>>

\* A gated specialist writes the page of its period before it has finished.
Draft(m) ==
    /\ pc[m] = "run" /\ m \in Gated \ ran
    /\ ran' = ran \cup {m}
    /\ UNCHANGED <<store, counts, pc, back>>

\* Faulty variant: a specialist that raised is taken for one that finished.
SpecialistEnds_Swallowed(m) ==
    /\ pc[m] = "run"
    /\ ran' \in {ran, ran \cup {m}}
    /\ Goto(m, "record")
    /\ UNCHANGED <<store, counts, back>>

\* The specialist finishes, or raises through the slot.
SpecialistEnds(m) ==
    /\ pc[m] = "run"
    /\ \/ /\ m \in Gated => m \in ran
          /\ ran' = ran \cup {m}
          /\ Goto(m, "record")
       \/ UNCHANGED ran /\ Goto(m, "unmark")
    /\ UNCHANGED <<store, counts, back>>

\* run_once sets its "completed" key whatever the specialist answered.
RecordCompleted(m) ==
    /\ pc[m] = "recording"
    /\ Set(m, Completed(m))
    /\ Goto(m, "unmark")
    /\ UNCHANGED <<ran, counts, back>>

\* Faulty variant: deletes every key with the busy prefix.
ClearBusy_Prefix(m) ==
    /\ pc[m] = "unmarking"
    /\ state' = file[m] \ {Busy(n) : n \in Managers}
    /\ stale' = (stale \cup Undone(m)) \ {Busy(n) : n \in Managers}
    /\ file' = [file EXCEPT ![m] = {}]
    /\ UNCHANGED mishaps
    /\ CallTryEnter(m, "idle")
    /\ UNCHANGED <<ran, counts>>

\* Faulty variant: an empty payload is written instead of deleting the key.
ClearBusy_Kept(m) ==
    /\ pc[m] = "unmarking"
    /\ Set(m, Busy(m))
    /\ CallTryEnter(m, "idle")
    /\ UNCHANGED <<ran, counts>>

\* set_busy(manager, False), in the slot's finally: a key that was not in the
\* file is not deleted, and the file not saved.
ClearBusy(m) ==
    /\ pc[m] = "unmarking"
    /\ \/ Busy(m) \in file[m] /\ Clear(m, Busy(m))
       \/ Busy(m) \notin file[m] /\ file' = [file EXCEPT ![m] = {}] /\ UNCHANGED <<state, stale, mishaps>>
    /\ CallTryEnter(m, "idle")
    /\ UNCHANGED <<ran, counts>>

\* The load of a set or a delete of the manager
ManagerLoads(m) ==
    /\ LoadToSave(m)
    /\ UNCHANGED <<ran, counts, back>>

\* A manager killed, or thrown out of its run by a save that fails, starts
\* over; its busy key stays in the file.
Crash(m) ==
    /\ mishaps < MaxMishaps
    /\ pc[m] # "idle"
    /\ mishaps' = mishaps + 1
    /\ stale' = stale \cup {Busy(m)}
    /\ Goto(m, "idle")
    /\ back' = [back EXCEPT ![m] = "idle"]
    /\ file' = [file EXCEPT ![m] = {}]
    /\ UNCHANGED <<state, ran, counts>>

ManagerStep(m) ==
    \/ TryEnterRequested(m) \/ TryEnterBusy(m) \/ TryEnterSet(m)
    \/ LoopTick(m) \/ LoopCheck(m) \/ SlotCheck(m) \/ ForcedWork(m)
    \/ SetBusy(m) \/ Dispatch(m) \/ Draft(m) \/ SpecialistEnds(m)
    \/ RecordCompleted(m) \/ ClearBusy(m) \/ ManagerLoads(m)

-----------------------------------------------------------------------------
(* Agents outside a slot: they ask should_start_work, mark nothing, and set *)
(* keys of their own *)

WorkerStart(c) ==
    /\ \/ MayStart(c, "idle", "asked", "working")
       \/ Refused(c, "idle", "asked") /\ Goto(c, "idle")
    /\ UNCHANGED <<store, ran, counts, back>>

\* Its end, with or without a set of a key the gate does not look at: what the
\* run has used, a marker, a heartbeat.
WorkerEnd(c) ==
    /\ pc[c] = "working"
    /\ \/ Goto(c, "idle") /\ UNCHANGED store
       \/ Load(c, "setting")
    /\ UNCHANGED <<ran, counts, back>>

WorkerSets(c) ==
    /\ pc[c] = "setting"
    /\ SetOther(c)
    /\ Goto(c, "idle")
    /\ UNCHANGED <<ran, counts, back>>

-----------------------------------------------------------------------------
(* Pause and resume *)

RequestPause(c) ==
    /\ pc[c] = "idle"
    /\ pauses < MaxPauses
    /\ pauses' = pauses + 1
    /\ Load(c, "requesting")
    /\ UNCHANGED <<ran, resumes, back>>

PauseRequested(c) ==
    /\ pc[c] = "requesting"
    /\ Set(c, Requested)
    /\ Goto(c, "rp_at")
    /\ UNCHANGED <<ran, counts, back>>

\* fleet:pause_requested_at, which is only shown
PauseAt(c) ==
    /\ pc[c] = "rp_ating"
    /\ SetOther(c)
    /\ Goto(c, "rp_busy")
    /\ UNCHANGED <<ran, counts, back>>

PauseAnyBusy(c) ==
    /\ pc[c] = "rp_busy"
    /\ Goto(c, IF AnyBusy THEN "idle" ELSE "rp_set")
    /\ UNCHANGED <<store, ran, counts, back>>

PauseSet(c) ==
    /\ pc[c] = "rp_setting"
    /\ Set(c, Paused)
    /\ Goto(c, "idle")
    /\ UNCHANGED <<ran, counts, back>>

Resume(c) ==
    /\ pc[c] = "idle"
    /\ resumes < pauses
    /\ resumes' = resumes + 1
    /\ Load(c, "resuming")
    /\ UNCHANGED <<ran, pauses, back>>

ResumeRequested(c) ==
    /\ pc[c] = "resuming"
    /\ Clear(c, Requested)
    /\ Goto(c, "rs_paused")
    /\ UNCHANGED <<ran, counts, back>>

ResumePaused(c) ==
    /\ pc[c] = "rs_pausing"
    /\ Clear(c, Paused)
    /\ Goto(c, "rs_at")
    /\ UNCHANGED <<ran, counts, back>>

\* The deletion of fleet:pause_requested_at, which is saved if there was such a key
ResumeAt(c) ==
    /\ \/ pc[c] = "rs_at" /\ Load(c, "rs_ating")
       \/ pc[c] = "rs_at" /\ Goto(c, "idle") /\ UNCHANGED store
       \/ pc[c] = "rs_ating" /\ SetOther(c) /\ Goto(c, "idle")
    /\ UNCHANGED <<ran, counts, back>>

\* The load of a set or a delete of the command
ConsoleLoads(c) ==
    /\ LoadToSave(c)
    /\ UNCHANGED <<ran, counts, back>>

CommandStep(c) ==
    \/ PauseRequested(c) \/ PauseAt(c) \/ PauseAnyBusy(c) \/ PauseSet(c)
    \/ ResumeRequested(c) \/ ResumePaused(c) \/ ResumeAt(c) \/ ConsoleLoads(c)

-----------------------------------------------------------------------------
Next ==
    \/ \E m \in Managers : ManagerStep(m) \/ Crash(m)
    \/ \E c \in Consoles :
         \/ WorkerStart(c) \/ WorkerEnd(c) \/ WorkerSets(c)
         \/ RequestPause(c) \/ Resume(c) \/ CommandStep(c)

\* Loops go round for ever and slots end; an admin command that has begun
\* finishes.  Nobody has to pause or resume.
Fairness ==
    /\ \A m \in Managers : WF_vars(ManagerStep(m))
    /\ \A c \in Consoles : WF_vars(WorkerSets(c) \/ CommandStep(c))

Spec == Init /\ [][Next]_vars /\ Fairness

-----------------------------------------------------------------------------
(* Properties *)

\* A manager inside its slot has its busy key in the file, unless a save that
\* had loaded the file before the key was set has taken the key away: any_busy
\* overlooks a dispatch for no other reason.
BusyCoversWork ==
    \A m \in Managers :
        pc[m] \in InSlot \cup Leaving \/ (pc[m] \in TryEnter /\ back[m] = "work")
            => Busy(m) \in state \cup stale

\* Within one pause, "paused" means that no specialist dispatched by a
\* manager is still running: the second gate, in execute(), makes up for the
\* window between a slot's check and its busy key.  Excepted are a manager
\* whose busy key an overlapping save has taken away, and a request that one
\* has brought back after the resume.
PausedMeansSpecialistsDone ==
    {Requested, Paused} \subseteq state /\ Requested \notin stale =>
        \A m \in Managers \ Direct : pc[m] = "run" => Busy(m) \in stale

\* A pause that is not withdrawn is reached, unless a busy key is left in the
\* file by a manager that was killed, or put back there by an overlapping save:
\* only the next dispatch of that manager would clear it.
PauseReached ==
    Requested \in state ~>
        \/ Paused \in state \/ Requested \notin state
        \/ \E m \in Managers : Busy(m) \in state \cap stale

\* As long as nobody asked for a pause, a period recorded as completed is one
\* whose specialist ran to its end, or whose page an earlier run had written
\* before it raised or was killed: should_run then refuses the second run, and
\* the period is recorded all the same.
CompletedMeansRan ==
    pauses = 0 => \A m \in Managers : Completed(m) \in state => m \in ran

=============================================================================
