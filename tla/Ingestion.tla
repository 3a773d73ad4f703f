----------------------------- MODULE Ingestion ------------------------------
(***************************************************************************)
(* The queue between the agent that collects technical conversations and   *)
(* the writer that absorbs them into the wiki: files                       *)
(* raw/entries/{date}_{id}.md with a flag "absorbed" (ingestion/,          *)
(* wiki/absorb.py, technical_absorb.py).                                   *)
(*                                                                         *)
(* The id of an entry is a hash of its source and of the first 200         *)
(* characters of its text.  A conversation that starts with a long post    *)
(* keeps these when it grows: all its versions share one id, and those     *)
(* queued on one day share one file.  Each version of a short one has an   *)
(* id of its own.                                                          *)
(*                                                                         *)
(* The intake agent and the writer run concurrently.  A step ends where a  *)
(* program goes from one file or service to the next.                      *)
(***************************************************************************)
EXTENDS Naturals, FiniteSets

CONSTANTS
    Conversations,
    Long,        \* those whose first post fills the head
    Growing,     \* those people still post to
    Urgent,      \* those in the urgent lane
    Terse,       \* those whose preview and first text have fewer than MIN_WORDS words
    BatchSize,   \* CHECKPOINT_EVERY
    MaxVersion,  \* bound on how often a conversation grows
    MaxDays,     \* bound on the calendar
    MaxFaults    \* bound on failed calls and killed processes

ASSUME KindsAssumption == Long \cup Growing \cup Urgent \cup Terse \subseteq Conversations
ASSUME BoundsAssumption ==
    /\ BatchSize \in Nat \ {0} /\ MaxDays \in Nat \ {0}
    /\ MaxVersion \in Nat /\ MaxFaults \in Nat

VARIABLES
    day,
    text,      \* the version each conversation has reached; 0 is its preview
    files,     \* the queue
    record,    \* routing record of each conversation: {} or the version queued
    intake,    \* where the intake agent is
    found,     \* the conversation and version it has in hand
    writer,    \* where the writer is
    left,      \* entries it loaded and has not put in a batch
    batch,     \* entries of its batch
    toFlag,    \* paths it listed and has not flagged
    opened,    \* the file it read in order to flag it
    given,     \* history: how often each version was given to the model
    exposed,   \* history: versions queued while the writer had their id in
               \* hand, replaced by a preview in the queue, or flagged with an
               \* older version before their own batch
    faults     \* failed calls and killed processes, of either program

intakeVars == <<record, intake, found>>
writerVars == <<writer, left, batch, toFlag, opened, given>>
vars == <<day, text, files, intakeVars, writerVars, exposed, faults>>

Versions == 0..MaxVersion
Days     == 1..MaxDays
Item     == [of : Conversations, version : Versions]
Entry    == [of : Conversations, version : Versions, day : Days]
File     == [of : Conversations, version : Versions, day : Days, absorbed : BOOLEAN]
Path     == [id : Conversations \X Versions, day : Days]

\* RawEntry.id and RawEntry.filename
Id(e)     == IF e.of \in Long THEN <<e.of, 0>> ELSE <<e.of, e.version>>
PathOf(f) == [id |-> Id(f), day |-> f.day]

Programs == {"intake", "writer"}

TypeOK ==
    /\ day \in Days
    /\ text \in [Conversations -> Versions]
    /\ files \in SUBSET File
    /\ record \in [Conversations -> SUBSET Versions]
    /\ intake \in {"idle", "persist", "mark"}
    /\ found \in SUBSET Item
    /\ writer \in {"idle", "next", "absorb", "flag", "save"}
    /\ left \in SUBSET Entry
    /\ batch \in SUBSET Entry
    /\ toFlag \in SUBSET Path
    /\ opened \in SUBSET File
    /\ given \in [Conversations -> [Versions -> Nat]]
    /\ exposed \in SUBSET Item
    /\ faults \in [Programs -> 0..MaxFaults]

Init ==
    /\ day = 1
    /\ text = [c \in Conversations |-> 0]
    /\ files = {}
    /\ record = [c \in Conversations |-> {}]
    /\ intake = "idle" /\ found = {}
    /\ writer = "idle" /\ left = {} /\ batch = {} /\ toFlag = {} /\ opened = {}
    /\ given = [c \in Conversations |-> [v \in Versions |-> 0]]
    /\ exposed = {}
    /\ faults = [p \in Programs |-> 0]

Fault(p) ==
    /\ faults["intake"] + faults["writer"] < MaxFaults
    /\ faults' = [faults EXCEPT ![p] = @ + 1]

-----------------------------------------------------------------------------
(* TechnicalAbsorbAgent *)

\* Such a text is marked handled with the status too_short, and not queued.  The
\* signature stays that of what was queued before, or missing, so the
\* conversation is looked at again in every run.
TooShort(c, v) == c \in Terse /\ v = 0

\* Not handled, or the signature of the text is not the one that was queued.
Fetch ==
    /\ intake = "idle"
    /\ \E c \in Conversations :
         /\ record[c] # {text[c]}
         /\ ~TooShort(c, text[c])
         /\ found' = {[of |-> c, version |-> text[c]]}
    /\ intake' = "persist"
    /\ UNCHANGED <<day, text, files, record, writerVars, exposed, faults>>

\* The fetch fails, and the preview stands for the text.
FetchFails ==
    /\ intake = "idle"
    /\ Fault("intake")
    /\ \E c \in Conversations :
         /\ record[c] # {0}
         /\ ~TooShort(c, 0)
         /\ found' = {[of |-> c, version |-> 0]}
    /\ intake' = "persist"
    /\ UNCHANGED <<day, text, files, record, writerVars, exposed>>

New(e) == [of |-> e.of, version |-> e.version, day |-> day, absorbed |-> FALSE]

\* The files that make room for entry e.
Replaced(e) == {f \in files : PathOf(f) = PathOf(New(e))}

\* The writer has an entry with the id of e: loaded, in its batch or to flag.
InHand(e) ==
    \/ \E x \in left \cup batch \cup opened : Id(x) = Id(e)
    \/ \E p \in toFlag : p.id = Id(e)

\* _persist_raw_entry
Persist ==
    /\ intake = "persist"
    /\ \E e \in found :
         /\ files' = (files \ Replaced(e)) \cup {New(e)}
         /\ exposed' = exposed
              \cup {x \in {e} : InHand(e)}
              \cup {[of |-> f.of, version |-> f.version] :
                       f \in {g \in Replaced(e) : ~g.absorbed /\ g.version > e.version}}
    /\ intake' = "mark"
    /\ UNCHANGED <<day, text, record, found, writerVars, faults>>

\* The routing record is written after the entry.
MarkQueued ==
    /\ intake = "mark"
    /\ \E e \in found : record' = [record EXCEPT ![e.of] = {e.version}]
    /\ intake' = "idle" /\ found' = {}
    /\ UNCHANGED <<day, text, files, writerVars, exposed, faults>>

\* Faulty variant: what the agent had in hand is marked before it is killed.
IntakeKilled_Marked ==
    /\ intake # "idle"
    /\ Fault("intake")
    /\ \E e \in found : record' = [record EXCEPT ![e.of] = {e.version}]
    /\ intake' = "idle" /\ found' = {}
    /\ UNCHANGED <<day, text, files, writerVars, exposed>>

IntakeKilled ==
    /\ intake # "idle"
    /\ Fault("intake")
    /\ intake' = "idle" /\ found' = {}
    /\ UNCHANGED <<day, text, files, record, writerVars, exposed>>

-----------------------------------------------------------------------------
(* AbsorbWriter *)

EntryOf(f) == [of |-> f.of, version |-> f.version, day |-> f.day]

\* load_unabsorbed
Load ==
    /\ writer = "idle"
    /\ left' = {EntryOf(f) : f \in {g \in files : ~g.absorbed}}
    /\ left' # {}
    /\ writer' = "next"
    /\ UNCHANGED <<day, text, files, intakeVars, batch, toFlag, opened, given, exposed, faults>>

\* The next batch in the order of the lanes, or the end of the run.
NextBatch ==
    /\ writer = "next"
    /\ \/ /\ left = {}
          /\ writer' = "idle"
          /\ UNCHANGED <<left, batch>>
       \/ /\ left # {}
          /\ \E b \in SUBSET left :
               /\ b # {}
               /\ Cardinality(b) = BatchSize \/ (Cardinality(b) < BatchSize /\ b = left)
               /\ (\E e \in b : e.of \notin Urgent) => \A e \in left \ b : e.of \notin Urgent
               /\ batch' = b
               /\ left' = left \ b
          /\ writer' = "absorb"
    /\ UNCHANGED <<day, text, files, intakeVars, toFlag, opened, given, exposed, faults>>

Give(b) ==
    given' = [c \in Conversations |-> [v \in Versions |->
                 given[c][v] + Cardinality({e \in b : e.of = c /\ e.version = v})]]

\* mark_absorbed globs the files of every entry of the batch, of any day.
List == toFlag' = {p \in {PathOf(f) : f \in files} : \E e \in batch : Id(e) = p.id}

\* The model is given the whole batch.
Absorb ==
    /\ writer = "absorb"
    /\ Give(batch)
    /\ List
    /\ writer' = "flag"
    /\ UNCHANGED <<day, text, files, intakeVars, left, batch, opened, exposed, faults>>

\* Faulty variant: the whole batch is checkpointed after a failed call.
AbsorbFails_Checkpoints ==
    /\ writer = "absorb"
    /\ Fault("writer")
    /\ List
    /\ writer' = "flag"
    /\ UNCHANGED <<day, text, files, intakeVars, left, batch, opened, given, exposed>>

\* The call fails, before or after the model has written: the run ends.
AbsorbFails ==
    /\ writer = "absorb"
    /\ Fault("writer")
    /\ Give(batch) \/ UNCHANGED given
    /\ writer' = "idle" /\ left' = {} /\ batch' = {}
    /\ UNCHANGED <<day, text, files, intakeVars, toFlag, opened, exposed>>

\* _flag_entry_absorbed reads a file
OpenFile ==
    /\ writer = "flag"
    /\ \E f \in files :
         /\ PathOf(f) \in toFlag
         /\ opened' = {f}
         /\ toFlag' = toFlag \ {PathOf(f)}
    /\ writer' = "save"
    /\ UNCHANGED <<day, text, files, intakeVars, left, batch, given, exposed, faults>>

\* Faulty variant: the file is written back as it was read.
Flagged_Unset(f) == f

Flagged(f) == [f EXCEPT !.absorbed = TRUE]

\* and puts it back flagged, in place of what the file holds by now.
SaveFile ==
    /\ writer = "save"
    /\ \E f \in opened :
         /\ files' = {g \in files : PathOf(g) # PathOf(f)} \cup {Flagged(f)}
         /\ exposed' = exposed \cup
              {[of |-> e.of, version |-> e.version] : e \in left \cap {EntryOf(f)}}
    /\ opened' = {}
    /\ writer' = "flag"
    /\ UNCHANGED <<day, text, intakeVars, left, batch, toFlag, given, faults>>

\* Every file of the batch is flagged.
Checkpoint ==
    /\ writer = "flag"
    /\ toFlag = {}
    /\ batch' = {}
    /\ writer' = "next"
    /\ UNCHANGED <<day, text, files, intakeVars, left, toFlag, opened, given, exposed, faults>>

WriterKilled ==
    /\ writer # "idle"
    /\ Fault("writer")
    /\ writer' = "idle" /\ left' = {} /\ batch' = {} /\ toFlag' = {} /\ opened' = {}
    /\ UNCHANGED <<day, text, files, intakeVars, given, exposed>>

-----------------------------------------------------------------------------
(* People and time *)

Post ==
    /\ \E c \in Growing :
         /\ text[c] < MaxVersion
         /\ text' = [text EXCEPT ![c] = @ + 1]
    /\ UNCHANGED <<day, files, intakeVars, writerVars, exposed, faults>>

NewDay ==
    /\ day < MaxDays
    /\ day' = day + 1
    /\ UNCHANGED <<text, files, intakeVars, writerVars, exposed, faults>>

Intake == Fetch \/ Persist \/ MarkQueued
Writer == Load \/ NextBatch \/ Absorb \/ OpenFile \/ SaveFile \/ Checkpoint

Next ==
    \/ Intake \/ FetchFails \/ IntakeKilled
    \/ Writer \/ AbsorbFails \/ WriterKilled
    \/ Post \/ NewDay

\* Both are started again and again, and go on once started.
Fairness == WF_vars(Intake) /\ WF_vars(Writer)

Spec == Init /\ [][Next]_vars /\ Fairness

-----------------------------------------------------------------------------
(* Properties *)

\* The model was given this version of c or a later one.
Read(c, v) == \E w \in Versions : w >= v /\ given[c][w] > 0

\* Nothing leaves the queue unread: what a file flagged as absorbed holds was
\* given to the model, but for the versions the code exposes.
AbsorbedMeansRead ==
    \A f \in files : f.absorbed =>
        given[f.of][f.version] > 0 \/ [of |-> f.of, version |-> f.version] \in exposed

\* What a routing record says was queued is in the queue or was read, as it was
\* or as part of a longer version, whatever was killed between the two files,
\* with the same exception.
QueuedIsKept ==
    \A c \in Conversations : \A v \in record[c] :
        \/ Read(c, v)
        \/ \E f \in files : f.of = c /\ f.version >= v /\ ~f.absorbed
        \/ \E w \in Versions : w >= v /\ [of |-> c, version |-> w] \in exposed

\* A version is queued once, and once more for each failure of the intake agent;
\* and each time it is queued it is given to the model once, and once more for
\* each failure of the writer.  Nothing else reads it twice: not a change of day,
\* a version queued on top of it, or one that shares its id.
GivenOnce ==
    \A c \in Conversations, v \in Versions :
        given[c][v] <= (1 + faults["intake"]) * (1 + faults["writer"])

\* The text a conversation ends with reaches the model, unless it is too short to
\* be queued or was exposed.  One that was too short at first reaches it as well
\* once it has grown.
LatestReaches ==
    \A c \in Conversations, v \in Versions :
        text[c] = v ~> \/ text[c] # v \/ given[c][v] > 0
                       \/ TooShort(c, v) \/ [of |-> c, version |-> v] \in exposed

=============================================================================
