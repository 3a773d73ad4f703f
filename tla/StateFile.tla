----------------------------- MODULE StateFile ------------------------------
(***************************************************************************)
(* StateStore (agents/gates.py): a JSON file that every set and delete     *)
(* reads whole, changes in memory and writes back through a temporary file *)
(* and a rename.  The temporary file has one fixed name, so callers share  *)
(* it.  LocalWikiStore writes its pages the same way (wiki/store.py).      *)
(*                                                                         *)
(* Files are modelled down to the inode: write_text opens and truncates,   *)
(* then writes; rename moves whatever inode has the temporary name; and a  *)
(* caller that still has that inode open then writes into the live file.   *)
(***************************************************************************)
CONSTANTS
    Keys, Values, None,
    Callers      \* processes and threads that call set and delete

ASSUME NoneAssumption == None \notin Values

VARIABLES
    live,     \* content of state.json
    tmp,      \* content of state.json.tmp, as a set of at most one element
    fd,       \* which file each caller has open for writing
    pc,       \* where each caller is in set or delete
    copy,     \* the dictionary each caller loaded and changed
    seen,     \* what each caller last loaded
    returned  \* history: the value each key was given by the last call that returned

vars == <<live, tmp, fd, pc, copy, seen, returned>>

Data == [Keys -> Values \cup {None}]

\* A file is a whole dump of a dictionary, empty, or a mixture of two dumps.
Whole(d) == [kind |-> "whole", data |-> d]
NoKeys   == [k \in Keys |-> None]
Empty    == [kind |-> "empty", data |-> NoKeys]
Torn     == [kind |-> "torn",  data |-> NoKeys]
Content  == [kind : {"whole", "empty", "torn"}, data : Data]

\* _load answers {} for a file it cannot parse.
Load(content) == content.data

TypeOK ==
    /\ live \in Content
    /\ tmp \in {{}} \cup {{c} : c \in Content}
    /\ fd \in [Callers -> {"none", "tmp", "live", "gone"}]
    /\ pc \in [Callers -> {"idle", "loaded", "opened", "written"}]
    /\ copy \in [Callers -> Data]
    /\ seen \in [Callers -> Content]
    /\ returned \in Data

Init ==
    /\ live = Whole(NoKeys)
    /\ tmp = {}
    /\ fd = [c \in Callers |-> "none"]
    /\ pc = [c \in Callers |-> "idle"]
    /\ copy = [c \in Callers |-> NoKeys]
    /\ seen = [c \in Callers |-> Whole(NoKeys)]
    /\ returned = NoKeys

-----------------------------------------------------------------------------
\* Faulty variant: changes a fresh dictionary instead of the loaded one.
Begin_Fresh(c, k, v) ==
    /\ pc[c] = "idle"
    /\ v = None => Load(live)[k] # None
    /\ seen' = [seen EXCEPT ![c] = live]
    /\ copy' = [copy EXCEPT ![c] = [NoKeys EXCEPT ![k] = v]]
    /\ pc' = [pc EXCEPT ![c] = "loaded"]
    /\ UNCHANGED <<live, tmp, fd, returned>>

\* set(k, v), or delete(k) of a key that is there when v is None: load, change.
Begin(c, k, v) ==
    /\ pc[c] = "idle"
    /\ v = None => Load(live)[k] # None
    /\ seen' = [seen EXCEPT ![c] = live]
    /\ copy' = [copy EXCEPT ![c] = [Load(live) EXCEPT ![k] = v]]
    /\ pc' = [pc EXCEPT ![c] = "loaded"]
    /\ UNCHANGED <<live, tmp, fd, returned>>

\* Faulty variant: opens the live file and writes it in place.
Open_InPlace(c) ==
    /\ pc[c] = "loaded"
    /\ live' = Empty
    /\ fd' = [fd EXCEPT ![c] = "live"]
    /\ pc' = [pc EXCEPT ![c] = "opened"]
    /\ UNCHANGED <<tmp, copy, seen, returned>>

\* tmp.write_text, first half: the file is created or truncated.
Open(c) ==
    /\ pc[c] = "loaded"
    /\ tmp' = {Empty}
    /\ fd' = [fd EXCEPT ![c] = "tmp"]
    /\ pc' = [pc EXCEPT ![c] = "opened"]
    /\ UNCHANGED <<live, copy, seen, returned>>

\* Over a file that is not empty a shorter dump leaves a tail of the other one.
Written(old, d) == {Whole(d)} \cup (IF old = Empty THEN {} ELSE {Torn})

\* tmp.write_text, second half: into the inode that was opened.
Write(c) ==
    /\ pc[c] = "opened"
    /\ CASE fd[c] = "tmp"  -> /\ \E old \in tmp : \E new \in Written(old, copy[c]) : tmp' = {new}
                              /\ UNCHANGED live
         [] fd[c] = "live" -> (\E new \in Written(live, copy[c]) : live' = new) /\ UNCHANGED tmp
         [] OTHER          -> UNCHANGED <<live, tmp>>
    /\ fd' = [fd EXCEPT ![c] = "none"]
    /\ pc' = [pc EXCEPT ![c] = "written"]
    /\ UNCHANGED <<copy, seen, returned>>

\* tmp.replace: FileNotFoundError when another caller has moved the file away.
Replace(c) ==
    /\ pc[c] = "written"
    /\ IF tmp = {}
       THEN UNCHANGED <<live, tmp, fd, returned>>
       ELSE /\ live' \in tmp
            /\ tmp' = {}
            /\ fd' = [q \in Callers |-> CASE fd[q] = "tmp"  -> "live"
                                          [] fd[q] = "live" -> "gone"
                                          [] OTHER          -> fd[q]]
            /\ returned' = [k \in Keys |-> IF copy[c][k] # Load(seen[c])[k]
                                           THEN copy[c][k] ELSE returned[k]]
    /\ pc' = [pc EXCEPT ![c] = "idle"]
    /\ UNCHANGED <<copy, seen>>

\* The caller is killed: what it has written so far stays.
Crash(c) ==
    /\ pc[c] # "idle"
    /\ fd' = [fd EXCEPT ![c] = "none"]
    /\ pc' = [pc EXCEPT ![c] = "idle"]
    /\ UNCHANGED <<live, tmp, copy, seen, returned>>

Next ==
    \E c \in Callers :
        \/ \E k \in Keys, v \in Values \cup {None} : Begin(c, k, v)
        \/ Open(c) \/ Write(c) \/ Replace(c) \/ Crash(c)

Spec == Init /\ [][Next]_vars

-----------------------------------------------------------------------------
(* Properties *)

\* state.json is at every moment a whole dump: a reader, or a restart after a
\* crash, finds the state before or after a call and never loses it all.
LiveIsWhole == live.kind = "whole"

\* A key has the value given by the last set or delete of it that returned.
ReturnedIsKept == Load(live) = returned

\* With one caller at a time the file implements the atomic map.
Abstract == INSTANCE AtomicStore WITH data <- Load(live)
ImplementsAtomicStore == Abstract!Spec

=============================================================================
