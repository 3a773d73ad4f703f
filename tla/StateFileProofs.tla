--------------------------- MODULE StateFileProofs --------------------------
(***************************************************************************)
(* With one caller at a time the state file is never torn, keeps what      *)
(* returned calls wrote, and implements the atomic map of AtomicStore; for *)
(* any keys and values, and wherever the caller is killed.                 *)
(***************************************************************************)
EXTENDS StateFile, TLAPS

USE NoneAssumption

\* The value of Load of a whole file, and the type of a dump.
LEMMA WholeIsContent ==
    /\ \A d \in Data : Whole(d) \in Content /\ Load(Whole(d)) = d /\ Whole(d).kind = "whole"
    /\ NoKeys \in Data
    /\ Empty \in Content /\ Torn \in Content
    /\ \A d \in Data, k \in Keys, v \in Values \cup {None} : [d EXCEPT ![k] = v] \in Data
<1>1. NoKeys \in Data
  BY DEF NoKeys, Data
<1>2. QED
  BY <1>1 DEF Whole, Content, Load, Empty, Torn, Data

LEMMA TypeStep ==
    ASSUME TypeOK, NEW c \in Callers,
           \/ \E k \in Keys, v \in Values \cup {None} : Begin(c, k, v)
           \/ Open(c) \/ Write(c) \/ Replace(c) \/ Crash(c)
    PROVE  TypeOK'
<1>1. copy[c] \in Data /\ Load(live) \in Data /\ Load(seen[c]) \in Data
  BY DEF TypeOK, Load, Content
<1>2. ASSUME NEW k \in Keys, NEW v \in Values \cup {None}, Begin(c, k, v)
      PROVE  TypeOK'
  BY <1>1, <1>2, WholeIsContent DEF TypeOK, Begin
<1>3. CASE Open(c)
  BY <1>3, WholeIsContent DEF TypeOK, Open
<1>4. CASE Write(c)
  <2>1. \A old \in Content : Written(old, copy[c]) \subseteq Content
    BY <1>1, WholeIsContent DEF Written
  <2>2. \A old \in tmp : old \in Content
    BY DEF TypeOK
  <2>3. live' \in Content /\ tmp' \in {{}} \cup {{x} : x \in Content}
    <3>1. CASE fd[c] = "tmp"
      BY <1>4, <2>1, <2>2, <3>1 DEF TypeOK, Write
    <3>2. CASE fd[c] = "live"
      BY <1>4, <2>1, <3>2 DEF TypeOK, Write
    <3>3. CASE fd[c] # "tmp" /\ fd[c] # "live"
      BY <1>4, <3>3 DEF TypeOK, Write
    <3>4. QED
      BY <3>1, <3>2, <3>3
  <2>4. QED
    BY <1>4, <2>3 DEF TypeOK, Write
<1>5. CASE Replace(c)
  <2>1. CASE tmp = {}
    BY <1>5, <2>1 DEF TypeOK, Replace
  <2>2. CASE tmp # {}
    <3>1. live' \in Content /\ tmp' = {}
      BY <1>5, <2>2 DEF TypeOK, Replace
    <3>2. returned' \in Data
      <4>1. returned' = [k \in Keys |-> IF copy[c][k] # Load(seen[c])[k]
                                        THEN copy[c][k] ELSE returned[k]]
        BY <1>5, <2>2 DEF Replace
      <4>2. QED
        BY <1>1, <4>1 DEF TypeOK, Data
    <3>3. fd' \in [Callers -> {"none", "tmp", "live", "gone"}]
      BY <1>5, <2>2 DEF TypeOK, Replace
    <3>4. QED
      BY <1>5, <3>1, <3>2, <3>3 DEF TypeOK, Replace
  <2>3. QED
    BY <2>1, <2>2
<1>6. CASE Crash(c)
  BY <1>6 DEF TypeOK, Crash
<1>7. QED
  BY <1>2, <1>3, <1>4, <1>5, <1>6

\* However many callers share the file and wherever they are killed, the state
\* has its type: what a reader can find is a whole, an empty or a torn dump.
THEOREM TypeCorrect == Spec => []TypeOK
<1>1. Init => TypeOK
  BY WholeIsContent DEF Init, TypeOK
<1>2. TypeOK /\ [Next]_vars => TypeOK'
  BY TypeStep DEF Next, vars, TypeOK
<1>3. QED
  BY <1>1, <1>2, PTL DEF Spec

\* How far the one caller has got, and what the two files then hold.
Solo(c) ==
    /\ live = Whole(returned)
    /\ returned \in Data
    /\ tmp \in {{}} \cup {{x} : x \in Content}
    /\ fd \in [Callers -> {"none", "tmp", "live", "gone"}]
    /\ pc \in [Callers -> {"idle", "loaded", "opened", "written"}]
    /\ copy \in [Callers -> Data]
    /\ seen \in [Callers -> Content]
    /\ fd[c] = IF pc[c] = "opened" THEN "tmp" ELSE "none"
    /\ pc[c] # "idle" =>
         /\ seen[c] = live
         /\ \E k \in Keys, v \in Values \cup {None} : copy[c] = [returned EXCEPT ![k] = v]
    /\ pc[c] = "opened" => tmp = {Empty}
    /\ pc[c] = "written" => tmp = {Whole(copy[c])}

LEMMA SoloInit == ASSUME NEW c, Callers = {c}, Init PROVE Solo(c)
BY WholeIsContent DEF Init, Solo

\* The rename puts the caller's dictionary in place and changes one key.
LEMMA SoloReplace ==
    ASSUME NEW c, Callers = {c}, Solo(c), Replace(c)
    PROVE  /\ Solo(c)'
           /\ \E k \in Keys, v \in Values \cup {None} : Load(live)' = [Load(live) EXCEPT ![k] = v]
<1>1. /\ pc[c] = "written" /\ tmp = {Whole(copy[c])} /\ copy[c] \in Data
      /\ seen[c] = Whole(returned) /\ returned \in Data
  BY DEF Replace, Solo
<1>2. live' = Whole(copy[c]) /\ tmp' = {}
  BY <1>1 DEF Replace
<1>3. returned' = copy[c]
  <2>1. returned' = [k \in Keys |-> IF copy[c][k] # returned[k] THEN copy[c][k] ELSE returned[k]]
    BY <1>1, WholeIsContent DEF Replace
  <2>2. QED
    BY <1>1, <2>1 DEF Data
<1>4. fd'[c] = "none" /\ fd' \in [Callers -> {"none", "tmp", "live", "gone"}]
  BY <1>1 DEF Replace, Solo
<1>5. pc'[c] = "idle" /\ pc' \in [Callers -> {"idle", "loaded", "opened", "written"}]
      /\ UNCHANGED <<copy, seen>>
  BY DEF Replace, Solo
<1>6. Solo(c)'
  BY <1>1, <1>2, <1>3, <1>4, <1>5 DEF Solo
<1>7. PICK k \in Keys, v \in Values \cup {None} : copy[c] = [returned EXCEPT ![k] = v]
  BY <1>1 DEF Solo
<1>8. Load(live) = returned /\ Load(live)' = copy[c]
  BY <1>1, <1>2, WholeIsContent DEF Solo, Load
<1>9. QED
  BY <1>6, <1>7, <1>8

\* Every other step leaves the live file as it is.
LEMMA SoloOther ==
    ASSUME NEW c, Callers = {c}, Solo(c),
           \/ \E k \in Keys, v \in Values \cup {None} : Begin(c, k, v)
           \/ Open(c) \/ Write(c) \/ Crash(c) \/ UNCHANGED vars
    PROVE  Solo(c)' /\ live' = live
<1>1. ASSUME NEW k \in Keys, NEW v \in Values \cup {None}, Begin(c, k, v)
      PROVE  Solo(c)' /\ live' = live
  <2>1. Load(live) = returned /\ live \in Content
    BY WholeIsContent DEF Solo
  <2>2. copy'[c] = [returned EXCEPT ![k] = v] /\ copy' \in [Callers -> Data]
    BY <1>1, <2>1, WholeIsContent DEF Begin, Solo
  <2>3. seen'[c] = live /\ seen' \in [Callers -> Content]
    BY <1>1, <2>1 DEF Begin, Solo
  <2>4. QED
    BY <1>1, <2>2, <2>3 DEF Begin, Solo
<1>2. CASE Open(c)
  BY <1>2, WholeIsContent DEF Open, Solo
<1>3. CASE Write(c)
  <2>1. fd[c] = "tmp" /\ tmp = {Empty} /\ copy[c] \in Data
    BY <1>3 DEF Write, Solo
  <2>2. tmp' = {Whole(copy[c])} /\ live' = live
    BY <1>3, <2>1 DEF Write, Written
  <2>3. QED
    BY <1>3, <2>1, <2>2, WholeIsContent DEF Write, Solo
<1>4. CASE Crash(c)
  BY <1>4 DEF Crash, Solo
<1>5. CASE UNCHANGED vars
  BY <1>5 DEF vars, Solo
<1>6. QED
  BY <1>1, <1>2, <1>3, <1>4, <1>5

LEMMA SoloStep ==
    ASSUME NEW c, Callers = {c}
    PROVE  /\ Solo(c) /\ [Next]_vars => Solo(c)'
           /\ Solo(c) /\ [Next]_vars => [Abstract!Next]_(Load(live))
<1> SUFFICES ASSUME Solo(c), [Next]_vars PROVE Solo(c)' /\ [Abstract!Next]_(Load(live))
  OBVIOUS
<1>1. CASE Replace(c)
  BY <1>1, SoloReplace DEF Abstract!Next, Abstract!Put
<1>2. CASE ~Replace(c)
  <2>1. \/ \E k \in Keys, v \in Values \cup {None} : Begin(c, k, v)
        \/ Open(c) \/ Write(c) \/ Crash(c) \/ UNCHANGED vars
    BY <1>2 DEF Next
  <2>2. QED
    BY <2>1, SoloOther DEF Load
<1>3. QED BY <1>1, <1>2

\* The file is a whole dump at every moment, and a reader or a restart finds
\* what the last call that returned has written.
THEOREM OneCallerKeepsTheFile ==
    ASSUME NEW c, Callers = {c}
    PROVE  Spec => [](LiveIsWhole /\ ReturnedIsKept)
<1>1. Solo(c) => LiveIsWhole /\ ReturnedIsKept
  BY WholeIsContent DEF Solo, LiveIsWhole, ReturnedIsKept
<1>2. Init => Solo(c)
  BY SoloInit
<1>3. Solo(c) /\ [Next]_vars => Solo(c)'
  BY SoloStep
<1>4. QED
  BY <1>1, <1>2, <1>3, PTL DEF Spec

\* What a returned set or delete gave a key stays until the next one.
THEOREM OneCallerKeepsReturned ==
    ASSUME NEW c, Callers = {c}
    PROVE  Spec => []ReturnedIsKept
BY OneCallerKeepsTheFile, PTL

\* Each call of set or delete takes effect at its rename, all at once, on one key.
THEOREM OneCallerIsAtomic ==
    ASSUME NEW c, Callers = {c}
    PROVE  Spec => ImplementsAtomicStore
<1>1. Init => Abstract!Init
  BY DEF Init, Abstract!Init, Load, Whole, NoKeys
<1>2. Init => Solo(c)
  BY SoloInit
<1>3. Solo(c) /\ [Next]_vars => Solo(c)' /\ [Abstract!Next]_(Load(live))
  BY SoloStep
<1>4. QED
  BY <1>1, <1>2, <1>3, PTL DEF Spec, Abstract!Spec, ImplementsAtomicStore

=============================================================================
