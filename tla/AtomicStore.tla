---------------------------- MODULE AtomicStore -----------------------------
(***************************************************************************)
(* What callers of StateStore rely on: a map from keys to values in which  *)
(* setting or deleting one key changes that key only, all at once, and     *)
(* what a set call has written is there when the call is over.             *)
(***************************************************************************)
CONSTANTS Keys,    \* keys of the store
          Values,  \* values a key can be set to
          None     \* stands for a missing key

VARIABLE data

TypeOK == data \in [Keys -> Values \cup {None}]

Init == data = [k \in Keys |-> None]

Put(k, v) == data' = [data EXCEPT ![k] = v]

Next == \E k \in Keys, v \in Values \cup {None} : Put(k, v)

Spec == Init /\ [][Next]_data
=============================================================================
