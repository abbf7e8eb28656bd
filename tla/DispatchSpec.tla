---------------------------- MODULE DispatchSpec ----------------------------
(***************************************************************************)
(* What the bounded concurrent dispatch loop promises (spec sections 4.3  *)
(* and 8), without its buffers, queue, group or return codes:             *)
(*                                                                         *)
(*  - requests are taken from the kernel one at a time, in order;          *)
(*  - every request taken is processed once, never twice;                 *)
(*  - the loop stops taking requests at some point, and may then drop the *)
(*    one request it took last (an allocation failure is fatal to that    *)
(*    iteration);                                                          *)
(*  - it returns only when every request it took was processed or dropped.*)
(***************************************************************************)
EXTENDS Naturals

CONSTANT MaxRequests   \* requests the kernel delivers in one run

VARIABLES
    read,      \* requests taken from the kernel so far: 1..read
    count,     \* count[i]: how many times request i was processed
    lost,      \* the requests dropped without processing
    open,      \* the loop still takes requests
    returned   \* the loop has returned

vars == <<read, count, lost, open, returned>>

Ids == 1..MaxRequests

Init ==
    /\ read = 0
    /\ count = [i \in Ids |-> 0]
    /\ lost = {}
    /\ open = TRUE
    /\ returned = FALSE

Receive ==
    /\ open /\ read < MaxRequests
    /\ read' = read + 1
    /\ UNCHANGED <<count, lost, open, returned>>

Complete(i) ==
    /\ i \in 1..read \ lost
    /\ count[i] = 0
    /\ count' = [count EXCEPT ![i] = 1]
    /\ UNCHANGED <<read, lost, open, returned>>

Close ==
    /\ open
    /\ open' = FALSE
    /\ UNCHANGED <<read, count, lost, returned>>

(* The last request taken is dropped and the loop stops taking more.      *)
Lose ==
    /\ open /\ read > 0 /\ count[read] = 0
    /\ lost' = {read}
    /\ open' = FALSE
    /\ UNCHANGED <<read, count, returned>>

Return ==
    /\ ~returned
    /\ \A i \in 1..read : count[i] = 1 \/ i \in lost
    /\ open' = FALSE
    /\ returned' = TRUE
    /\ UNCHANGED <<read, count, lost>>

Next == Receive \/ (\E i \in Ids : Complete(i)) \/ Close \/ Lose \/ Return

Spec == Init /\ [][Next]_vars

=============================================================================
