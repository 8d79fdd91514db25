------------------------------- MODULE Quota --------------------------------
(***************************************************************************)
(* What the daily counter of core/ratelimit.py promises: of each account   *)
(* (a model on one Pacific-time day) at most Cap requests are granted, and *)
(* one is refused only when Cap have been.  One atomic step each.          *)
(***************************************************************************)
EXTENDS Naturals
CONSTANTS Accounts, Cap
VARIABLES granted, refused

Init == granted = [a \in Accounts |-> 0] /\ refused = [a \in Accounts |-> FALSE]

Grant(a) ==
    /\ granted[a] < Cap[a]
    /\ granted' = [granted EXCEPT ![a] = @ + 1]
    /\ UNCHANGED refused

Refuse(a) ==
    /\ granted[a] = Cap[a]
    /\ refused' = [refused EXCEPT ![a] = TRUE]
    /\ UNCHANGED granted

Next == \E a \in Accounts : Grant(a) \/ Refuse(a)
Spec == Init /\ [][Next]_<<granted, refused>>
=============================================================================
