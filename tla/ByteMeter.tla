----------------------------- MODULE ByteMeter -----------------------------
(***************************************************************************)
(* What the metering of user traffic promises, whatever is lost, repeated  *)
(* or restarted on the way: a byte is counted at most once, and what was   *)
(* counted is either in the current quota period or in the snapshot of the *)
(* reset that closed an earlier one.                                       *)
(***************************************************************************)
EXTENDS Integers

CONSTANT Users

VARIABLES
    carried,   \* the bytes the node has carried for each user
    lifetime,  \* traffic_accounts.lifetime_*: the bytes counted so far
    used,      \* traffic_accounts.used_*: those of the current quota period
    closed     \* the sum of the snapshots of the resets

vars == <<carried, lifetime, used, closed>>

Init == /\ carried = [u \in Users |-> 0]
        /\ lifetime = [u \in Users |-> 0]
        /\ used = [u \in Users |-> 0]
        /\ closed = [u \in Users |-> 0]

Carry == /\ carried' # carried
         /\ \A u \in Users : carried'[u] >= carried[u]
         /\ UNCHANGED <<lifetime, used, closed>>

\* One report counts bytes of several users, never more than were carried.
Count == /\ lifetime' # lifetime
         /\ \A u \in Users : /\ lifetime'[u] >= lifetime[u]
                             /\ lifetime'[u] <= carried[u]
                             /\ used'[u] - used[u] = lifetime'[u] - lifetime[u]
         /\ UNCHANGED <<carried, closed>>

Reset(u) == /\ closed' = [closed EXCEPT ![u] = @ + used[u]]
            /\ used' = [used EXCEPT ![u] = 0]
            /\ UNCHANGED <<carried, lifetime>>

Next == Carry \/ Count \/ \E u \in Users : Reset(u)

Spec == Init /\ [][Next]_vars
=============================================================================
