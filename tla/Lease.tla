-------------------------------- MODULE Lease --------------------------------
(***************************************************************************)
(* What claim() and release() promise: every key is free or leased to one  *)
(* owner for a time; a lease moves to another owner only after it has been *)
(* given up or has run out.                                                *)
(***************************************************************************)
EXTENDS Integers

CONSTANTS Keys, Owners, Durations, Free

VARIABLE lease    \* key -> Free, or its owner and the time left

Leases == [owner : Owners, left : Nat \ {0}]

LeaseType == lease \in [Keys -> Leases \cup {Free}]

Init == lease = [k \in Keys |-> Free]

\* A free key is granted; an owner may have its own lease set anew.
Grant(o, k, d) ==
  /\ lease[k] = Free \/ lease[k].owner = o
  /\ lease' = [lease EXCEPT ![k] = [owner |-> o, left |-> d]]

\* An owner gives up some of the keys it holds.
GiveUp(o, ks) ==
  /\ \A k \in ks : lease[k] # Free /\ lease[k].owner = o
  /\ lease' = [k \in Keys |-> IF k \in ks THEN Free ELSE lease[k]]

\* Time passes for every lease at once.
Elapse ==
  lease' = [k \in Keys |->
              IF lease[k] = Free \/ lease[k].left = 1 THEN Free
              ELSE [lease[k] EXCEPT !.left = @ - 1]]

Next ==
  \/ \E o \in Owners, k \in Keys, d \in Durations : Grant(o, k, d)
  \/ \E o \in Owners, ks \in SUBSET Keys : GiveUp(o, ks)
  \/ Elapse

Spec == Init /\ [][Next]_lease
=============================================================================
