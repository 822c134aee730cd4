------------------------------- MODULE Claims -------------------------------
(***************************************************************************)
(* The claims table: claim, release, list_claims, and what registration    *)
(* does to it.  Every operation is one BEGIN IMMEDIATE transaction that    *)
(* reads the clock inside, so it is one action.                            *)
(*                                                                         *)
(* Times are kept as the time left, expires_at_ms - now, and never below   *)
(* zero: a row with nothing left is expired but still stored, as in the    *)
(* code, until the next claim overwrites it.  Tick is the passing of one   *)
(* unit of time.                                                           *)
(*                                                                         *)
(* belief is what the sessions have been told: the time for which the      *)
(* session now registered as a name may think it holds a key, from the     *)
(* expires_at of its last successful claim.  earlier is what is left of    *)
(* what the name's former sessions were told, those that crashed and those *)
(* that a takeover replaced.                                               *)
(***************************************************************************)
EXTENDS Integers, FiniteSets

CONSTANTS
  Names,       \* agent names
  Keys,        \* claim keys
  Durations,   \* the ttl_seconds callers ask for
  NoRow        \* a key with no row, and a lease that is free

ASSUME ClaimsAssumption ==
  /\ Durations \subseteq Nat \ {0}
  /\ NoRow \notin [holder : Names, left : Nat]
  /\ NoRow \notin [owner : Names, left : Nat \ {0}]

VARIABLES
  claims,      \* key -> its row, or NoRow
  registered,  \* names with a row in agents
  crashed,     \* registered names whose session died without unregistering
  belief,      \* name -> key -> time its session may think it holds the key
  earlier      \* history: name -> key -> time a former session was told, of a
               \* key that the name has not given up or claimed since

vars == <<claims, registered, crashed, belief, earlier>>

Row == [holder : Names, left : Nat]

TypeOK ==
  /\ claims \in [Keys -> Row \cup {NoRow}]
  /\ registered \subseteq Names
  /\ crashed \subseteq registered
  /\ belief \in [Names -> [Keys -> Nat]]
  /\ earlier \in [Names -> [Keys -> Nat]]

\* expires_at_ms > now_ms
Live(k) == claims[k] # NoRow /\ claims[k].left > 0
Holds(n, k) == claims[k] # NoRow /\ claims[k].holder = n
Running(n) == n \in registered \ crashed

Greater(x, y) == IF x > y THEN x ELSE y

\* The session of the name is another one from now on, or none; what it was
\* told becomes history.
Replaced(n) ==
  /\ belief' = [belief EXCEPT ![n] = [k \in Keys |-> 0]]
  /\ earlier' = [earlier EXCEPT ![n] = [k \in Keys |-> Greater(belief[n][k], earlier[n][k])]]

\* The reply of a call about a key; and of one that also decides it anew for
\* everybody who was told of it under this name.
Told(n, k, left) == belief' = [belief EXCEPT ![n] = [@ EXCEPT ![k] = left]]
Decided(n, k, left) ==
  /\ Told(n, k, left)
  /\ earlier' = [earlier EXCEPT ![n] = [@ EXCEPT ![k] = 0]]

\* Mutant of ClaimLost: an attempt on a held key renews it.
ClaimLostRenews(n, k) ==
  /\ Running(n)
  /\ Live(k) /\ ~Holds(n, k)
  /\ claims' = [claims EXCEPT ![k] =
       [@ EXCEPT !.left = CHOOSE d \in Durations : \A e \in Durations : e <= d]]
  /\ Told(n, k, 0)
  /\ UNCHANGED <<registered, crashed, earlier>>

\* claimed=False: somebody else's row has not expired.
ClaimLost(n, k) ==
  /\ Running(n)
  /\ Live(k) /\ ~Holds(n, k)
  /\ Told(n, k, 0)
  /\ UNCHANGED <<claims, registered, crashed, earlier>>

\* Mutant of ClaimWon: the expiry of another's row is not looked at.
ClaimWonUnchecked(n, k, d) ==
  /\ Running(n)
  /\ claims' = [claims EXCEPT ![k] = [holder |-> n, left |-> d]]
  /\ Decided(n, k, d)
  /\ UNCHANGED <<registered, crashed>>

\* claimed=True: the key had no row, an expired one, or this name's own.
ClaimWon(n, k, d) ==
  /\ Running(n)
  /\ Live(k) => Holds(n, k)
  /\ claims' = [claims EXCEPT ![k] = [holder |-> n, left |-> d]]
  /\ Decided(n, k, d)
  /\ UNCHANGED <<registered, crashed>>

\* Mutant of Release: AND holder = ? is missing.
ReleaseAnyones(n, k) ==
  /\ Running(n)
  /\ claims[k] # NoRow
  /\ claims' = [claims EXCEPT ![k] = NoRow]
  /\ Decided(n, k, 0)
  /\ UNCHANGED <<registered, crashed>>

\* DELETE ... WHERE key = ? AND holder = ?, whether or not it has expired.
Release(n, k) ==
  /\ Running(n)
  /\ Holds(n, k)
  /\ claims' = [claims EXCEPT ![k] = NoRow]
  /\ Decided(n, k, 0)
  /\ UNCHANGED <<registered, crashed>>

\* release() of a key held by somebody else: nothing changes but what the
\* caller now knows.
ReleaseOthers(n, k) ==
  /\ Running(n)
  /\ ~Holds(n, k)
  /\ Told(n, k, 0)
  /\ UNCHANGED <<claims, registered, crashed, earlier>>

\* Mutant of Register: a takeover drops the name's claims, as unregister does.
RegisterDropsClaims(n) ==
  /\ registered' = registered \cup {n}
  /\ crashed' = crashed \ {n}
  /\ claims' = [k \in Keys |-> IF Holds(n, k) THEN NoRow ELSE claims[k]]
  /\ Replaced(n)

\* A first registration, or a takeover: the row in agents is updated in place
\* and the name keeps its claims, of which the new session knows nothing.
Register(n) ==
  /\ registered' = registered \cup {n}
  /\ crashed' = crashed \ {n}
  /\ Replaced(n)
  /\ UNCHANGED claims

\* The session leaves, and the name gives up all that anybody was told.
Left(n) ==
  /\ belief' = [belief EXCEPT ![n] = [k \in Keys |-> 0]]
  /\ earlier' = [earlier EXCEPT ![n] = [k \in Keys |-> 0]]

\* Mutant of Unregister: the claims are left to run out.
UnregisterKeepsClaims(n) ==
  /\ Running(n)
  /\ registered' = registered \ {n}
  /\ Left(n)
  /\ UNCHANGED <<claims, crashed>>

Unregister(n) ==
  /\ Running(n)
  /\ registered' = registered \ {n}
  /\ claims' = [k \in Keys |-> IF Holds(n, k) THEN NoRow ELSE claims[k]]
  /\ Left(n)
  /\ UNCHANGED crashed

\* The session ends without a word; nothing in the store changes.
Crash(n) ==
  /\ Running(n)
  /\ crashed' = crashed \cup {n}
  /\ Replaced(n)
  /\ UNCHANGED <<claims, registered>>

\* Mutant of Less: an expired row goes on counting.
LessForever(x) == x - 1

Less(x) == IF x > 0 THEN x - 1 ELSE 0

Tick ==
  /\ claims' = [k \in Keys |->
                  IF claims[k] = NoRow THEN NoRow
                  ELSE [holder |-> claims[k].holder, left |-> Less(claims[k].left)]]
  /\ belief' = [n \in Names |-> [k \in Keys |-> Less(belief[n][k])]]
  /\ earlier' = [n \in Names |-> [k \in Keys |-> Less(earlier[n][k])]]
  /\ UNCHANGED <<registered, crashed>>

Init ==
  /\ claims = [k \in Keys |-> NoRow]
  /\ registered = {} /\ crashed = {}
  /\ belief = [n \in Names |-> [k \in Keys |-> 0]]
  /\ earlier = belief

Next ==
  \/ \E n \in Names, k \in Keys :
       \/ ClaimLost(n, k) \/ Release(n, k) \/ ReleaseOthers(n, k)
       \/ \E d \in Durations : ClaimWon(n, k, d)
  \/ \E n \in Names : Register(n) \/ Unregister(n) \/ Crash(n)
  \/ Tick

Spec == Init /\ [][Next]_vars

\* Time does not stop; no agent is obliged to do anything.
FairSpec == Spec /\ WF_vars(Tick)

(***************************************************************************)
(* Properties                                                              *)
(***************************************************************************)
\* claim's "two agents racing for the same key cannot both win": no session is
\* told it holds a key while that of another name may still think so, and be
\* it one that has crashed or lost its name and has not heard of it.
Exclusive ==
  \A n, m \in Names, k \in Keys :
    belief[n][k] > 0 /\ (belief[m][k] > 0 \/ earlier[m][k] > 0) => n = m

\* What a session was told is backed by the table for just as long as it was
\* told: nobody's claim, release, departure or takeover cuts it short, and no
\* attempt prolongs it.
BeliefBacked ==
  \A n \in Names, k \in Keys : belief[n][k] > 0 =>
    /\ n \in registered
    /\ Holds(n, k) /\ claims[k].left = belief[n][k]

\* "A released name holds nothing": no row, not even an expired one, names an
\* agent that has unregistered, so nothing waits out a departed agent's TTL.
HoldersRegistered ==
  \A k \in Keys : claims[k] # NoRow => claims[k].holder \in registered

\* A claim outlives the session that made it: after a crash, and after any
\* number of takeovers of the name, nobody but a session of the same name can
\* end or prolong it, so an agent that recovers its name finds what it was told
\* and a dead one's key comes free when it was said to.
NameKeepsClaims ==
  \A n \in Names, k \in Keys : earlier[n][k] > 0 =>
    Holds(n, k) /\ claims[k].left = earlier[n][k]

\* What list_claims shows: a live row is a lease, an expired one is as good as
\* none.
Leased ==
  [k \in Keys |-> IF Live(k)
                  THEN [owner |-> claims[k].holder, left |-> claims[k].left]
                  ELSE NoRow]

\* The claims table implements the abstract lease.
Abstract == INSTANCE Lease WITH Owners <- Names, Free <- NoRow, lease <- Leased
LeaseSpec == Abstract!Spec

\* A claim whose holder crashed lapses by itself, whatever the other agents
\* do meanwhile; only a new session under the same name can keep it alive.
CrashedClaimLapses ==
  \A n \in Names, k \in Keys :
    n \in crashed /\ Holds(n, k) ~> (n \notin crashed \/ ~(Holds(n, k) /\ Live(k)))
=============================================================================
