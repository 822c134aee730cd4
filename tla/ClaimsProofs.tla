---------------------------- MODULE ClaimsProofs ----------------------------
(***************************************************************************)
(* For every set of names, keys and durations: the claims table is         *)
(* exclusive, backs what it told its callers, and implements Lease.        *)
(***************************************************************************)
EXTENDS Claims, TLAPS

\* Beliefs are backed by rows, and rows by registrations; either alone is not
\* inductive, since unregistering deletes the rows a belief would need.  What
\* former sessions were told was the belief of one when it was replaced.
IInv == TypeOK /\ BeliefBacked /\ NameKeepsClaims /\ HoldersRegistered

\* The initial state of the store has no claims.
LEMMA InitInv == Init => IInv
  BY DEF Init, IInv, TypeOK, BeliefBacked, NameKeepsClaims, HoldersRegistered, Row

\* Telling one name about one key changes no other belief.
LEMMA ToldType ==
  ASSUME TypeOK, NEW n \in Names, NEW k \in Keys, NEW left \in Nat, Told(n, k, left)
  PROVE  /\ belief' \in [Names -> [Keys -> Nat]]
         /\ belief'[n][k] = left
         /\ \A m \in Names, j \in Keys : <<m, j>> # <<n, k>> => belief'[m][j] = belief[m][j]
<1> DEFINE row == [belief[n] EXCEPT ![k] = left]
<1>1. belief[n] \in [Keys -> Nat]
  BY DEF TypeOK
<1>2. row \in [Keys -> Nat] /\ row[k] = left /\ \A j \in Keys : j # k => row[j] = belief[n][j]
  BY <1>1
<1>3. belief' = [belief EXCEPT ![n] = row]
  BY DEF Told
<1> HIDE DEF row
<1>4. QED
  BY <1>2, <1>3 DEF TypeOK

\* Deciding a key clears what former sessions of the name were told of it, and
\* nothing else.
LEMMA DecidedType ==
  ASSUME TypeOK, NEW n \in Names, NEW k \in Keys, NEW left \in Nat, Decided(n, k, left)
  PROVE  /\ earlier' \in [Names -> [Keys -> Nat]]
         /\ earlier'[n][k] = 0
         /\ \A m \in Names, j \in Keys : <<m, j>> # <<n, k>> => earlier'[m][j] = earlier[m][j]
<1> DEFINE row == [earlier[n] EXCEPT ![k] = 0]
<1>1. earlier[n] \in [Keys -> Nat]
  BY DEF TypeOK
<1>2. row \in [Keys -> Nat] /\ row[k] = 0 /\ \A j \in Keys : j # k => row[j] = earlier[n][j]
  BY <1>1
<1>3. earlier' = [earlier EXCEPT ![n] = row]
  BY DEF Decided
<1> HIDE DEF row
<1>4. QED
  BY <1>2, <1>3 DEF TypeOK

\* A replaced session hands what it was told to history, and touches nothing of
\* another name.
LEMMA ReplacedType ==
  ASSUME TypeOK, NEW n \in Names, Replaced(n)
  PROVE  /\ belief' \in [Names -> [Keys -> Nat]] /\ earlier' \in [Names -> [Keys -> Nat]]
         /\ \A k \in Keys : belief'[n][k] = 0 /\ earlier'[n][k] \in {belief[n][k], earlier[n][k]}
         /\ \A m \in Names : m # n => belief'[m] = belief[m] /\ earlier'[m] = earlier[m]
<1> DEFINE none == [k \in Keys |-> 0]
           all == [k \in Keys |-> Greater(belief[n][k], earlier[n][k])]
<1>1. none \in [Keys -> Nat] /\ \A k \in Keys : none[k] = 0
  OBVIOUS
<1>2. all \in [Keys -> Nat] /\ \A k \in Keys : all[k] \in {belief[n][k], earlier[n][k]}
  BY DEF Greater, TypeOK
<1>3. belief' = [belief EXCEPT ![n] = none] /\ earlier' = [earlier EXCEPT ![n] = all]
  BY DEF Replaced
<1> HIDE DEF none, all
<1>4. QED
  BY <1>1, <1>2, <1>3 DEF TypeOK

\* A name that leaves takes all it was told with it.
LEMMA LeftType ==
  ASSUME TypeOK, NEW n \in Names, Left(n)
  PROVE  /\ belief' \in [Names -> [Keys -> Nat]] /\ earlier' \in [Names -> [Keys -> Nat]]
         /\ \A k \in Keys : belief'[n][k] = 0 /\ earlier'[n][k] = 0
         /\ \A m \in Names : m # n => belief'[m] = belief[m] /\ earlier'[m] = earlier[m]
<1> DEFINE none == [k \in Keys |-> 0]
<1>1. none \in [Keys -> Nat] /\ \A k \in Keys : none[k] = 0
  OBVIOUS
<1>2. belief' = [belief EXCEPT ![n] = none] /\ earlier' = [earlier EXCEPT ![n] = none]
  BY DEF Left
<1> HIDE DEF none
<1>3. QED
  BY <1>1, <1>2 DEF TypeOK

\* Nobody of another name has time left on a key that is free for n to take.
LEMMA FreeOfOthers ==
  ASSUME TypeOK, BeliefBacked, NameKeepsClaims, NEW n \in Names, NEW k \in Keys,
         Live(k) => Holds(n, k), NEW m \in Names, m # n
  PROVE  belief[m][k] = 0 /\ earlier[m][k] = 0
<1>1. belief[m][k] \in Nat /\ earlier[m][k] \in Nat
  BY DEF TypeOK
<1>2. CASE belief[m][k] > 0
  <2>1. Holds(m, k) /\ claims[k].left > 0
    BY <1>2 DEF BeliefBacked
  <2>2. QED
    BY <2>1 DEF Live, Holds
<1>3. CASE earlier[m][k] > 0
  <2>1. Holds(m, k) /\ claims[k].left > 0
    BY <1>3 DEF NameKeepsClaims
  <2>2. QED
    BY <2>1 DEF Live, Holds
<1>4. QED
  BY <1>1, <1>2, <1>3

\* Every operation on the claims table preserves the invariant.
LEMMA NextInv == IInv /\ [Next]_vars => IInv'
<1> SUFFICES ASSUME IInv, [Next]_vars
             PROVE  IInv'
  OBVIOUS
<1> USE DEF IInv
<1>1. ASSUME NEW n \in Names, NEW k \in Keys,
             ClaimLost(n, k) \/ ReleaseOthers(n, k)
      PROVE  IInv'
  <2>1. Told(n, k, 0) /\ UNCHANGED <<claims, registered, crashed, earlier>>
    BY <1>1 DEF ClaimLost, ReleaseOthers
  <2>2. TypeOK'
    BY <2>1, ToldType DEF TypeOK
  <2>3. BeliefBacked'
    BY <2>1, ToldType DEF BeliefBacked, Holds
  <2>4. NameKeepsClaims' /\ HoldersRegistered'
    BY <2>1 DEF NameKeepsClaims, HoldersRegistered, Holds
  <2>5. QED
    BY <2>2, <2>3, <2>4
<1>2. ASSUME NEW n \in Names, NEW k \in Keys, NEW d \in Durations, ClaimWon(n, k, d)
      PROVE  IInv'
  <2>0. d \in Nat \ {0}
    BY ClaimsAssumption
  <2>1. /\ n \in registered
        /\ Live(k) => Holds(n, k)
        /\ claims' = [claims EXCEPT ![k] = [holder |-> n, left |-> d]]
        /\ Told(n, k, d) /\ Decided(n, k, d) /\ UNCHANGED <<registered, crashed>>
    BY <1>2 DEF ClaimWon, Running, Decided
  <2>2. /\ claims' \in [Keys -> Row \cup {NoRow}]
        /\ claims'[k] = [holder |-> n, left |-> d] /\ claims'[k] # NoRow
        /\ \A j \in Keys : j # k => claims'[j] = claims[j]
    BY <2>0, <2>1, ClaimsAssumption DEF TypeOK, Row
  <2>3. /\ belief' \in [Names -> [Keys -> Nat]]
        /\ belief'[n][k] = d
        /\ \A m \in Names, j \in Keys : <<m, j>> # <<n, k>> => belief'[m][j] = belief[m][j]
    BY <2>0, <2>1, ToldType
  <2>4. /\ earlier' \in [Names -> [Keys -> Nat]]
        /\ earlier'[n][k] = 0
        /\ \A m \in Names, j \in Keys : <<m, j>> # <<n, k>> => earlier'[m][j] = earlier[m][j]
    BY <2>0, <2>1, DecidedType
  <2>5. \A m \in Names : m # n => belief[m][k] = 0 /\ earlier[m][k] = 0
    BY <2>1, FreeOfOthers
  <2>6. TypeOK'
    BY <2>1, <2>2, <2>3, <2>4 DEF TypeOK
  <2>7. BeliefBacked'
    <3> SUFFICES ASSUME NEW m \in Names, NEW j \in Keys, belief'[m][j] > 0
                 PROVE  /\ m \in registered
                        /\ claims'[j] # NoRow /\ claims'[j].holder = m
                        /\ claims'[j].left = belief'[m][j]
      BY <2>1 DEF BeliefBacked, Holds
    <3>1. CASE j # k
      BY <2>2, <2>3, <3>1 DEF BeliefBacked, Holds
    <3>2. CASE j = k /\ m = n
      BY <2>0, <2>1, <2>2, <2>3, <3>2
    <3>3. CASE j = k /\ m # n
      BY <2>3, <2>5, <3>3
    <3>4. QED
      BY <3>1, <3>2, <3>3
  <2>8. NameKeepsClaims'
    <3> SUFFICES ASSUME NEW m \in Names, NEW j \in Keys, earlier'[m][j] > 0
                 PROVE  /\ claims'[j] # NoRow /\ claims'[j].holder = m
                        /\ claims'[j].left = earlier'[m][j]
      BY DEF NameKeepsClaims, Holds
    <3>1. j # k
      BY <2>4, <2>5
    <3>2. QED
      BY <2>2, <2>4, <3>1 DEF NameKeepsClaims, Holds
  <2>9. HoldersRegistered'
    BY <2>1, <2>2 DEF HoldersRegistered
  <2>10. QED
    BY <2>6, <2>7, <2>8, <2>9
<1>3. ASSUME NEW n \in Names, NEW k \in Keys, Release(n, k)
      PROVE  IInv'
  <2>1. /\ Holds(n, k)
        /\ claims' = [claims EXCEPT ![k] = NoRow]
        /\ Told(n, k, 0) /\ Decided(n, k, 0) /\ UNCHANGED <<registered, crashed>>
    BY <1>3 DEF Release, Decided
  <2>2. /\ claims' \in [Keys -> Row \cup {NoRow}] /\ claims'[k] = NoRow
        /\ \A j \in Keys : j # k => claims'[j] = claims[j]
    BY <2>1 DEF TypeOK
  <2>3. TypeOK'
    BY <2>1, <2>2, ToldType, DecidedType DEF TypeOK
  <2>4. BeliefBacked'
    <3> SUFFICES ASSUME NEW m \in Names, NEW j \in Keys, belief'[m][j] > 0
                 PROVE  /\ m \in registered
                        /\ claims'[j] # NoRow /\ claims'[j].holder = m
                        /\ claims'[j].left = belief'[m][j]
      BY <2>1 DEF BeliefBacked, Holds
    <3>1. <<m, j>> # <<n, k>> /\ belief'[m][j] = belief[m][j]
      BY <2>1, ToldType
    <3>2. j # k
      BY <2>1, <3>1 DEF BeliefBacked, Holds
    <3>3. QED
      BY <2>2, <3>1, <3>2 DEF BeliefBacked, Holds
  <2>5. NameKeepsClaims'
    <3> SUFFICES ASSUME NEW m \in Names, NEW j \in Keys, earlier'[m][j] > 0
                 PROVE  /\ claims'[j] # NoRow /\ claims'[j].holder = m
                        /\ claims'[j].left = earlier'[m][j]
      BY DEF NameKeepsClaims, Holds
    <3>1. <<m, j>> # <<n, k>> /\ earlier'[m][j] = earlier[m][j]
      BY <2>1, DecidedType
    <3>2. j # k
      BY <2>1, <3>1 DEF NameKeepsClaims, Holds
    <3>3. QED
      BY <2>2, <3>1, <3>2 DEF NameKeepsClaims, Holds
  <2>6. HoldersRegistered'
    BY <2>1, <2>2 DEF HoldersRegistered
  <2>7. QED
    BY <2>3, <2>4, <2>5, <2>6
<1>4. ASSUME NEW n \in Names, Register(n) \/ Crash(n)
      PROVE  IInv'
  <2>1. /\ Replaced(n) /\ claims' = claims
        /\ registered \subseteq registered' /\ registered' \subseteq registered \cup {n}
        /\ crashed' \subseteq registered'
    BY <1>4 DEF Register, Crash, Running, TypeOK
  <2>2. TypeOK'
    BY <2>1, ReplacedType DEF TypeOK
  <2>3. BeliefBacked'
    BY <2>1, ReplacedType DEF BeliefBacked, Holds
  <2>4. NameKeepsClaims'
    <3> SUFFICES ASSUME NEW m \in Names, NEW k \in Keys, earlier'[m][k] > 0
                 PROVE  Holds(m, k) /\ claims[k].left = earlier'[m][k]
      BY <2>1 DEF NameKeepsClaims, Holds
    <3>1. earlier'[m][k] \in {belief[m][k], earlier[m][k]}
      BY <2>1, ReplacedType
    <3>2. QED
      BY <3>1 DEF BeliefBacked, NameKeepsClaims
  <2>5. HoldersRegistered'
    BY <2>1 DEF HoldersRegistered
  <2>6. QED
    BY <2>2, <2>3, <2>4, <2>5
<1>5. ASSUME NEW n \in Names, Unregister(n)
      PROVE  IInv'
  <2>1. /\ registered' = registered \ {n} /\ n \notin crashed /\ crashed' = crashed
        /\ claims' = [k \in Keys |-> IF Holds(n, k) THEN NoRow ELSE claims[k]]
        /\ Left(n)
    BY <1>5 DEF Unregister, Running
  <2>2. TypeOK'
    BY <2>1, LeftType DEF TypeOK
  <2>3. BeliefBacked'
    BY <2>1, LeftType DEF BeliefBacked, Holds
  <2>4. NameKeepsClaims'
    BY <2>1, LeftType DEF NameKeepsClaims, Holds
  <2>5. HoldersRegistered'
    BY <2>1 DEF HoldersRegistered, Holds
  <2>6. QED
    BY <2>2, <2>3, <2>4, <2>5
<1>6. ASSUME Tick
      PROVE  IInv'
  <2>1. TypeOK'
    BY <1>6 DEF Tick, TypeOK, Row, Less
  <2>2. ASSUME NEW n \in Names, NEW k \in Keys, NEW left \in Nat, Less(left) > 0,
               Holds(n, k), claims[k].left = left
        PROVE  Holds(n, k)' /\ claims'[k].left = Less(left)
    <3>1. claims'[k] = [holder |-> n, left |-> Less(left)]
      BY <1>6, <2>2 DEF Tick, Holds
    <3>2. Less(left) \in Nat /\ claims'[k] # NoRow
      BY <3>1, ClaimsAssumption DEF Less
    <3>3. QED
      BY <3>1, <3>2 DEF Holds
  <2>3. \A n \in Names, k \in Keys :
          /\ belief[n][k] \in Nat /\ belief'[n][k] = Less(belief[n][k])
          /\ earlier[n][k] \in Nat /\ earlier'[n][k] = Less(earlier[n][k])
    BY <1>6 DEF Tick, TypeOK
  <2>4. \A left \in Nat : Less(left) > 0 => left > 0
    BY DEF Less
  <2>5. BeliefBacked'
    BY <1>6, <2>2, <2>3, <2>4 DEF BeliefBacked, Tick
  <2>6. NameKeepsClaims'
    BY <2>2, <2>3, <2>4 DEF NameKeepsClaims
  <2>7. HoldersRegistered'
    BY <1>6 DEF Tick, HoldersRegistered
  <2>8. QED
    BY <2>1, <2>5, <2>6, <2>7
<1>7. CASE UNCHANGED vars
  BY <1>7 DEF vars, TypeOK, BeliefBacked, NameKeepsClaims, HoldersRegistered, Holds
<1>8. QED
  BY <1>1, <1>2, <1>3, <1>4, <1>5, <1>6, <1>7 DEF Next

\* The inductive invariant holds of every reachable state.
THEOREM Invariant == Spec => []IInv
<1>1. Init => IInv
  BY InitInv
<1>2. IInv /\ [Next]_vars => IInv'
  BY NextInv
<1>3. QED
  BY <1>1, <1>2, PTL DEF Spec

\* The claims table keeps its type for every set of names, keys and TTLs.
THEOREM ClaimsTypeCorrect == Spec => []TypeOK
<1>1. IInv => TypeOK
  BY DEF IInv
<1>2. QED
  BY <1>1, Invariant, PTL

\* No session is told that it holds a key while one of another name, present or
\* former, may think so, however many agents race, crash and take names over.
THEOREM ExclusiveHolds == Spec => []Exclusive
<1>1. IInv => Exclusive
  BY DEF IInv, BeliefBacked, NameKeepsClaims, Exclusive, Holds
<1>2. QED
  BY <1>1, Invariant, PTL

\* What a claim told its caller is backed by the table until it runs out, and
\* no longer.
THEOREM BeliefBackedHolds == Spec => []BeliefBacked
<1>1. IInv => BeliefBacked
  BY DEF IInv
<1>2. QED
  BY <1>1, Invariant, PTL

\* No row names an agent that is not registered.
THEOREM HoldersRegisteredHolds == Spec => []HoldersRegistered
<1>1. IInv => HoldersRegistered
  BY DEF IInv
<1>2. QED
  BY <1>1, Invariant, PTL

\* What a session was told outlives it: crashes and takeovers leave a name's
\* claims as they are, and no other name's session can touch them.
THEOREM NameKeepsClaimsHolds == Spec => []NameKeepsClaims
<1>1. IInv => NameKeepsClaims
  BY DEF IInv
<1>2. QED
  BY <1>1, Invariant, PTL

(***************************************************************************)
(* Refinement of Lease                                                     *)
(***************************************************************************)
\* What the mapping says of one key.
LEMMA LeasedAt ==
  ASSUME TypeOK, NEW k \in Keys
  PROVE  /\ Live(k) => /\ Leased[k] # NoRow /\ Leased[k].owner = claims[k].holder
                       /\ Leased[k].left = claims[k].left
                       /\ Leased[k] = [owner |-> claims[k].holder, left |-> claims[k].left]
                       /\ claims[k].left \in Nat \ {0} /\ claims[k].holder \in Names
         /\ ~Live(k) => Leased[k] = NoRow
<1>1. CASE Live(k)
  <2>1. claims[k] \in Row
    BY <1>1 DEF Live, TypeOK
  <2>2. claims[k].left \in Nat \ {0} /\ claims[k].holder \in Names
    BY <1>1, <2>1 DEF Live, Row
  <2>3. Leased[k] = [owner |-> claims[k].holder, left |-> claims[k].left]
    BY <1>1 DEF Leased
  <2>4. Leased[k] # NoRow
    BY <2>2, <2>3, ClaimsAssumption
  <2>5. QED
    BY <1>1, <2>2, <2>3, <2>4
<1>2. CASE ~Live(k)
  BY <1>2 DEF Leased
<1>3. QED
  BY <1>1, <1>2

\* An action that leaves the rows alone is a stutter of the lease.
LEMMA LeasedStays == claims' = claims => Leased' = Leased
  BY DEF Leased, Live

\* Every step of the claims table is a step of the lease or a stutter.
LEMMA StepRefines ==
  TypeOK /\ TypeOK' /\ [Next]_vars => [Abstract!Next]_Leased
<1> SUFFICES ASSUME TypeOK, TypeOK', [Next]_vars
             PROVE  Abstract!Next \/ Leased' = Leased
  OBVIOUS
<1>1. ASSUME NEW n \in Names, NEW k \in Keys, NEW d \in Durations, ClaimWon(n, k, d)
      PROVE  Abstract!Grant(n, k, d)
  <2>1. d \in Nat \ {0}
    BY ClaimsAssumption
  <2>2. Leased[k] = NoRow \/ Leased[k].owner = n
    BY <1>1, LeasedAt DEF ClaimWon, Holds
  <2>3. /\ claims'[k] = [holder |-> n, left |-> d] /\ claims'[k] # NoRow
        /\ \A j \in Keys : j # k => claims'[j] = claims[j]
    BY <1>1, <2>1, ClaimsAssumption DEF ClaimWon, TypeOK
  <2>4. Leased' = [j \in Keys |-> IF j = k THEN [owner |-> n, left |-> d] ELSE Leased[j]]
    BY <2>1, <2>3 DEF Leased, Live
  <2>5. Leased' = [Leased EXCEPT ![k] = [owner |-> n, left |-> d]]
    BY <2>4 DEF Leased
  <2>6. QED
    BY <2>2, <2>5 DEF Abstract!Grant
<1>2. ASSUME NEW n \in Names, NEW ks \in SUBSET Keys,
             \A k \in ks : Holds(n, k),
             claims' = [k \in Keys |-> IF k \in ks THEN NoRow ELSE claims[k]]
      PROVE  Abstract!Next
  <2> DEFINE live == {k \in ks : Live(k)}
  <2>1. \A k \in live : Leased[k] # NoRow /\ Leased[k].owner = n
    BY <1>2, LeasedAt DEF Holds
  <2>2. Leased' = [k \in Keys |-> IF k \in live THEN NoRow ELSE Leased[k]]
    BY <1>2 DEF Leased, Live
  <2>3. Abstract!GiveUp(n, live)
    BY <2>1, <2>2 DEF Abstract!GiveUp
  <2>4. live \in SUBSET Keys
    OBVIOUS
  <2> HIDE DEF live
  <2>5. QED
    BY <2>3, <2>4 DEF Abstract!Next
<1>3. ASSUME NEW n \in Names, NEW k \in Keys, Release(n, k)
      PROVE  Abstract!Next
  <2> DEFINE ks == {k}
  <2>1. claims' = [j \in Keys |-> IF j \in ks THEN NoRow ELSE claims[j]]
    BY <1>3 DEF Release, TypeOK
  <2>2. ks \in SUBSET Keys /\ \A j \in ks : Holds(n, j)
    BY <1>3 DEF Release
  <2> HIDE DEF ks
  <2>3. QED
    BY <1>2, <2>1, <2>2
<1>4. ASSUME NEW n \in Names, Unregister(n)
      PROVE  Abstract!Next
  <2> DEFINE ks == {k \in Keys : Holds(n, k)}
  <2>1. claims' = [k \in Keys |-> IF k \in ks THEN NoRow ELSE claims[k]]
    BY <1>4 DEF Unregister
  <2>2. ks \in SUBSET Keys /\ \A j \in ks : Holds(n, j)
    OBVIOUS
  <2> HIDE DEF ks
  <2>3. QED
    BY <1>2, <2>1, <2>2
<1>5. ASSUME Tick
      PROVE  Abstract!Elapse
  <2> DEFINE next(k) == IF Leased[k] = NoRow \/ Leased[k].left = 1 THEN NoRow
                        ELSE [Leased[k] EXCEPT !.left = @ - 1]
  <2>1. ASSUME NEW k \in Keys
        PROVE  Leased'[k] = next(k)
    <3>1. claims'[k] = IF claims[k] = NoRow THEN NoRow
             ELSE [holder |-> claims[k].holder, left |-> Less(claims[k].left)]
      BY <1>5 DEF Tick
    <3>2. CASE ~Live(k)
      <4>1. claims[k] = NoRow \/ Less(claims[k].left) = 0
        BY <3>2 DEF Live, Less, TypeOK, Row
      <4>2. Leased'[k] = NoRow
        BY <3>1, <4>1 DEF Leased, Live
      <4>3. QED
        BY <3>2, <4>2, LeasedAt
    <3>3. CASE Live(k) /\ claims[k].left = 1
      <4>1. Leased'[k] = NoRow
        BY <3>1, <3>3 DEF Leased, Live, Less
      <4>2. QED
        BY <3>3, <4>1, LeasedAt
    <3>4. CASE Live(k) /\ claims[k].left # 1
      <4>1. claims[k].left \in Nat \ {0, 1} /\ claims[k].holder \in Names
        BY <3>4, LeasedAt
      <4>2. claims'[k] = [holder |-> claims[k].holder, left |-> claims[k].left - 1]
        BY <3>1, <3>4, <4>1 DEF Less, Live
      <4>3. claims'[k] # NoRow
        BY <4>1, <4>2, ClaimsAssumption
      <4>4. Leased'[k] = [owner |-> claims[k].holder, left |-> claims[k].left - 1]
        BY <4>1, <4>2, <4>3 DEF Leased, Live
      <4>5. Leased[k] = [owner |-> claims[k].holder, left |-> claims[k].left]
            /\ Leased[k] # NoRow
        BY <3>4, LeasedAt
      <4>6. [Leased[k] EXCEPT !.left = @ - 1]
              = [owner |-> claims[k].holder, left |-> claims[k].left - 1]
        BY <4>5
      <4>7. QED
        BY <4>1, <4>4, <4>5, <4>6
    <3>5. QED
      BY <3>2, <3>3, <3>4
  <2>2. Leased' = [k \in Keys |-> next(k)]
    BY <2>1 DEF Leased
  <2>3. QED
    BY <2>2 DEF Abstract!Elapse
<1>6. CASE claims' = claims
  BY <1>6, LeasedStays
<1>7. QED
  <2>1. ASSUME NEW n \in Names, NEW k \in Keys,
               ClaimLost(n, k) \/ Release(n, k) \/ ReleaseOthers(n, k)
                 \/ \E d \in Durations : ClaimWon(n, k, d)
        PROVE  Abstract!Next \/ Leased' = Leased
    <3>1. ClaimLost(n, k) \/ ReleaseOthers(n, k) => claims' = claims
      BY DEF ClaimLost, ReleaseOthers
    <3>2. ASSUME NEW d \in Durations, ClaimWon(n, k, d) PROVE Abstract!Next
      BY <1>1, <3>2 DEF Abstract!Next
    <3>3. QED
      BY <1>3, <1>6, <2>1, <3>1, <3>2
  <2>2. ASSUME NEW n \in Names, Register(n) \/ Unregister(n) \/ Crash(n)
        PROVE  Abstract!Next \/ Leased' = Leased
    <3>1. Register(n) \/ Crash(n) => claims' = claims
      BY DEF Register, Crash
    <3>2. QED
      BY <1>4, <1>6, <2>2, <3>1
  <2>3. Tick => Abstract!Next
    BY <1>5 DEF Abstract!Next
  <2>4. UNCHANGED vars => claims' = claims
    BY DEF vars
  <2>5. QED
    BY <1>6, <2>1, <2>2, <2>3, <2>4 DEF Next

\* The claims table implements the abstract lease: a key is never granted to
\* a second owner before the first gave it up or ran out.
THEOREM ImplementsLease == Spec => LeaseSpec
<1>1. Init => Abstract!Init
  BY DEF Init, Abstract!Init, Leased, Live
<1>2. TypeOK /\ TypeOK' /\ [Next]_vars => [Abstract!Next]_Leased
  BY StepRefines
<1>3. QED
  BY <1>1, <1>2, ClaimsTypeCorrect, PTL DEF Spec, LeaseSpec, Abstract!Spec
=============================================================================
