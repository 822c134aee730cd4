--------------------------- MODULE IdentityProofs ---------------------------
(***************************************************************************)
(* Proofs about Identity for every set of processes, every assignment of   *)
(* session ids and every bound: the valid token is never in two hands, and *)
(* no reclaim secret works twice.                                          *)
(***************************************************************************)
EXTENDS Identity, TLAPS

\* What makes the two properties inductive: a credential is known only after
\* it was minted, and no two processes know the same token.
Known == \A p \in Procs : Owned(p) \subseteq 0..minted
Apart == \A p, q \in Procs : p # q => Owned(p) \cap Owned(q) \subseteq {Nothing}
RowKnown == Registered => row.token <= minted /\ row.secret <= minted
SpentKnown == spent \subseteq 1..minted

IInv == TypeOK /\ Known /\ Apart /\ RowKnown /\ SpentKnown /\ SecretSingleUse

-----------------------------------------------------------------------------
\* The initial state has nothing to know.
LEMMA InitInv == Init => IInv
  <1> SUFFICES ASSUME Init PROVE IInv
    OBVIOUS
  <1>1. TypeOK
    BY DEF Init, TypeOK, Calls, Nothing
  <1>2. \A p \in Procs : Owned(p) = {Nothing}
    BY DEF Init, Owned
  <1>3. Known /\ Apart
    BY <1>2 DEF Known, Apart, Init, Nothing
  <1>4. RowKnown /\ SpentKnown /\ SecretSingleUse
    BY DEF Init, RowKnown, SpentKnown, SecretSingleUse, Registered
  <1> QED BY <1>1, <1>3, <1>4 DEF IInv

\* A step that mints nothing and puts into p's hands only what p already had.
LEMMA NoNewOwner ==
  ASSUME Known, Apart, minted' = minted,
         \A p \in Procs : Owned(p)' \subseteq Owned(p) \cup {Nothing},
         minted \in Nat
  PROVE  Known' /\ Apart'
  BY DEF Known, Apart, Nothing

\* A step that mints one pair and puts it into one process's hands.
LEMMA OneNewOwner ==
  ASSUME Known, Apart, minted \in Nat, minted' = minted + 1,
         NEW o \in Procs,
         Owned(o)' \subseteq Owned(o) \cup {minted + 1, Nothing},
         \A p \in Procs \ {o} : Owned(p)' = Owned(p)
  PROVE  Known' /\ Apart'
  <1>1. Known'
    <2> SUFFICES ASSUME NEW p \in Procs PROVE Owned(p)' \subseteq 0..(minted + 1)
      BY DEF Known
    <2>1. Owned(p) \subseteq 0..minted
      BY DEF Known
    <2>2. Owned(p)' \subseteq Owned(p) \cup {minted + 1, 0}
      BY DEF Nothing
    <2> QED BY <2>1, <2>2
  <1>2. Apart'
    <2> SUFFICES ASSUME NEW p \in Procs, NEW q \in Procs, p # q,
                        NEW x \in Owned(p)' \cap Owned(q)'
                 PROVE  x = Nothing
      BY DEF Apart
    <2>1. minted + 1 \notin Owned(p) /\ minted + 1 \notin Owned(q)
      BY DEF Known
    <2>2. Owned(p) \cap Owned(q) \subseteq {Nothing}
      BY DEF Apart
    <2>3. CASE p = o
      BY <2>1, <2>2, <2>3
    <2>4. CASE q = o
      BY <2>1, <2>2, <2>4
    <2>5. CASE p # o /\ q # o
      BY <2>2, <2>5
    <2> QED BY <2>3, <2>4, <2>5
  <1> QED BY <1>1, <1>2

\* register's and rotate_token's transaction keeps everything.
LEMMA StoreInv ==
  ASSUME IInv, NEW p \in Procs, call[p] \in {Idle, Checked},
         Store(p), UNCHANGED <<sidecar, cache, token, noted>>,
         spent' = spent \/ (Registered /\ spent' = spent \cup {row.secret})
  PROVE  IInv'
  <1>1. minted \in Nat /\ minted' = minted + 1
    BY DEF IInv, TypeOK, Store
  <1>2. call' \in [Procs -> Calls] /\ row' \in Row
    <2>1. call' \in [Procs -> Calls]
      BY <1>1 DEF IInv, TypeOK, Store, Calls, Pair
    <2>2. SessionOf[p] \in Session /\ 0 \in 0..Window
      BY IdentityAssumption DEF Session
    <2>3. row' \in Row
      BY <1>1, <2>2 DEF Store, Row, Pair
    <2> QED BY <2>1, <2>3
  <1>3. spent' \subseteq 1..minted
    <2>1. spent \subseteq 1..minted
      BY DEF IInv, SpentKnown
    <2>2. ASSUME Registered PROVE row.secret \in 1..minted
      <3>1. row \in Row
        BY <2>2 DEF IInv, TypeOK, Registered
      <3> QED BY <1>1, <2>2, <3>1 DEF IInv, RowKnown, Row, Pair
    <2> QED BY <2>1, <2>2
  <1>4. TypeOK'
    BY <1>1, <1>2, <1>3 DEF IInv, TypeOK, Pair
  <1>5. Owned(p)' \subseteq Owned(p) \cup {minted + 1, Nothing}
    BY DEF Store, Owned, IInv, TypeOK, Idle, Checked
  <1>6. \A q \in Procs \ {p} : Owned(q)' = Owned(q)
    BY DEF Store, Owned, IInv, TypeOK
  <1>7. Known' /\ Apart'
    BY <1>1, <1>5, <1>6, OneNewOwner DEF IInv
  <1>8. row'.token = minted + 1 /\ row'.secret = minted + 1
    BY DEF Store
  <1>9. RowKnown' /\ SpentKnown' /\ SecretSingleUse'
    BY <1>1, <1>3, <1>8 DEF RowKnown, SpentKnown, SecretSingleUse
  <1> QED BY <1>4, <1>7, <1>9 DEF IInv

\* A step that leaves the row, the counter and the history alone, and gives
\* no process anything it did not have.
LEMMA QuietInv ==
  ASSUME IInv, TypeOK', UNCHANGED <<row, minted, spent>>,
         \A p \in Procs : Owned(p)' \subseteq Owned(p) \cup {Nothing}
  PROVE  IInv'
  <1>1. Known' /\ Apart'
    BY NoNewOwner DEF IInv, TypeOK
  <1>2. RowKnown' /\ SpentKnown' /\ SecretSingleUse'
    BY DEF IInv, RowKnown, SpentKnown, SecretSingleUse, Registered
  <1> QED BY <1>1, <1>2 DEF IInv

\* The actions that only move a pair between a process's call, cache and
\* agent, or touch what nobody owns.
LEMMA HandsInv ==
  ASSUME IInv, NEW p \in Procs,
         \/ WriteSidecar(p) \/ Return(p) \/ RecoverOwned(p) \/ RecoverCheck(p)
         \/ ReadSidecar(p) \/ Compact(p) \/ Crash(p)
  PROVE  IInv'
  <1> USE DEF IInv, TypeOK
  <1>1. CASE WriteSidecar(p)
    <2>1. call[p] \in [step : {"stored", "returning"}, pair : Pair]
      BY <1>1 DEF WriteSidecar, Calls, Idle, Checked
    <2>2. call'[p] = [step |-> "returning", pair |-> call[p].pair]
      BY <1>1, <2>1 DEF WriteSidecar
    <2>3. TypeOK'
      BY <1>1, <2>1, <2>2 DEF WriteSidecar, Calls, Pair
    <2>4. \A q \in Procs : Owned(q)' \subseteq Owned(q) \cup {Nothing}
      BY <1>1, <2>1, <2>2 DEF WriteSidecar, Owned, Idle, Checked
    <2> QED BY <1>1, <2>3, <2>4, QuietInv DEF WriteSidecar
  <1>2. CASE Return(p)
    <2>1. call[p] \in [step : {"stored", "returning"}, pair : Pair]
      BY <1>2 DEF Return, Calls, Idle, Checked
    <2>2. call[p] \notin {Idle, Checked} /\ call[p].pair \in Nat
      BY <2>1 DEF Idle, Checked, Pair
    <2>3. TypeOK'
      BY <1>2, <2>2 DEF Return, Calls
    <2>4. \A q \in Procs : Owned(q)' \subseteq Owned(q) \cup {Nothing}
      BY <1>2, <2>2 DEF Return, Owned
    <2> QED BY <1>2, <2>3, <2>4, QuietInv DEF Return
  <1>3. CASE RecoverOwned(p)
    <2>1. TypeOK'
      BY <1>3 DEF RecoverOwned
    <2>2. \A q \in Procs : Owned(q)' \subseteq Owned(q) \cup {Nothing}
      BY <1>3 DEF RecoverOwned, Owned
    <2> QED BY <1>3, <2>1, <2>2, QuietInv DEF RecoverOwned
  <1>4. CASE RecoverCheck(p)
    <2>1. TypeOK'
      BY <1>4 DEF RecoverCheck, Calls
    <2>2. \A q \in Procs : Owned(q)' \subseteq Owned(q) \cup {Nothing}
      BY <1>4 DEF RecoverCheck, Owned
    <2> QED BY <1>4, <2>1, <2>2, QuietInv DEF RecoverCheck
  <1>5. CASE ReadSidecar(p)
    <2>1. TypeOK'
      BY <1>5 DEF ReadSidecar
    <2>2. \A q \in Procs : Owned(q)' \subseteq Owned(q) \cup {Nothing}
      BY <1>5 DEF ReadSidecar, Owned
    <2> QED BY <1>5, <2>1, <2>2, QuietInv DEF ReadSidecar
  <1>6. CASE Compact(p)
    <2>1. TypeOK'
      BY <1>6 DEF Compact, Nothing
    <2>2. \A q \in Procs : Owned(q)' \subseteq Owned(q) \cup {Nothing}
      BY <1>6 DEF Compact, Owned
    <2> QED BY <1>6, <2>1, <2>2, QuietInv DEF Compact
  <1>7. CASE Crash(p)
    <2>1. TypeOK'
      BY <1>7 DEF Crash, Nothing, Calls
    <2>2. \A q \in Procs : Owned(q)' \subseteq Owned(q) \cup {Nothing}
      BY <1>7 DEF Crash, Owned
    <2> QED BY <1>7, <2>1, <2>2, QuietInv DEF Crash
  <1> QED BY <1>1, <1>2, <1>3, <1>4, <1>5, <1>6, <1>7

\* The steps that touch the row but mint nothing: the name is given up, its
\* holder is seen, time passes.
LEMMA RowInv ==
  ASSUME IInv,
         \/ \E p \in Procs : Unregister(p) \/ Act(p)
         \/ Tick
  PROVE  IInv'
  <1>1. CASE \E p \in Procs : Unregister(p)
    <2> PICK p \in Procs : Unregister(p)
      BY <1>1
    <2>1. TypeOK'
      BY DEF Unregister, IInv, TypeOK, Nothing
    <2>2. \A q \in Procs : Owned(q)' \subseteq Owned(q) \cup {Nothing}
      BY DEF Unregister, Owned, IInv, TypeOK
    <2>3. Known' /\ Apart'
      BY <2>2, NoNewOwner DEF Unregister, IInv, TypeOK
    <2>4. RowKnown' /\ SpentKnown' /\ SecretSingleUse'
      BY DEF Unregister, IInv, RowKnown, SpentKnown, SecretSingleUse, Registered
    <2> QED BY <2>1, <2>3, <2>4 DEF IInv
  <1>2. CASE (\E p \in Procs : Act(p)) \/ Tick
    <2>1. Registered /\ row \in Row
      BY <1>2 DEF Act, Tick, TokenOk, Registered, IInv, TypeOK
    <2>2. \E t \in 0..Window : row' = [row EXCEPT !.silent = t]
      <3>1. CASE \E p \in Procs : Act(p)
        BY <3>1, IdentityAssumption DEF Act
      <3>2. CASE Tick
        <4>1. row.silent + 1 \in 0..Window
          BY <2>1, <3>2, IdentityAssumption DEF Tick, Row
        <4> QED BY <3>2, <4>1 DEF Tick
      <3> QED BY <1>2, <3>1, <3>2
    <2>3. row' \in Row /\ row'.token = row.token /\ row'.secret = row.secret
      BY <2>1, <2>2 DEF Row
    <2>4. UNCHANGED <<sidecar, minted, cache, call, token, noted, spent>>
      BY <1>2 DEF Act, Tick
    <2>5. TypeOK'
      BY <2>3, <2>4 DEF IInv, TypeOK
    <2>6. \A q \in Procs : Owned(q)' \subseteq Owned(q) \cup {Nothing}
      BY <2>4 DEF Owned
    <2>7. Known' /\ Apart'
      BY <2>4, <2>6, NoNewOwner DEF IInv, TypeOK
    <2>8. RowKnown' /\ SpentKnown' /\ SecretSingleUse'
      BY <2>1, <2>3, <2>4 DEF IInv, RowKnown, SpentKnown, SecretSingleUse, Registered
    <2> QED BY <2>5, <2>7, <2>8 DEF IInv
  <1> QED BY <1>1, <1>2

\* rotate_token on a name that has been unregistered: a pair is minted that
\* nothing will ever accept.
LEMMA RotateNothingInv ==
  ASSUME IInv, NEW p \in Procs, RotateNothing(p)
  PROVE  IInv'
  <1> USE DEF IInv, RotateNothing
  <1>1. TypeOK'
    BY DEF TypeOK, Calls, Pair
  <1>2. Owned(p)' \subseteq Owned(p) \cup {minted + 1, Nothing}
    BY DEF Owned, TypeOK, Idle, Checked
  <1>3. \A q \in Procs \ {p} : Owned(q)' = Owned(q)
    BY DEF Owned, TypeOK
  <1>4. Known' /\ Apart'
    BY <1>2, <1>3, OneNewOwner DEF TypeOK
  <1>5. RowKnown' /\ SpentKnown' /\ SecretSingleUse'
    BY DEF TypeOK, RowKnown, SpentKnown, SecretSingleUse, Registered
  <1> QED BY <1>1, <1>4, <1>5

\* Every step keeps the invariant.
LEMMA NextInv == IInv /\ [Next]_vars => IInv'
  <1> SUFFICES ASSUME IInv, [Next]_vars PROVE IInv'
    OBVIOUS
  <1>1. ASSUME NEW p \in Procs,
               Register(p) \/ TakeOver(p) \/ Reclaim(p) \/ Rotate(p)
        PROVE  IInv'
    <2>1. call[p] \in {Idle, Checked} /\ Store(p)
          /\ UNCHANGED <<sidecar, cache, token, noted>>
      BY <1>1 DEF Register, TakeOver, Reclaim, Rotate
    <2>2. spent' = spent \/ (Registered /\ spent' = spent \cup {row.secret})
      BY <1>1 DEF Register, TakeOver, Reclaim, Rotate, SecretOk
    <2> QED BY <2>1, <2>2, StoreInv
  <1>2. CASE UNCHANGED vars
    <2>1. TypeOK'
      BY <1>2 DEF IInv, TypeOK, vars
    <2>2. \A p \in Procs : Owned(p)' \subseteq Owned(p) \cup {Nothing}
      BY <1>2 DEF Owned, vars
    <2> QED BY <1>2, <2>1, <2>2, QuietInv DEF vars
  <1> QED BY <1>1, <1>2, HandsInv, RowInv, RotateNothingInv DEF Next

\* The inductive invariant holds in every reachable state.
THEOREM Invariant == Spec => []IInv
  BY InitInv, NextInv, PTL DEF Spec

\* Type correctness of register, recover_token and the sidecar's state.
THEOREM IdentityTypeCorrect == Spec => []TypeOK
  <1>1. IInv => TypeOK
    BY DEF IInv
  <1> QED BY <1>1, Invariant, PTL

\* However registrations, reclaims and recoveries of any number of processes
\* interleave, and whatever crashes, the valid token is in one hand only.
THEOREM AtMostOneHolderHolds == Spec => []AtMostOneHolder
  <1>1. IInv => AtMostOneHolder
    <2> SUFFICES ASSUME IInv, NEW p \in Procs, NEW q \in Procs, Registered,
                        row.token \in Owned(p) \cap Owned(q), p # q
                 PROVE  FALSE
      BY DEF AtMostOneHolder
    <2>1. row.token = Nothing
      BY DEF IInv, Apart
    <2>2. row.token \in Pair
      BY DEF IInv, TypeOK, Registered, Row
    <2> QED BY <2>1, <2>2 DEF Nothing, Pair
  <1> QED BY <1>1, Invariant, PTL

\* A reclaim secret wins at most one takeover, however many agents copied it.
THEOREM SecretSingleUseHolds == Spec => []SecretSingleUse
  <1>1. IInv => SecretSingleUse
    BY DEF IInv
  <1> QED BY <1>1, Invariant, PTL

\* A step that replaces or removes the valid token went through the gate, in one
\* of the ways EvictionGated names.
LEMMA StepGated ==
  ASSUME TypeOK, [Next]_vars, Registered, row' = NoRow \/ row'.token # row.token
  PROVE  \/ Stale
         \/ \E p \in Procs :
              \/ TokenOk(p) /\ (row' = NoRow \/ row'.session = SessionOf[p])
              \/ SecretOk(p) /\ row' # NoRow /\ row'.session = SessionOf[p]
              \/ call[p] = Checked /\ row' # NoRow /\ row'.session = SessionOf[p]
  <1>1. row \in Row
    BY DEF TypeOK, Registered
  <1>2. ASSUME NEW p \in Procs, Store(p)
        PROVE  row'.session = SessionOf[p] /\ row' # NoRow
    <2>1. row' = [token |-> minted + 1, secret |-> minted + 1,
                  session |-> SessionOf[p], silent |-> 0]
      BY <1>2 DEF Store
    <2>2. row' \in Row
      BY <2>1, IdentityAssumption DEF Row, Pair, Session, TypeOK
    <2> QED BY <2>1, <2>2, IdentityAssumption
  <1>3. ASSUME NEW p \in Procs, Register(p)
        PROVE  FALSE
    BY <1>3 DEF Register
  <1>4. ASSUME NEW p \in Procs, TakeOver(p)
        PROVE  Stale \/ (TokenOk(p) /\ row'.session = SessionOf[p])
    BY <1>2, <1>4 DEF TakeOver
  <1>5. ASSUME NEW p \in Procs, Reclaim(p)
        PROVE  SecretOk(p) /\ row' # NoRow /\ row'.session = SessionOf[p]
    BY <1>2, <1>5 DEF Reclaim
  <1>6. ASSUME NEW p \in Procs, Rotate(p)
        PROVE  call[p] = Checked /\ row' # NoRow /\ row'.session = SessionOf[p]
    BY <1>2, <1>6 DEF Rotate
  <1>7. ASSUME NEW p \in Procs, Unregister(p)
        PROVE  TokenOk(p) /\ row' = NoRow
    BY <1>7 DEF Unregister
  <1>8. ASSUME row' = row
        PROVE  FALSE
    BY <1>8 DEF Registered
  <1>9. ASSUME (\E p \in Procs : Act(p)) \/ Tick
        PROVE  FALSE
    <2>1. PICK t \in 0..Window : row' = [row EXCEPT !.silent = t]
      BY <1>1, <1>9, IdentityAssumption DEF Act, Tick, Row
    <2>2. row' \in Row /\ row'.token = row.token
      BY <1>1, <2>1 DEF Row
    <2> QED BY <2>2, IdentityAssumption
  <1> QED
    BY <1>3, <1>4, <1>5, <1>6, <1>7, <1>8, <1>9
    DEF Next, vars, WriteSidecar, Return, RecoverOwned, RecoverCheck, RotateNothing,
        ReadSidecar, Compact, Crash

\* Nobody is evicted around the gate: whatever calls interleave, the valid token
\* falls to a valid token or secret, to the window's silence, or to a
\* recover_token that had found it.
THEOREM EvictionGatedHolds == Spec => EvictionGated
  <1>1. TypeOK /\ [Next]_vars =>
          [Registered /\ (row' = NoRow \/ row'.token # row.token) =>
             \/ Stale
             \/ \E p \in Procs :
                  \/ TokenOk(p) /\ (row' = NoRow \/ row'.session = SessionOf[p])
                  \/ SecretOk(p) /\ row' # NoRow /\ row'.session = SessionOf[p]
                  \/ call[p] = Checked /\ row' # NoRow /\ row'.session = SessionOf[p]]_vars
    BY StepGated
  <1> QED BY <1>1, IdentityTypeCorrect, PTL DEF Spec, EvictionGated
=============================================================================
