---------------------------- MODULE SchemaProofs ----------------------------
(***************************************************************************)
(* Proofs about Schema, for every number of processes and every set of     *)
(* well-formed starts: an operation finds the columns it needs, and an     *)
(* upgrade neither undoes a later build's nor shuts an admitted one out.   *)
(*                                                                         *)
(* The second part follows the rows of agents through the rebuilds: the    *)
(* type invariant, and that a name keeps the token it was given last.      *)
(***************************************************************************)
EXTENDS Schema, Extremes, FiniteSetTheorems

\* A store, whatever its rows.
Shaped(s) ==
  s \in [agents : SUBSET AgentGroups, messages : SUBSET MessageGroups,
         claims : BOOLEAN, rows : {s.rows}, meta : Nat, reader : Nat]

\* The tokens of a table in the other form.
Hashed(rows) == [i \in DOMAIN rows |-> [rows[i] EXCEPT !.hashed = TRUE]]

\* One holder of the lock, who found a store to migrate and still does.
Locked ==
  /\ pc \in [Procs -> {"idle", "waiting", "migrating", "ready"}]
  /\ lock \in Procs \cup {Nobody}
  /\ \A p \in Procs : pc[p] = "migrating" <=> lock = p
  /\ \A p \in Procs : pc[p] = "migrating" => ~TooNew(store) /\ ~IsCurrent(store)

IInv ==
  /\ Shaped(store)
  /\ WellFormed(store)
  /\ Locked
  /\ OperationsFit

-----------------------------------------------------------------------------
(***************************************************************************)
(* What the migrations make of a store                                     *)
(***************************************************************************)
\* The rebuild leaves a v2 store, whatever else is in the v1 tables.
LEMMA V2Groups ==
  ASSUME NEW s, Shaped(s)
  PROVE  /\ Shaped(MigrateV1ToV2(s))
         /\ MigrateV1ToV2(s).agents = {"ms", "token"}
         /\ MigrateV1ToV2(s).messages = {"ms"}
         /\ MigrateV1ToV2(s).meta = s.meta /\ MigrateV1ToV2(s).reader = s.reader
         /\ MigrateV1ToV2(s).claims = s.claims /\ MigrateV1ToV2(s).rows = Merged(s.rows)
BY DEF Shaped, MigrateV1ToV2, AgentGroups, MessageGroups

\* Every step from v2 on adds its columns and takes none away but the token.
LEMMA AdditiveGroups ==
  ASSUME NEW s, Shaped(s)
  PROVE  /\ Shaped(MigrateV2ToV3(s)) /\ Shaped(MigrateV3ToV4(s))
         /\ Shaped(MigrateV4ToV5(s)) /\ Shaped(MigrateV5ToV6(s))
         /\ Shaped(MigrateV7ToV8(s)) /\ Shaped(MigrateV8ToV9(s))
BY DEF Shaped, AgentGroups, MessageGroups, MigrateV2ToV3, MigrateV3ToV4, MigrateV4ToV5,
       MigrateV5ToV6, MigrateV7ToV8, MigrateV8ToV9

LEMMA V7Groups ==
  ASSUME NEW s, Shaped(s)
  PROVE  /\ Shaped(MigrateV6ToV7(s))
         /\ MigrateV6ToV7(s).agents = IF "hash" \in s.agents THEN s.agents
                                      ELSE {"ms", "status", "session", "hash"}
         /\ MigrateV6ToV7(s).messages = s.messages
         /\ MigrateV6ToV7(s).meta = s.meta /\ MigrateV6ToV7(s).reader = s.reader
         /\ MigrateV6ToV7(s).claims = s.claims
         /\ MigrateV6ToV7(s).rows = IF "hash" \in s.agents THEN s.rows ELSE Hashed(s.rows)
<1>1. CASE "hash" \in s.agents
  BY <1>1 DEF MigrateV6ToV7, Hashed, Shaped
<1>2. CASE "hash" \notin s.agents
  BY <1>2 DEF MigrateV6ToV7, Hashed, Shaped, AgentGroups
<1> QED BY <1>1, <1>2

\* Through v8: the columns that were there stay, those a v8 build uses come.
LEMMA ToV8Groups ==
  ASSUME NEW s, Shaped(s), WellFormed(s), s.agents # {}, ~Raises(s)
  PROVE  /\ Shaped(ToV8(s))
         /\ ToV8(s).meta = s.meta /\ ToV8(s).reader = s.reader
         /\ ToV8(s).claims = s.claims
         /\ CurrentAgents \ {"wake"} \subseteq ToV8(s).agents
         /\ CurrentMessages \ {"withdraw"} \subseteq ToV8(s).messages
         /\ "iso" \notin ToV8(s).agents
         /\ Usable(s) => Usable(ToV8(s))
         /\ ToV8(s).rows = IF "iso" \in s.agents THEN Hashed(Merged(s.rows))
                           ELSE IF "hash" \in s.agents THEN s.rows ELSE Hashed(s.rows)
<1> DEFINE v2 == IF "iso" \in s.agents THEN MigrateV1ToV2(s) ELSE s
           v3 == MigrateV2ToV3(v2)
           v4 == MigrateV3ToV4(v3)
           v5 == MigrateV4ToV5(v4)
           v6 == MigrateV5ToV6(v5)
           v7 == MigrateV6ToV7(v6)
           v8 == MigrateV7ToV8(v7)
<1>1. ToV8(s) = v8
  BY DEF ToV8
<1>2. /\ Shaped(v2)
      /\ v2.meta = s.meta /\ v2.reader = s.reader /\ v2.claims = s.claims
      /\ "ms" \in v2.agents /\ "iso" \notin v2.agents /\ "ms" \in v2.messages
      /\ Usable(s) => Usable(v2)
      /\ IF "iso" \in s.agents THEN "hash" \notin v2.agents /\ v2.rows = Merged(s.rows)
                               ELSE v2 = s
  <2>1. CASE "iso" \in s.agents
    <3>1. s.agents = {"iso", "token"}
      BY <2>1 DEF WellFormed
    <3>2. ~Usable(s)
      BY <3>1 DEF Usable, CurrentAgents
    <3> QED BY <2>1, <3>2, V2Groups
  <2>2. CASE "iso" \notin s.agents
    BY <2>2 DEF WellFormed, Raises
  <2> QED BY <2>1, <2>2
<1> HIDE DEF v2
<1>3. /\ Shaped(v3) /\ v3.rows = v2.rows
      /\ v3.meta = v2.meta /\ v3.reader = v2.reader /\ v3.claims = v2.claims
      /\ v3.agents = v2.agents /\ v3.messages = v2.messages \cup {"lifecycle"}
  BY <1>2, AdditiveGroups DEF MigrateV2ToV3, Shaped
<1> HIDE DEF v3
<1>4. /\ Shaped(v4) /\ v4.rows = v3.rows
      /\ v4.meta = v3.meta /\ v4.reader = v3.reader /\ v4.claims = v3.claims
      /\ v4.agents = v3.agents /\ v4.messages = v3.messages \cup {"headline"}
  BY <1>3, AdditiveGroups DEF MigrateV3ToV4, Shaped
<1> HIDE DEF v4
<1>5. /\ Shaped(v5) /\ v5.rows = v4.rows
      /\ v5.meta = v4.meta /\ v5.reader = v4.reader /\ v5.claims = v4.claims
      /\ v5.agents = v4.agents \cup {"status"} /\ v5.messages = v4.messages
  BY <1>4, AdditiveGroups DEF MigrateV4ToV5, Shaped
<1> HIDE DEF v5
<1>6. /\ Shaped(v6) /\ v6.rows = v5.rows
      /\ v6.meta = v5.meta /\ v6.reader = v5.reader /\ v6.claims = v5.claims
      /\ v6.agents = v5.agents \cup {"session"} /\ v6.messages = v5.messages
  BY <1>5, AdditiveGroups DEF MigrateV5ToV6, Shaped
<1> HIDE DEF v6
<1>7. /\ Shaped(v7) /\ v7.rows = (IF "hash" \in v6.agents THEN v6.rows ELSE Hashed(v6.rows))
      /\ v7.meta = v6.meta /\ v7.reader = v6.reader /\ v7.claims = v6.claims
      /\ v7.agents = IF "hash" \in v6.agents THEN v6.agents
                     ELSE {"ms", "status", "session", "hash"}
      /\ v7.messages = v6.messages
  BY <1>6, V7Groups
<1> HIDE DEF v7
<1>8. /\ Shaped(v8) /\ v8.rows = v7.rows
      /\ v8.meta = v7.meta /\ v8.reader = v7.reader /\ v8.claims = v7.claims
      /\ v8.agents = v7.agents /\ v8.messages = v7.messages \cup {"auth"}
  BY <1>7, AdditiveGroups DEF MigrateV7ToV8, Shaped
<1> HIDE DEF v8
<1>9. /\ "ms" \in v7.agents /\ "iso" \notin v7.agents
      /\ {"status", "session", "hash"} \subseteq v7.agents
      /\ v2.agents \subseteq v7.agents \/ "hash" \notin v2.agents
  BY <1>2, <1>3, <1>4, <1>5, <1>6, <1>7
<1>10. /\ {"ms", "lifecycle", "headline", "auth"} \subseteq v8.messages
       /\ v2.messages \subseteq v8.messages
  BY <1>2, <1>3, <1>4, <1>5, <1>6, <1>7, <1>8
<1>11. Usable(v2) => Usable(v8)
  BY <1>3, <1>4, <1>5, <1>6, <1>7, <1>8, <1>9, <1>10 DEF Usable, CurrentAgents
<1>12. CurrentAgents \ {"wake"} \subseteq v8.agents
  BY <1>8, <1>9 DEF CurrentAgents
<1>13. CurrentMessages \ {"withdraw"} \subseteq v8.messages
  BY <1>10 DEF CurrentMessages, MessageGroups
<1>14. "hash" \in v6.agents <=> "hash" \in v2.agents
  BY <1>3, <1>4, <1>5, <1>6
<1>15. v8.rows = IF "hash" \in v2.agents THEN v2.rows ELSE Hashed(v2.rows)
  BY <1>3, <1>4, <1>5, <1>6, <1>7, <1>8, <1>14
<1>16. ToV8(s).rows = IF "iso" \in s.agents THEN Hashed(Merged(s.rows))
                      ELSE IF "hash" \in s.agents THEN s.rows ELSE Hashed(s.rows)
  BY <1>1, <1>2, <1>15
<1> QED
  BY <1>1, <1>2, <1>3, <1>4, <1>5, <1>6, <1>7, <1>8, <1>9, <1>11, <1>12, <1>13, <1>16

\* Wherever the migrations start from, if they do not raise they end with
\* everything an operation needs.
LEMMA MigratedUsable ==
  ASSUME NEW s, Shaped(s), WellFormed(s), ~Raises(s)
  PROVE  /\ Shaped(ApplyMigrations(s)) /\ Usable(ApplyMigrations(s))
         /\ ApplyMigrations(s).meta = s.meta /\ ApplyMigrations(s).reader = s.reader
         /\ "iso" \notin ApplyMigrations(s).agents
         /\ ApplyMigrations(s).rows = IF s.agents = {} THEN s.rows ELSE ToV8(s).rows
<1>1. CASE s.agents = {}
  <2>1. s.messages = {}
    BY <1>1 DEF WellFormed
  <2>2. ApplyMigrations(s) = CreateCurrentSchema(s)
    BY <1>1 DEF ApplyMigrations
  <2> DEFINE t == CreateCurrentSchema(s)
  <2>3. CurrentAgents \subseteq AgentGroups /\ CurrentMessages \subseteq MessageGroups
        /\ "iso" \notin CurrentAgents
    BY DEF CurrentAgents, CurrentMessages, AgentGroups, MessageGroups
  <2>4. /\ Shaped(t) /\ t.agents = CurrentAgents /\ t.messages = CurrentMessages
        /\ t.claims = TRUE /\ t.meta = s.meta /\ t.reader = s.reader /\ t.rows = s.rows
    BY <2>1, <2>3 DEF CreateCurrentSchema, Shaped
  <2> HIDE DEF t
  <2> QED
    BY <1>1, <2>2, <2>3, <2>4 DEF Usable, t
<1>2. CASE s.agents # {}
  <2> DEFINE t == ToV8(s)
  <2>1. /\ Shaped(t) /\ t.meta = s.meta /\ t.reader = s.reader
        /\ CurrentAgents \ {"wake"} \subseteq t.agents
        /\ CurrentMessages \ {"withdraw"} \subseteq t.messages
        /\ "iso" \notin t.agents
    BY <1>2, ToV8Groups
  <2>2. ApplyMigrations(s) = MigrateV8ToV9(t)
    BY <1>2 DEF ApplyMigrations
  <2> HIDE DEF t
  <2>3. /\ Shaped(MigrateV8ToV9(t))
        /\ MigrateV8ToV9(t).agents = t.agents \cup {"wake"}
        /\ MigrateV8ToV9(t).messages = t.messages \cup {"withdraw"}
        /\ MigrateV8ToV9(t).claims = TRUE /\ MigrateV8ToV9(t).rows = t.rows
        /\ MigrateV8ToV9(t).meta = t.meta /\ MigrateV8ToV9(t).reader = t.reader
    BY <2>1, AdditiveGroups DEF MigrateV8ToV9, Shaped
  <2> QED
    BY <1>2, <2>1, <2>2, <2>3 DEF Usable, t
<1> QED BY <1>1, <1>2

-----------------------------------------------------------------------------
(***************************************************************************)
(* The invariant                                                           *)
(***************************************************************************)
LEMMA InitInv == Init => IInv
<1> SUFFICES ASSUME Init PROVE IInv
  OBVIOUS
<1>1. IsStore(store) /\ WellFormed(store)
  BY SchemaAssumption DEF Init
<1>2. Shaped(store)
  BY <1>1 DEF IsStore, Shaped
<1>3. Locked
  BY SchemaAssumption DEF Init, Locked
<1>4. OperationsFit
  BY DEF Init, OperationsFit
<1> QED BY <1>1, <1>2, <1>3, <1>4 DEF IInv

\* A store that was written for a token differs in rows only.
LEMMA NewTokenStore ==
  ASSUME IInv, NEW n \in Names, NewToken(n)
  PROVE  /\ Shaped(store') /\ WellFormed(store')
         /\ Usable(store) => Usable(store')
         /\ store'.meta = store.meta /\ store'.reader = store.reader
         /\ lock = Nobody /\ lock' = lock
<1>1. PICK rows : store' = [store EXCEPT !.rows = rows]
  BY DEF NewToken
<1>2. /\ Shaped(store')
      /\ store'.agents = store.agents /\ store'.messages = store.messages
      /\ store'.claims = store.claims
      /\ store'.meta = store.meta /\ store'.reader = store.reader
  BY <1>1 DEF IInv, Shaped
<1>3. Usable(store) <=> Usable(store')
  BY <1>2 DEF Usable
<1>4. WellFormed(store')
  BY <1>2, <1>3 DEF IInv, WellFormed, TooNew
<1> QED BY <1>2, <1>3, <1>4 DEF NewToken

\* A migrated and stamped store is what the stamps say.
LEMMA StampedStore ==
  ASSUME NEW s, Shaped(s), WellFormed(s), ~Raises(s)
  PROVE  LET t == Stamped(ApplyMigrations(s))
         IN  /\ Shaped(t) /\ WellFormed(t) /\ Usable(t)
             /\ t.meta = SCHEMA_VERSION /\ t.reader = MIN_READER_VERSION
<1> DEFINE u == ApplyMigrations(s)
           t == Stamped(u)
<1>1. Shaped(u) /\ Usable(u) /\ "iso" \notin u.agents
  BY MigratedUsable
<1> HIDE DEF u
<1>2. /\ Shaped(t) /\ t.agents = u.agents /\ t.messages = u.messages /\ t.claims = u.claims
      /\ t.meta = 9 /\ t.reader = 8
  BY <1>1 DEF Stamped, Shaped, SCHEMA_VERSION, MIN_READER_VERSION
<1> HIDE DEF t
<1>3. Usable(t)
  BY <1>1, <1>2 DEF Usable
<1>4. WellFormed(t)
  BY <1>1, <1>2, <1>3 DEF WellFormed, Usable, CurrentAgents, SCHEMA_VERSION
<1> QED BY <1>2, <1>3, <1>4 DEF t, u, SCHEMA_VERSION, MIN_READER_VERSION

\* What the v8 build makes of a store keeps it what its stamps say.
LEMMA OldStore ==
  ASSUME IInv, OldMigrate
  PROVE  /\ Shaped(store') /\ WellFormed(store')
         /\ Usable(store) => Usable(store')
         /\ store'.meta = store.meta /\ store'.reader = 8 /\ store.reader < 8
<1> DEFINE created == [store EXCEPT !.agents = CurrentAgents \ {"wake"},
                                    !.messages = CurrentMessages \ {"withdraw"}]
           t == IF store.agents = {} THEN created ELSE ToV8(store)
<1>1. store' = [t EXCEPT !.reader = 8] /\ store.reader < 8 /\ ~Raises(store)
  BY DEF OldMigrate
<1>2. /\ Shaped(t) /\ t.meta = store.meta
      /\ Usable(store) => Usable(t)
      /\ {"ms", "hash"} \subseteq t.agents /\ "iso" \notin t.agents
  <2>1. CASE store.agents = {}
    <3>1. ~Usable(store)
      BY <2>1 DEF Usable, CurrentAgents
    <3>2. /\ Shaped(created) /\ created.meta = store.meta
          /\ created.agents = CurrentAgents \ {"wake"}
      BY DEF IInv, Shaped, CurrentAgents, CurrentMessages, AgentGroups, MessageGroups
    <3> QED BY <2>1, <3>1, <3>2 DEF CurrentAgents
  <2>2. CASE store.agents # {}
    <3>1. Shaped(store) /\ WellFormed(store)
      BY DEF IInv
    <3> QED BY <1>1, <2>2, <3>1, ToV8Groups DEF CurrentAgents
  <2> QED BY <2>1, <2>2
<1> HIDE DEF t
<1>3. /\ Shaped(store') /\ store'.meta = store.meta /\ store'.reader = 8
      /\ store'.agents = t.agents /\ store'.messages = t.messages /\ store'.claims = t.claims
  BY <1>1, <1>2 DEF Shaped
<1>4. Usable(store) => Usable(store')
  BY <1>2, <1>3 DEF Usable
<1>5. store.meta >= 9 => Usable(store)
  BY <1>1 DEF IInv, WellFormed, TooNew, Shaped, SCHEMA_VERSION
<1>6. WellFormed(store')
  BY <1>2, <1>3, <1>4, <1>5 DEF WellFormed, TooNew, SCHEMA_VERSION, MIN_READER_VERSION
<1> QED BY <1>1, <1>3, <1>4, <1>6

\* A later build's store is usable here or says that it is not.
LEMMA LaterStore ==
  ASSUME IInv, LaterBuild
  PROVE  /\ Shaped(store') /\ WellFormed(store')
         /\ Usable(store') \/ TooNew(store')
         /\ store'.meta = 10 /\ store.meta <= 9
         /\ store'.reader = 8 \/ store'.reader = 10
<1> DEFINE u == ApplyMigrations(store)
<1>1. Shaped(u) /\ Usable(u) /\ "iso" \notin u.agents
  BY MigratedUsable DEF IInv, LaterBuild
<1>2. \/ store' = [u EXCEPT !.agents = (u.agents \cap AgentGroups) \cup {"later"},
                          !.meta = 10, !.reader = 8]
      \/ store' = [u EXCEPT !.agents = (u.agents \cap (AgentGroups \ {"hash"})) \cup {"later"},
                          !.meta = 10, !.reader = 10]
  BY DEF LaterBuild, Later, SCHEMA_VERSION, MIN_READER_VERSION
<1> HIDE DEF u
<1>3. /\ Shaped(store') /\ store'.meta = 10
      /\ store'.messages = u.messages /\ store'.claims = u.claims
      /\ \/ store'.reader = 8 /\ u.agents \subseteq store'.agents
         \/ store'.reader = 10
      /\ "ms" \in store'.agents /\ "iso" \notin store'.agents
  <2>1. /\ "ms" \in u.agents /\ u.agents \subseteq AgentGroups
        /\ {"ms", "later"} \subseteq AgentGroups
    BY <1>1 DEF Shaped, Usable, CurrentAgents, AgentGroups
  <2>2. CASE store' = [u EXCEPT !.agents = (u.agents \cap AgentGroups) \cup {"later"},
                                !.meta = 10, !.reader = 8]
    BY <1>1, <2>1, <2>2 DEF Shaped
  <2>3. CASE store' = [u EXCEPT !.agents = (u.agents \cap (AgentGroups \ {"hash"})) \cup {"later"},
                                !.meta = 10, !.reader = 10]
    BY <1>1, <2>1, <2>3 DEF Shaped
  <2> QED BY <1>2, <2>2, <2>3
<1>4. Usable(store') \/ TooNew(store')
  BY <1>1, <1>3 DEF Usable, TooNew, SCHEMA_VERSION
<1>5. WellFormed(store')
  BY <1>3, <1>4 DEF WellFormed, Usable, CurrentAgents, SCHEMA_VERSION, MIN_READER_VERSION
<1> QED BY <1>3, <1>4, <1>5 DEF LaterBuild, SCHEMA_VERSION

LEMMA NextInv ==
  ASSUME IInv, [Next]_vars
  PROVE  IInv'
<1> USE DEF IInv
<1>1. ASSUME NEW p \in Procs, Open(p) PROVE IInv'
  <2>1. pc[p] = "idle" /\ ~TooNew(store) /\ UNCHANGED <<store, lock>>
        /\ pc' = [pc EXCEPT ![p] = IF IsCurrent(store) THEN "ready" ELSE "waiting"]
    BY <1>1 DEF Open
  <2>2. Shaped(store)' /\ WellFormed(store)'
    BY <2>1
  <2>3. Locked'
    BY <2>1 DEF Locked
  <2>4. IsCurrent(store) => Usable(store)
    BY <2>1 DEF IsCurrent, WellFormed
  <2>5. OperationsFit'
    BY <2>1, <2>4 DEF OperationsFit, Locked
  <2> QED BY <2>2, <2>3, <2>5
<1>2. ASSUME NEW p \in Procs, LockWon(p) PROVE IInv'
  BY <1>2, SchemaAssumption DEF LockWon, Locked, OperationsFit
<1>3. ASSUME NEW p \in Procs, LockLate(p) PROVE IInv'
  <2>1. /\ pc[p] = "waiting" /\ UNCHANGED <<store, lock>>
        /\ TooNew(store) \/ IsCurrent(store)
        /\ pc' = [pc EXCEPT ![p] = IF TooNew(store) THEN "idle" ELSE "ready"]
    BY <1>3 DEF LockLate
  <2>2. Shaped(store)' /\ WellFormed(store)'
    BY <2>1
  <2>3. Locked'
    BY <2>1 DEF Locked
  <2>4. TooNew(store) \/ Usable(store)
    BY <2>1 DEF IsCurrent, WellFormed
  <2>5. OperationsFit'
    BY <2>1, <2>4 DEF OperationsFit, Locked
  <2> QED BY <2>2, <2>3, <2>5
<1>4. ASSUME NEW p \in Procs, Busy(p) PROVE IInv'
  BY <1>4 DEF Busy, Locked, OperationsFit
<1>5. ASSUME NEW p \in Procs, Migrate(p) PROVE IInv'
  <2>1. /\ pc[p] = "migrating" /\ lock' = Nobody /\ pc' = [pc EXCEPT ![p] = "ready"]
        /\ store' = Stamped(ApplyMigrations(store)) /\ ~Raises(store)
    BY <1>5 DEF Migrate
  <2>2. Shaped(store') /\ WellFormed(store') /\ Usable(store')
    BY <2>1, StampedStore
  <2>3. Locked'
    BY <2>1, SchemaAssumption DEF Locked
  <2>4. OperationsFit'
    BY <2>2 DEF OperationsFit
  <2> QED BY <2>2, <2>3, <2>4
<1>6. ASSUME NEW p \in Procs, Rollback(p) PROVE IInv'
  BY <1>6, SchemaAssumption DEF Rollback, Locked, OperationsFit
<1>7. ASSUME NEW p \in Procs, Crash(p) PROVE IInv'
  BY <1>7, SchemaAssumption DEF Crash, Locked, OperationsFit
<1>8. ASSUME NEW p \in Procs, CallWithoutToken(p) PROVE IInv'
  BY <1>8 DEF CallWithoutToken, Locked, OperationsFit
<1>9. ASSUME NEW p \in Procs, NEW n \in Names, Call(p, n) PROVE IInv'
  <2>1. NewToken(n) /\ pc[p] = "ready" /\ Usable(store) /\ pc' = [pc EXCEPT ![p] = "idle"]
    BY <1>9 DEF Call
  <2>2. /\ Shaped(store') /\ WellFormed(store') /\ Usable(store')
        /\ lock = Nobody /\ lock' = lock
    BY <2>1, NewTokenStore
  <2>3. Locked'
    BY <2>1, <2>2, SchemaAssumption DEF Locked
  <2> QED BY <2>2, <2>3 DEF OperationsFit
<1>10. ASSUME NEW n \in Names, OldCall(n) PROVE IInv'
  <2>1. NewToken(n) /\ pc' = pc
    BY <1>10 DEF OldCall
  <2>2. /\ Shaped(store') /\ WellFormed(store') /\ (Usable(store) => Usable(store'))
        /\ store'.reader = store.reader /\ lock = Nobody /\ lock' = lock
    BY <2>1, NewTokenStore
  <2>3. Locked'
    BY <2>1, <2>2, SchemaAssumption DEF Locked
  <2> QED BY <2>1, <2>2, <2>3 DEF OperationsFit, TooNew
<1>11. ASSUME OldMigrate PROVE IInv'
  <2>1. lock = Nobody /\ lock' = lock /\ pc' = pc
    BY <1>11 DEF OldMigrate
  <2>2. /\ Shaped(store') /\ WellFormed(store') /\ (Usable(store) => Usable(store'))
        /\ store.reader < 8
    BY <1>11, OldStore
  <2>3. Locked'
    BY <2>1, SchemaAssumption DEF Locked
  <2>4. ~TooNew(store)
    BY <2>2 DEF TooNew, SCHEMA_VERSION, Shaped
  <2> QED BY <2>1, <2>2, <2>3, <2>4 DEF OperationsFit
<1>12. ASSUME LaterBuild PROVE IInv'
  <2>1. lock = Nobody /\ lock' = lock /\ pc' = pc
    BY <1>12 DEF LaterBuild
  <2>2. Shaped(store') /\ WellFormed(store') /\ (Usable(store') \/ TooNew(store'))
    BY <1>12, LaterStore
  <2>3. Locked'
    BY <2>1, SchemaAssumption DEF Locked
  <2> QED BY <2>1, <2>2, <2>3 DEF OperationsFit
<1>13. ASSUME UNCHANGED vars PROVE IInv'
  BY <1>13 DEF vars, Locked, OperationsFit
<1> QED
  BY <1>1, <1>2, <1>3, <1>4, <1>5, <1>6, <1>7, <1>8, <1>9, <1>10, <1>11, <1>12, <1>13
  DEF Next, OpenRefused

-----------------------------------------------------------------------------
(***************************************************************************)
(* Theorems                                                                *)
(***************************************************************************)
\* The store is well formed at every moment, its lock has one holder, and
\* that holder is migrating a store that still needs it.
THEOREM Invariant == Spec => []IInv
<1>1. Init => IInv
  BY InitInv
<1>2. IInv /\ [Next]_vars => IInv'
  BY NextInv
<1> QED BY <1>1, <1>2, PTL DEF Spec

\* An operation of this build never meets a missing column, in whatever order
\* processes and builds have opened and migrated the store; only a later build
\* that raises the minimum reader takes columns away.
THEOREM OperationsFitHolds == Spec => []OperationsFit
<1>1. IInv => OperationsFit
  BY DEF IInv
<1> QED BY <1>1, Invariant, PTL

\* What one step may do to the stamps.
LEMMA StepStamps ==
  ASSUME IInv, [Next]_vars
  PROVE  /\ store.meta > SCHEMA_VERSION =>
              store'.meta >= store.meta /\ store'.reader >= store.reader
         /\ OldAdmits(store) => OldAdmits(store') \/ TooNew(store')
<1> DEFINE StampsKept ==
             /\ store.meta > 9 => store'.meta >= store.meta /\ store'.reader >= store.reader
             /\ store.reader <= 8 => store'.reader <= 8 \/ store'.reader > 9
<1>1. store.meta \in Nat /\ store.reader \in Nat
  BY DEF IInv, Shaped
<1>2. ASSUME store' = store PROVE StampsKept
  BY <1>1, <1>2
<1>3. ASSUME NEW p \in Procs, Migrate(p) PROVE StampsKept
  <2>1. /\ store' = Stamped(ApplyMigrations(store)) /\ ~Raises(store)
        /\ pc[p] = "migrating"
    BY <1>3 DEF Migrate
  <2>2. store'.meta = 9 /\ store'.reader = 8
    BY <2>1, StampedStore DEF IInv, SCHEMA_VERSION, MIN_READER_VERSION
  <2>3. ~(store.meta > 9)
    BY <1>1, <2>1 DEF IInv, Locked, IsCurrent, WellFormed, SCHEMA_VERSION, MIN_READER_VERSION
  <2> QED BY <2>2, <2>3
<1>4. ASSUME NEW n \in Names, NewToken(n) PROVE StampsKept
  BY <1>1, <1>4, NewTokenStore
<1>5. ASSUME OldMigrate PROVE StampsKept
  BY <1>1, <1>5, OldStore
<1>6. ASSUME LaterBuild PROVE StampsKept
  BY <1>1, <1>6, LaterStore
<1>7. StampsKept
  <2>1. ASSUME NEW p \in Procs,
               Open(p) \/ LockWon(p) \/ LockLate(p) \/ Busy(p) \/ Rollback(p) \/ Crash(p)
                 \/ OpenRefused(p) \/ CallWithoutToken(p)
        PROVE  store' = store
    BY <2>1 DEF Open, OpenRefused, LockWon, LockLate, Busy, Rollback, Crash, CallWithoutToken, vars
  <2>2. ASSUME NEW n \in Names, OldCall(n) \/ \E p \in Procs : Call(p, n)
        PROVE  NewToken(n)
    BY <2>2 DEF Call, OldCall
  <2>3. UNCHANGED vars => store' = store
    BY DEF vars
  <2>4. \/ \E p \in Procs : Migrate(p)
        \/ \E n \in Names : NewToken(n)
        \/ OldMigrate \/ LaterBuild
        \/ store' = store
    <3>1. CASE UNCHANGED vars
      BY <2>3, <3>1
    <3>2. ASSUME NEW p \in Procs, Migrate(p) \/ \E n \in Names : Call(p, n)
          PROVE  (\E q \in Procs : Migrate(q)) \/ \E n \in Names : NewToken(n)
      BY <2>2, <3>2
    <3>3. ASSUME NEW n \in Names, OldCall(n) PROVE NewToken(n)
      BY <2>2, <3>3
    <3> QED BY <2>1, <3>1, <3>2, <3>3 DEF Next
  <2> QED BY <1>2, <1>3, <1>4, <1>5, <1>6, <2>4
<1> QED BY <1>7 DEF OldAdmits, TooNew, SCHEMA_VERSION

\* A process that was waiting for the lock does not migrate back what a later
\* build has stamped.
THEOREM NoDowngradeHolds == Spec => NoDowngrade
<1>1. IInv /\ [Next]_vars =>
        [store.meta > SCHEMA_VERSION =>
           store'.meta >= store.meta /\ store'.reader >= store.reader]_vars
  BY StepStamps
<1> QED BY <1>1, Invariant, PTL DEF Spec, NoDowngrade

\* An upgrade by this build shuts no v8 build out that was admitted before.
THEOREM NoLockoutHolds == Spec => NoLockout
<1>1. IInv /\ [Next]_vars => [OldAdmits(store) => OldAdmits(store') \/ TooNew(store')]_vars
  BY StepStamps
<1> QED BY <1>1, Invariant, PTL DEF Spec, NoLockout

-----------------------------------------------------------------------------
(***************************************************************************)
(* The rows of agents                                                      *)
(***************************************************************************)
\* The row that speaks for a name: its last.
LastRow(rows, n) == {i \in RowsOf(rows, n) : \A j \in RowsOf(rows, n) : j <= i}

\* A table in which every name has its last row of another, with its token.
Carried(old, new) ==
  /\ IsTable(new)
  /\ \A n \in Names : RowsOf(new, n) = LastRow(old, n)
  /\ \A i \in DOMAIN new : new[i].token = old[i].token

\* A table of one row to a name, its token hashed.
Sole(rows) ==
  \A i \in DOMAIN rows : RowsOf(rows, rows[i].name) = {i} /\ rows[i].hashed = TRUE

\* Whoever has a row has a last one, and no two.
LEMMA LastRowOf ==
  ASSUME NEW rows, IsTable(rows), NEW n \in Names, RowsOf(rows, n) # {}
  PROVE  \E i \in RowsOf(rows, n) : LastRow(rows, n) = {i}
<1> DEFINE own == RowsOf(rows, n)
<1>1. own \in SUBSET Nat /\ IsFiniteSet(own)
  BY FS_Subset DEF IsTable, RowsOf
<1> HIDE DEF own
<1>2. PICK last \in own : \A i \in own : i <= last
  BY <1>1, MaxOfFinite DEF own
<1>3. ASSUME NEW i \in own, \A j \in own : j <= i
      PROVE  i = last
  <2>1. i <= last /\ last <= i /\ i \in Nat /\ last \in Nat
    BY <1>1, <1>2, <1>3
  <2> QED BY <2>1
<1>4. {i \in own : \A j \in own : j <= i} = {last}
  BY <1>2, <1>3
<1> QED BY <1>2, <1>4 DEF LastRow, own

\* The copy of a v1 table keeps each name's last row.
LEMMA MergedRows ==
  ASSUME NEW rows, IsTable(rows)
  PROVE  /\ Carried(rows, Merged(rows))
         /\ \A i \in DOMAIN Merged(rows) :
              RowsOf(Merged(rows), Merged(rows)[i].name) = {i}
<1> DEFINE own(i) == RowsOf(rows, rows[i].name)
           lasts == {i \in DOMAIN rows : \A j \in own(i) : j <= i}
           latest(i) == Max({rows[j].seen : j \in own(i)})
           new == Merged(rows)
<1>1. /\ DOMAIN new = lasts
      /\ \A i \in lasts : new[i] = [rows[i] EXCEPT !.seen = latest(i)]
  BY DEF Merged
<1>2. \A i \in DOMAIN rows : rows[i] \in Row /\ i \in Nat \ {0}
  BY DEF IsTable
<1>3. ASSUME NEW i \in DOMAIN rows
      PROVE  latest(i) \in Nat
  <2> DEFINE Seen == {rows[j].seen : j \in own(i)}
             seen == [j \in own(i) |-> rows[j].seen]
  <2>1. IsFiniteSet(own(i)) /\ i \in own(i)
    BY FS_Subset DEF IsTable, RowsOf
  <2>2. Seen \in SUBSET Nat /\ Seen # {}
    BY <1>2, <2>1 DEF RowsOf, Row
  <2>3. seen \in Surjection(own(i), Seen)
    BY DEF Surjection
  <2>4. IsFiniteSet(Seen)
    <3> HIDE DEF own, Seen, seen
    <3> QED BY <2>1, <2>3, FS_Surjection
  <2> HIDE DEF Seen
  <2>5. Max(Seen) \in Nat
    BY <2>2, <2>4, MaxOfFinite
  <2> QED BY <2>5 DEF Seen
<1> HIDE DEF latest, new
<1>4. ASSUME NEW i \in lasts
      PROVE  /\ new[i] \in Row
             /\ new[i].name = rows[i].name /\ new[i].token = rows[i].token
  <2>1. rows[i] \in Row /\ latest(i) \in Nat /\ new[i] = [rows[i] EXCEPT !.seen = latest(i)]
    BY <1>1, <1>2, <1>3
  <2> HIDE DEF own, lasts
  <2> QED BY <2>1 DEF Row
<1>5. IsTable(new)
  <2>1. DOMAIN new \subseteq DOMAIN rows
    BY <1>1
  <2>2. IsFiniteSet(DOMAIN new)
    BY <2>1, FS_Subset DEF IsTable
  <2>3. new \in [DOMAIN new -> Row]
    BY <1>1, <1>4 DEF new, Merged
  <2> QED BY <2>1, <2>2, <2>3 DEF IsTable
<1>6. \A n \in Names : RowsOf(new, n) = LastRow(rows, n)
  <2> TAKE n \in Names
  <2>1. RowsOf(new, n) = {i \in lasts : rows[i].name = n}
    BY <1>1, <1>4 DEF RowsOf
  <2> QED BY <2>1 DEF LastRow, RowsOf
<1>7. ASSUME NEW i \in DOMAIN new
      PROVE  RowsOf(new, new[i].name) = {i}
  <2>1. i \in lasts /\ new[i].name = rows[i].name /\ rows[i].name \in Names
    BY <1>1, <1>2, <1>4, <1>7 DEF Row
  <2>2. i \in LastRow(rows, rows[i].name)
    BY <2>1 DEF LastRow, RowsOf
  <2>3. LastRow(rows, rows[i].name) = {i}
    BY <2>1, <2>2, LastRowOf DEF LastRow
  <2> QED BY <1>6, <2>1, <2>3
<1> QED BY <1>1, <1>4, <1>5, <1>6, <1>7 DEF Carried, new

\* Hashing changes the form of the tokens only.
LEMMA HashedRows ==
  ASSUME NEW rows, IsTable(rows)
  PROVE  /\ IsTable(Hashed(rows)) /\ DOMAIN Hashed(rows) = DOMAIN rows
         /\ \A i \in DOMAIN rows :
              /\ Hashed(rows)[i].name = rows[i].name
              /\ Hashed(rows)[i].token = rows[i].token
              /\ Hashed(rows)[i].hashed = TRUE
         /\ \A n \in Names : RowsOf(Hashed(rows), n) = RowsOf(rows, n)
<1>1. \A i \in DOMAIN rows : rows[i] \in Row
  BY DEF IsTable
<1>2. /\ DOMAIN Hashed(rows) = DOMAIN rows
      /\ \A i \in DOMAIN rows :
           /\ Hashed(rows)[i] \in Row
           /\ Hashed(rows)[i].name = rows[i].name
           /\ Hashed(rows)[i].token = rows[i].token
           /\ Hashed(rows)[i].hashed = TRUE
  BY <1>1 DEF Hashed, Row
<1>3. IsTable(Hashed(rows))
  BY <1>2 DEF IsTable, Hashed
<1> QED BY <1>2, <1>3 DEF RowsOf

\* The migrations to v8, of a store that has agents.
LEMMA V8Rows ==
  ASSUME NEW s, IsStore(s), WellFormed(s), Keyed(s), s.agents # {}, ~TooNew(s), ~Raises(s)
  PROVE  Carried(s.rows, ToV8(s).rows) /\ Sole(ToV8(s).rows)
<1> DEFINE rows == s.rows
           new == ToV8(s).rows
<1>1. IsTable(rows)
  BY DEF IsStore
<1>2. new = IF "iso" \in s.agents THEN Hashed(Merged(rows))
            ELSE IF "hash" \in s.agents THEN rows ELSE Hashed(rows)
  <2>1. Shaped(s)
    BY DEF IsStore, Shaped
  <2> QED BY <2>1, ToV8Groups
<1>3. ASSUME NEW n \in Names, "iso" \notin s.agents
      PROVE  RowsOf(rows, n) = LastRow(rows, n)
  <2>1. \A i \in RowsOf(rows, n) : RowsOf(rows, n) = {i}
    BY <1>3 DEF Keyed, RowsOf
  <2>2. \A i \in RowsOf(rows, n) : i \in Nat
    BY <1>1 DEF IsTable, RowsOf
  <2>3. \A i \in RowsOf(rows, n) : \A j \in RowsOf(rows, n) : j <= i
    BY <2>1, <2>2
  <2> QED BY <2>3 DEF LastRow
<1>4. \A i \in DOMAIN rows : rows[i].name \in Names
  BY <1>1 DEF IsTable, Row
<1> HIDE DEF rows, new
<1>5. CASE "iso" \in s.agents
  <2> DEFINE merged == Merged(rows)
  <2>1. /\ IsTable(merged) /\ \A n \in Names : RowsOf(merged, n) = LastRow(rows, n)
        /\ \A i \in DOMAIN merged : /\ merged[i].token = rows[i].token
                                    /\ RowsOf(merged, merged[i].name) = {i}
    BY <1>1, MergedRows DEF Carried
  <2>2. \A i \in DOMAIN merged : merged[i].name \in Names
    BY <2>1 DEF IsTable, Row
  <2> HIDE DEF merged
  <2>3. new = Hashed(merged)
    BY <1>2, <1>5 DEF merged
  <2>4. /\ IsTable(new) /\ DOMAIN new = DOMAIN merged
        /\ \A i \in DOMAIN merged : /\ new[i].name = merged[i].name
                                    /\ new[i].token = merged[i].token /\ new[i].hashed = TRUE
        /\ \A n \in Names : RowsOf(new, n) = RowsOf(merged, n)
    BY <2>1, <2>3, HashedRows
  <2> QED BY <2>1, <2>2, <2>4 DEF Carried, Sole, new, rows
<1>6. CASE "iso" \notin s.agents /\ "hash" \in s.agents
  <2>1. new = rows
    BY <1>2, <1>6
  <2>2. \A i \in DOMAIN rows : RowsOf(rows, rows[i].name) = {i} /\ rows[i].hashed = TRUE
    BY <1>6 DEF Keyed, rows
  <2> QED BY <1>1, <1>3, <1>6, <2>1, <2>2 DEF Carried, Sole, new, rows
<1>7. CASE "iso" \notin s.agents /\ "hash" \notin s.agents
  <2>1. new = Hashed(rows)
    BY <1>2, <1>7
  <2>2. /\ IsTable(new) /\ DOMAIN new = DOMAIN rows
        /\ \A i \in DOMAIN rows : /\ new[i].name = rows[i].name
                                  /\ new[i].token = rows[i].token /\ new[i].hashed = TRUE
        /\ \A n \in Names : RowsOf(new, n) = RowsOf(rows, n)
    BY <1>1, <2>1, HashedRows
  <2>3. \A i \in DOMAIN rows : RowsOf(rows, rows[i].name) = {i}
    BY <1>7 DEF Keyed, rows
  <2> QED BY <1>3, <1>4, <1>7, <2>2, <2>3 DEF Carried, Sole, new, rows
<1> QED BY <1>5, <1>6, <1>7

\* All of them, of whatever store.
LEMMA MigratedRows ==
  ASSUME NEW s, IsStore(s), WellFormed(s), Keyed(s), ~TooNew(s), ~Raises(s)
  PROVE  Carried(s.rows, ApplyMigrations(s).rows) /\ Sole(ApplyMigrations(s).rows)
<1>1. ApplyMigrations(s).rows = IF s.agents = {} THEN s.rows ELSE ToV8(s).rows
  <2>1. Shaped(s)
    BY DEF IsStore, Shaped
  <2> QED BY <2>1, MigratedUsable
<1>2. CASE s.agents = {}
  <2>1. DOMAIN s.rows = {} /\ IsTable(s.rows)
    BY <1>2 DEF Keyed, IsStore
  <2>2. \A n \in Names : RowsOf(s.rows, n) = {} /\ LastRow(s.rows, n) = {}
    BY <2>1 DEF RowsOf, LastRow
  <2> QED BY <1>1, <1>2, <2>1, <2>2 DEF Carried, Sole
<1>3. CASE s.agents # {}
  BY <1>1, <1>3, V8Rows
<1> QED BY <1>2, <1>3

\* The row that a new token goes into: the name's own, or one of a new rowid.
OwnIds(rows, n) ==
  LET own == RowsOf(rows, n) IN IF own = {} THEN {Max(DOMAIN rows \cup {0}) + 1} ELSE own

WithRow(rows, ids, r) == [i \in DOMAIN rows \cup ids |-> IF i \in ids THEN r ELSE rows[i]]

LEMMA NewTokenRows ==
  ASSUME NEW rows, IsTable(rows), NEW n \in Names, NEW r \in Row, r.name = n
  PROVE  LET ids == OwnIds(rows, n)
             new == WithRow(rows, ids, r)
         IN  /\ IsTable(new)
             /\ ids # {} /\ RowsOf(new, n) = ids
             /\ \A m \in Names \ {n} : RowsOf(new, m) = RowsOf(rows, m)
<1> DEFINE ids == OwnIds(rows, n)
           new == WithRow(rows, ids, r)
<1>1. IsFiniteSet(DOMAIN rows) /\ DOMAIN rows \subseteq Nat \ {0}
  BY DEF IsTable
<1>2. /\ ids # {} /\ ids \subseteq Nat \ {0} /\ IsFiniteSet(DOMAIN rows \cup ids)
      /\ \A i \in ids : i \in DOMAIN rows => rows[i].name = n
      /\ \A i \in DOMAIN rows : rows[i].name = n => i \in ids
  <2>1. CASE RowsOf(rows, n) = {}
    <3> DEFINE all == DOMAIN rows \cup {0}
               top == Max(all)
    <3>1. IsFiniteSet(all)
      BY <1>1, FS_AddElement
    <3>2. all \in SUBSET Nat /\ all # {}
      BY <1>1
    <3> HIDE DEF all
    <3>3. top \in Nat /\ \A i \in all : i <= top
      BY <3>1, <3>2, MaxOfFinite
    <3> HIDE DEF top
    <3>4. ids = {top + 1}
      BY <2>1 DEF OwnIds, top, all
    <3>5. top + 1 \in Nat \ {0} /\ top + 1 \notin DOMAIN rows
      BY <1>1, <3>3 DEF all
    <3>6. IsFiniteSet(DOMAIN rows \cup {top + 1})
      BY <1>1, FS_AddElement
    <3> QED BY <2>1, <3>4, <3>5, <3>6 DEF RowsOf
  <2>2. CASE RowsOf(rows, n) # {}
    <3>1. ids = RowsOf(rows, n) /\ DOMAIN rows \cup ids = DOMAIN rows
      BY <2>2 DEF OwnIds, RowsOf
    <3> QED BY <1>1, <2>2, <3>1 DEF RowsOf
  <2> QED BY <2>1, <2>2
<1>3. /\ DOMAIN new = DOMAIN rows \cup ids
      /\ \A i \in DOMAIN new : new[i] = IF i \in ids THEN r ELSE rows[i]
  BY DEF WithRow
<1> HIDE DEF ids, new
<1>4. IsTable(new)
  <2>1. \A i \in DOMAIN new : new[i] \in Row
    BY <1>3 DEF IsTable
  <2>2. new \in [DOMAIN new -> Row]
    BY <2>1 DEF new, WithRow
  <2> QED BY <1>1, <1>2, <1>3, <2>2 DEF IsTable
<1>5. RowsOf(new, n) = ids
  BY <1>2, <1>3 DEF RowsOf
<1>6. ASSUME NEW m \in Names \ {n} PROVE RowsOf(new, m) = RowsOf(rows, m)
  BY <1>2, <1>3 DEF RowsOf
<1> QED BY <1>2, <1>4, <1>5, <1>6 DEF ids, new

-----------------------------------------------------------------------------
(***************************************************************************)
(* The invariant of the rows                                               *)
(***************************************************************************)
\* What is known of the rows and the counters at every moment.
Tabled ==
  /\ IsTable(store.rows)
  /\ Keyed(store)
  /\ tokens \in 0..MaxToken
  /\ valid \in [Names -> 0..tokens]
  /\ faults \in 0..MaxFaults

\* A name has a row if it was given a token, and its last row has the token
\* that it was given last.
Credited ==
  ~TooNew(store) =>
    \A n \in Names :
      /\ valid[n] = 0 <=> RowsOf(store.rows, n) = {}
      /\ \A i \in LastRow(store.rows, n) : store.rows[i].token = valid[n]

\* A migration, by whatever build, seen from the rows.
Upgrade ==
  /\ ~TooNew(store) /\ UNCHANGED <<tokens, valid>>
  /\ Carried(store.rows, store'.rows) /\ Sole(store'.rows)
  /\ store'.agents # {}
  /\ "hash" \in store'.agents \/ TooNew(store')

\* A token is given, by whatever build.
TokenGiven(n) == NewToken(n) /\ "hash" \in store.agents /\ "iso" \notin store.agents

LEMMA MigrateRows ==
  ASSUME IInv, Tabled, NEW p \in Procs, Migrate(p)
  PROVE  Upgrade
<1> DEFINE u == ApplyMigrations(store)
<1>1. /\ pc[p] = "migrating" /\ ~Raises(store) /\ store' = Stamped(u)
      /\ UNCHANGED <<tokens, valid>>
  BY DEF Migrate
<1>2. /\ IsStore(store) /\ Shaped(store) /\ WellFormed(store) /\ Keyed(store)
      /\ ~TooNew(store)
  BY <1>1 DEF IInv, Locked, Tabled, IsStore, Shaped
<1>3. Carried(store.rows, u.rows) /\ Sole(u.rows) /\ Shaped(u) /\ Usable(u)
  BY <1>1, <1>2, MigratedRows, MigratedUsable
<1> HIDE DEF u
<1>4. store'.rows = u.rows /\ store'.agents = u.agents
  BY <1>1, <1>3 DEF Stamped, Shaped
<1>5. "hash" \in u.agents
  BY <1>3 DEF Usable, CurrentAgents
<1> QED BY <1>1, <1>2, <1>3, <1>4, <1>5 DEF Upgrade

LEMMA LaterRows ==
  ASSUME IInv, Tabled, LaterBuild
  PROVE  Upgrade
<1> DEFINE u == ApplyMigrations(store)
<1>1. /\ ~TooNew(store) /\ ~Raises(store) /\ UNCHANGED <<tokens, valid>>
      /\ \/ store' = Later(store, AgentGroups, MIN_READER_VERSION)
         \/ store' = Later(store, AgentGroups \ {"hash"}, SCHEMA_VERSION + 1)
  BY DEF LaterBuild
<1>2. IsStore(store) /\ Shaped(store) /\ WellFormed(store) /\ Keyed(store)
  BY DEF IInv, Tabled, IsStore, Shaped
<1>3. Carried(store.rows, u.rows) /\ Sole(u.rows) /\ Shaped(u)
  BY <1>1, <1>2, MigratedRows, MigratedUsable
<1>4. store'.rows = u.rows /\ "later" \in store'.agents
  BY <1>1, <1>3 DEF Later, Shaped
<1>5. Usable(store') \/ TooNew(store')
  BY LaterStore
<1>6. "hash" \in store'.agents \/ TooNew(store')
  BY <1>5 DEF Usable, CurrentAgents
<1> QED BY <1>1, <1>3, <1>4, <1>6 DEF Upgrade

LEMMA OldRows ==
  ASSUME IInv, Tabled, OldMigrate
  PROVE  Upgrade
<1> DEFINE created == [store EXCEPT !.agents = CurrentAgents \ {"wake"},
                                    !.messages = CurrentMessages \ {"withdraw"}]
           t == IF store.agents = {} THEN created ELSE ToV8(store)
<1>1. /\ store' = [t EXCEPT !.reader = 8] /\ store.reader < 8 /\ ~Raises(store)
      /\ UNCHANGED <<tokens, valid>>
  BY DEF OldMigrate
<1>2. IsStore(store) /\ Shaped(store) /\ WellFormed(store) /\ Keyed(store)
  BY DEF IInv, Tabled, IsStore, Shaped
<1>3. ~TooNew(store)
  BY <1>1, <1>2 DEF TooNew, SCHEMA_VERSION, Shaped
<1>4. Carried(store.rows, t.rows) /\ Sole(t.rows) /\ Shaped(t) /\ "hash" \in t.agents
  <2>1. CASE store.agents = {}
    <3>1. DOMAIN store.rows = {} /\ IsTable(store.rows)
      BY <2>1 DEF Tabled, Keyed
    <3>2. t.rows = store.rows /\ t.agents = CurrentAgents \ {"wake"} /\ Shaped(t)
      BY <1>2, <2>1 DEF Shaped, CurrentAgents, CurrentMessages, AgentGroups, MessageGroups
    <3>3. \A n \in Names : RowsOf(store.rows, n) = {} /\ LastRow(store.rows, n) = {}
      BY <3>1 DEF RowsOf, LastRow
    <3> HIDE DEF t
    <3> QED BY <3>1, <3>2, <3>3 DEF Carried, Sole, CurrentAgents
  <2>2. CASE store.agents # {}
    BY <1>1, <1>2, <1>3, <2>2, V8Rows, ToV8Groups DEF CurrentAgents
  <2> QED BY <2>1, <2>2
<1> HIDE DEF t
<1>5. store'.rows = t.rows /\ store'.agents = t.agents
  BY <1>1, <1>4 DEF Shaped
<1> QED BY <1>1, <1>3, <1>4, <1>5 DEF Upgrade

\* Every step leaves the rows alone, migrates them or gives a token.
LEMMA StepRows ==
  ASSUME IInv, Tabled, [Next]_vars
  PROVE  \/ UNCHANGED <<store, tokens, valid>>
         \/ Upgrade
         \/ \E n \in Names : TokenGiven(n)
<1>1. ASSUME NEW p \in Procs,
             Open(p) \/ LockWon(p) \/ LockLate(p) \/ Busy(p) \/ Rollback(p) \/ Crash(p)
               \/ OpenRefused(p) \/ CallWithoutToken(p)
      PROVE  UNCHANGED <<store, tokens, valid>>
  BY <1>1 DEF Open, OpenRefused, LockWon, LockLate, Busy, Rollback, Crash, CallWithoutToken, vars
<1>2. ASSUME NEW p \in Procs, NEW n \in Names, Call(p, n) PROVE TokenGiven(n)
  BY <1>2 DEF Call, Usable, CurrentAgents, TokenGiven, IInv, WellFormed
<1>3. ASSUME NEW n \in Names, OldCall(n) PROVE TokenGiven(n)
  <2>1. NewToken(n) /\ store.reader = 8
    BY <1>3 DEF OldCall
  <2>2. "hash" \in store.agents
    BY <2>1 DEF IInv, WellFormed, TooNew, SCHEMA_VERSION, MIN_READER_VERSION
  <2> QED BY <2>1, <2>2 DEF TokenGiven, IInv, WellFormed
<1>4. CASE UNCHANGED vars
  BY <1>4 DEF vars
<1> QED BY <1>1, <1>2, <1>3, <1>4, MigrateRows, OldRows, LaterRows DEF Next

LEMMA StepFaults ==
  ASSUME Tabled, [Next]_vars
  PROVE  faults' \in 0..MaxFaults
<1>1. faults \in 0..MaxFaults /\ MaxFaults \in Nat
  BY SchemaAssumption DEF Tabled
<1>2. faults' = faults \/ (faults < MaxFaults /\ faults' = faults + 1)
  BY DEF Next, Open, OpenRefused, LockWon, LockLate, Busy, Migrate, Rollback, Crash,
     CallWithoutToken, Call, OldCall, NewToken, OldMigrate, LaterBuild, vars
<1> QED BY <1>1, <1>2

\* A token is given: the name has one row, of the new token, and the others
\* have what they had.
LEMMA TokenRows ==
  ASSUME IInv, Tabled, NEW n \in Names, TokenGiven(n)
  PROVE  /\ IsTable(store'.rows) /\ Keyed(store)'
         /\ tokens' \in 0..MaxToken /\ tokens' = tokens + 1 /\ store'.reader = store.reader
         /\ valid' = [valid EXCEPT ![n] = tokens + 1]
         /\ RowsOf(store'.rows, n) # {}
         /\ \A i \in RowsOf(store'.rows, n) : store'.rows[i].token = tokens + 1
         /\ \A m \in Names \ {n} :
              /\ RowsOf(store'.rows, m) = RowsOf(store.rows, m)
              /\ \A i \in RowsOf(store.rows, m) : store'.rows[i] = store.rows[i]
<1> DEFINE r == [name |-> n, seen |-> 0, token |-> tokens + 1, hashed |-> TRUE]
           rows == store.rows
           own == RowsOf(rows, n)
           ids == OwnIds(rows, n)
           new == WithRow(rows, ids, r)
<1>1. /\ tokens < MaxToken /\ tokens' = tokens + 1
      /\ valid' = [valid EXCEPT ![n] = tokens + 1]
      /\ store' = [store EXCEPT !.rows = new]
      /\ "hash" \in store.agents /\ "iso" \notin store.agents
  BY DEF TokenGiven, NewToken, OwnIds, WithRow
<1>2. tokens \in 0..MaxToken /\ MaxToken \in Nat /\ IsTable(rows) /\ Keyed(store) /\ Shaped(store)
  BY SchemaAssumption DEF Tabled, IInv
<1>3. tokens' \in 0..MaxToken
  BY <1>1, <1>2
<1>4. r \in Row /\ r.name = n /\ r.token = tokens + 1 /\ r.hashed = TRUE
  BY <1>1, <1>2 DEF Row
<1>5. /\ store'.rows = new /\ store'.agents = store.agents /\ store'.reader = store.reader
  BY <1>1, <1>2 DEF Shaped
<1> HIDE DEF r
<1>6. /\ DOMAIN new = DOMAIN rows \cup ids
      /\ \A i \in DOMAIN new : new[i] = IF i \in ids THEN r ELSE rows[i]
      /\ ~TooNew(store) => \E i \in ids : ids = {i}
  <2>1. ~TooNew(store) => \A i \in own : own = {i}
    BY <1>1, <1>2 DEF Keyed, RowsOf
  <2> QED BY <2>1 DEF OwnIds, WithRow
<1>7. /\ IsTable(new) /\ ids # {} /\ RowsOf(new, n) = ids
      /\ \A m \in Names \ {n} : RowsOf(new, m) = RowsOf(rows, m)
  BY <1>2, <1>4, NewTokenRows
<1>8. \A m \in Names \ {n} : \A i \in RowsOf(rows, m) : i \notin ids /\ new[i] = rows[i]
  BY <1>6, <1>7 DEF RowsOf
<1>9. \A i \in ids : new[i].token = tokens + 1
  BY <1>4, <1>6
<1> HIDE DEF ids, new
<1>10. Keyed(store)'
  <2>1. store'.agents # {}
    BY <1>1, <1>5
  <2>2. ASSUME ~TooNew(store'), NEW i \in DOMAIN new
        PROVE  RowsOf(new, new[i].name) = {i} /\ new[i].hashed = TRUE
    <3>1. ~TooNew(store)
      BY <1>5, <2>2 DEF TooNew
    <3>2. CASE i \in ids
      BY <1>4, <1>6, <1>7, <2>2, <3>1, <3>2
    <3>3. CASE i \notin ids
      <4>1. i \in DOMAIN rows /\ new[i] = rows[i] /\ rows[i].name \in Names
        BY <1>2, <1>6, <2>2, <3>3 DEF IsTable, Row
      <4>2. rows[i].name # n
        BY <1>7, <2>2, <3>3, <4>1 DEF RowsOf
      <4>3. RowsOf(rows, rows[i].name) = {i} /\ rows[i].hashed = TRUE
        BY <1>1, <1>2, <3>1, <4>1 DEF Keyed
      <4> QED BY <1>7, <4>1, <4>2, <4>3
    <3> QED BY <3>2, <3>3
  <2> QED BY <1>1, <1>5, <2>1, <2>2 DEF Keyed
<1> QED BY <1>1, <1>3, <1>5, <1>7, <1>8, <1>9, <1>10

LEMMA InitTabled == Init => Tabled
<1> SUFFICES ASSUME Init PROVE Tabled
  OBVIOUS
<1> DEFINE rows == store.rows
           All == {rows[i].token : i \in DOMAIN rows} \cup {0}
           Own(n) == {rows[i].token : i \in LastSeen(rows, n)} \cup {0}
<1>1. IsStore(store) /\ Keyed(store) /\ MaxToken \in Nat /\ MaxFaults \in Nat
  BY SchemaAssumption DEF Init
<1>2. \A i \in DOMAIN rows : rows[i].token \in 1..MaxToken
  BY <1>1 DEF IsStore, IsTable, Row
<1>3. All \in SUBSET (0..MaxToken) /\ All # {}
  BY <1>1, <1>2
<1>4. tokens = Max(All) /\ valid = [n \in Names |-> Max(Own(n))]
  BY DEF Init
<1>5. \A n \in Names : Own(n) \in SUBSET All /\ Own(n) # {}
  BY DEF LastSeen, RowsOf
<1> HIDE DEF All, Own
<1>6. tokens \in 0..MaxToken /\ \A i \in All : i <= tokens
  BY <1>1, <1>3, <1>4, MaxOf
<1>7. ASSUME NEW n \in Names PROVE Max(Own(n)) \in 0..tokens
  <2>1. Own(n) \in SUBSET (0..MaxToken) /\ Own(n) # {}
    BY <1>3, <1>5
  <2>2. Max(Own(n)) \in All
    BY <1>1, <1>5, <2>1, MaxOf
  <2>3. \A x \in All : x \in Nat /\ x <= tokens
    BY <1>3, <1>6
  <2>4. tokens \in Nat
    BY <1>1, <1>6
  <2> HIDE DEF rows
  <2> QED BY <2>2, <2>3, <2>4
<1>8. valid \in [Names -> 0..tokens]
  BY <1>4, <1>7
<1> QED BY <1>1, <1>6, <1>8 DEF Tabled, IsStore, Init

LEMMA NextTabled ==
  ASSUME IInv, Tabled, [Next]_vars
  PROVE  Tabled'
<1>1. faults' \in 0..MaxFaults
  BY StepFaults
<1>2. CASE UNCHANGED <<store, tokens, valid>>
  BY <1>1, <1>2 DEF Tabled
<1>3. CASE Upgrade
  <2>1. IsTable(store'.rows) /\ Sole(store'.rows) /\ UNCHANGED <<tokens, valid>>
        /\ store'.agents # {} /\ ("hash" \in store'.agents \/ TooNew(store'))
    BY <1>3 DEF Upgrade, Carried
  <2>2. Keyed(store)'
    BY <2>1 DEF Keyed, Sole
  <2> QED BY <1>1, <2>1, <2>2 DEF Tabled
<1>4. ASSUME NEW n \in Names, TokenGiven(n) PROVE Tabled'
  <2>1. /\ IsTable(store'.rows) /\ Keyed(store)' /\ tokens' \in 0..MaxToken
        /\ tokens' = tokens + 1 /\ valid' = [valid EXCEPT ![n] = tokens + 1]
    BY <1>4, TokenRows
  <2>2. valid' \in [Names -> 0..tokens']
    BY <2>1 DEF Tabled
  <2> QED BY <1>1, <2>1, <2>2 DEF Tabled
<1> QED BY <1>2, <1>3, <1>4, StepRows

\* agents keeps its shape and key through every migration, and the counters of
\* tokens and faults their bounds.
THEOREM TabledInvariant == Spec => [](IInv /\ Tabled)
<1>1. Init => IInv /\ Tabled
  BY InitInv, InitTabled
<1>2. IInv /\ Tabled /\ [Next]_vars => (IInv /\ Tabled)'
  BY NextInv, NextTabled
<1> QED BY <1>1, <1>2, PTL DEF Spec

\* Types, with at most one holder of the write lock and none but a process
\* that is migrating.
THEOREM TypeCorrect == Spec => []TypeOK
<1>1. IInv /\ Tabled => TypeOK
  <2> SUFFICES ASSUME IInv, Tabled PROVE TypeOK
    OBVIOUS
  <2>1. IsStore(store)
    BY DEF IInv, Tabled, IsStore, Shaped
  <2> QED BY <2>1 DEF TypeOK, IInv, Tabled, Locked
<1> QED BY <1>1, TabledInvariant, PTL

LEMMA InitCredited ==
  ASSUME LatestLast(Starts), Init
  PROVE  Credited
<1> SUFFICES ASSUME ~TooNew(store), NEW n \in Names
             PROVE  /\ valid[n] = 0 <=> RowsOf(store.rows, n) = {}
                    /\ \A i \in LastRow(store.rows, n) : store.rows[i].token = valid[n]
  BY DEF Credited
<1> DEFINE rows == store.rows
           own == RowsOf(rows, n)
           Own == {rows[i].token : i \in LastSeen(rows, n)} \cup {0}
<1>1. IsTable(rows) /\ Keyed(store) /\ MaxToken \in Nat
  BY SchemaAssumption DEF Init, IsStore
<1>2. valid[n] = Max(Own)
  BY DEF Init
<1>3. CASE own = {}
  <2>1. Own = {0}
    BY <1>3 DEF LastSeen
  <2>2. Max({0}) = 0
    <3>1. {0} \in SUBSET (0..0) /\ {0} # {}
      OBVIOUS
    <3> QED BY <3>1, MaxOf
  <2> QED BY <1>2, <1>3, <2>1, <2>2 DEF LastRow
<1>4. CASE own # {}
  <2>1. PICK last \in own : LastRow(rows, n) = {last}
    BY <1>1, <1>4, LastRowOf
  <2>2. \A i \in own : i \in Nat /\ rows[i].seen \in Nat /\ rows[i].token \in 1..MaxToken
    BY <1>1 DEF IsTable, RowsOf, Row
  <2>3. \A i \in own : i = last \/ rows[i].seen < rows[last].seen
    <3>1. CASE "iso" \in store.agents
      <4>1. \A i \in own : i <= last
        BY <2>1 DEF LastRow
      <4>2. \A i, j \in own : i < j => rows[i].seen < rows[j].seen
        BY <3>1 DEF LatestLast, Init, RowsOf
      <4> QED BY <2>1, <2>2, <4>1, <4>2
    <3>2. CASE "iso" \notin store.agents
      BY <1>1, <2>1, <3>2 DEF Keyed, RowsOf
    <3> QED BY <3>1, <3>2
  <2>4. LastSeen(rows, n) = {last}
    BY <2>1, <2>2, <2>3 DEF LastSeen
  <2>5. Own = {rows[last].token, 0}
    BY <2>4
  <2>6. rows[last].token \in 1..MaxToken
    BY <2>1, <2>2
  <2> HIDE DEF own, Own
  <2>7. Max(Own) = rows[last].token
    <3>1. Own \in SUBSET (0..MaxToken) /\ Own # {}
      BY <1>1, <2>5, <2>6
    <3>2. Max(Own) \in Own /\ rows[last].token <= Max(Own)
      BY <1>1, <2>5, <3>1, MaxOf
    <3> QED BY <2>5, <2>6, <3>2
  <2> QED BY <1>2, <1>4, <2>1, <2>6, <2>7 DEF own
<1> QED BY <1>3, <1>4

LEMMA NextCredited ==
  ASSUME IInv, Tabled, Credited, [Next]_vars
  PROVE  Credited'
<1>1. CASE UNCHANGED <<store, tokens, valid>>
  BY <1>1 DEF Credited
<1>2. CASE Upgrade
  <2>1. /\ ~TooNew(store) /\ valid' = valid /\ IsTable(store.rows) /\ IsTable(store'.rows)
        /\ \A n \in Names : RowsOf(store'.rows, n) = LastRow(store.rows, n)
        /\ \A i \in DOMAIN store'.rows : store'.rows[i].token = store.rows[i].token
    BY <1>2 DEF Upgrade, Carried, Tabled
  <2>2. ASSUME NEW n \in Names
        PROVE  /\ valid'[n] = 0 <=> RowsOf(store'.rows, n) = {}
               /\ \A i \in LastRow(store'.rows, n) : store'.rows[i].token = valid'[n]
    <3>1. /\ valid[n] = 0 <=> RowsOf(store.rows, n) = {}
          /\ \A i \in LastRow(store.rows, n) : store.rows[i].token = valid[n]
      BY <2>1 DEF Credited
    <3>2. RowsOf(store.rows, n) = {} <=> LastRow(store.rows, n) = {}
      BY <2>1, LastRowOf DEF LastRow
    <3>3. \A i \in LastRow(store'.rows, n) : i \in LastRow(store.rows, n) /\ i \in DOMAIN store'.rows
      BY <2>1 DEF LastRow, RowsOf
    <3> QED BY <2>1, <3>1, <3>2, <3>3
  <2> QED BY <2>2 DEF Credited
<1>3. ASSUME NEW n \in Names, TokenGiven(n) PROVE Credited'
  <2>1. /\ store'.reader = store.reader /\ valid' = [valid EXCEPT ![n] = tokens + 1]
        /\ RowsOf(store'.rows, n) # {}
        /\ \A i \in RowsOf(store'.rows, n) : store'.rows[i].token = tokens + 1
        /\ \A m \in Names \ {n} :
             /\ RowsOf(store'.rows, m) = RowsOf(store.rows, m)
             /\ \A i \in RowsOf(store.rows, m) : store'.rows[i] = store.rows[i]
    BY <1>3, TokenRows
  <2>2. tokens \in Nat /\ valid \in [Names -> 0..tokens]
    BY DEF Tabled
  <2>3. ASSUME ~TooNew(store)', NEW m \in Names
        PROVE  /\ valid'[m] = 0 <=> RowsOf(store'.rows, m) = {}
               /\ \A i \in LastRow(store'.rows, m) : store'.rows[i].token = valid'[m]
    <3>1. CASE m = n
      <4>1. valid'[m] = tokens + 1 /\ tokens + 1 # 0
        BY <2>1, <2>2, <3>1
      <4> QED BY <2>1, <3>1, <4>1 DEF LastRow
    <3>2. CASE m # n
      <4>1. valid'[m] = valid[m] /\ ~TooNew(store)
        BY <2>1, <2>2, <2>3, <3>2 DEF TooNew
      <4>2. LastRow(store'.rows, m) = LastRow(store.rows, m)
        BY <2>1, <3>2 DEF LastRow
      <4> QED BY <2>1, <3>2, <4>1, <4>2 DEF Credited, LastRow
    <3> QED BY <3>1, <3>2
  <2> QED BY <2>3 DEF Credited
<1> QED BY <1>1, <1>2, <1>3, StepRows

\* Through every rebuild of agents, by this build or another, and whatever
\* crashes, a name has one row with the token its holder was given last; a
\* table with duplicate names must have each name's latest seen row last.
THEOREM CredentialsKeptHolds ==
  ASSUME LatestLast(Starts)
  PROVE  Spec => []CredentialsKept
<1>1. Init => Credited
  BY InitCredited
<1>2. IInv /\ Tabled /\ Credited /\ [Next]_vars => Credited'
  BY NextCredited
<1>3. Tabled /\ Credited => CredentialsKept
  <2> SUFFICES ASSUME Tabled, Credited, "iso" \notin store.agents, ~TooNew(store),
                      NEW n \in Names, valid[n] # 0 \/ RowsOf(store.rows, n) # {}
               PROVE  /\ valid[n] # 0
                      /\ \E i \in RowsOf(store.rows, n) :
                           /\ RowsOf(store.rows, n) = {i} /\ store.rows[i].token = valid[n]
                           /\ store.rows[i].hashed = ("hash" \in store.agents)
    BY DEF CredentialsKept
  <2>1. valid[n] # 0 /\ RowsOf(store.rows, n) # {}
    BY DEF Credited
  <2>2. PICK i \in RowsOf(store.rows, n) : LastRow(store.rows, n) = {i}
    BY <2>1, LastRowOf DEF Tabled
  <2>3. store.rows[i].token = valid[n]
    BY <2>2 DEF Credited
  <2>4. RowsOf(store.rows, n) = {i} /\ store.rows[i].hashed = ("hash" \in store.agents)
    BY <2>2 DEF Tabled, Keyed, RowsOf
  <2> QED BY <2>1, <2>2, <2>3, <2>4
<1> QED BY <1>1, <1>2, <1>3, TabledInvariant, PTL DEF Spec
=============================================================================
