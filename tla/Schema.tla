------------------------------- MODULE Schema -------------------------------
(***************************************************************************)
(* Opening the store: init_schema and the migrations from v1 to v9.  Every *)
(* operation of this build begins with an open of its own, on a connection *)
(* of its own: a check without a lock, and if the store is not current the *)
(* write lock, the same check again, all migrations, the two stamps and    *)
(* one COMMIT.  Builds of other versions use the same file.                *)
(*                                                                         *)
(* A table is the set of its column groups, {} if it is missing; a group   *)
(* is what one version added.  While a process holds the lock nobody else  *)
(* writes and nobody sees its work, so the migrations and stamps are one   *)
(* step, Migrate, and a crash before the COMMIT leaves the store as it was. *)
(***************************************************************************)
EXTENDS Integers, FiniteSetsExt

CONSTANTS
  Procs,      \* processes of this build
  Names,      \* agents' names
  Nobody,     \* no process has the write lock
  Starts,     \* the stores that may be found at the beginning
  MaxToken,   \* bound on tokens
  MaxFaults,  \* bound on crashes and on errors inside a migration
  OtherBuilds \* TRUE if builds of other versions use the store

SCHEMA_VERSION == 9
MIN_READER_VERSION == 8

AgentGroups == {"iso", "ms", "token", "status", "session", "hash", "wake", "later"}
MessageGroups == {"iso", "ms", "lifecycle", "headline", "auth", "withdraw"}

\* A row of agents: seen stands for last_seen, token for the credential in
\* it, and hashed says in which form.
Row == [name : Names, seen : Nat, token : 1..MaxToken, hashed : BOOLEAN]

\* The agents table, rowid -> row.
IsTable(rows) ==
  /\ rows \in [DOMAIN rows -> Row]
  /\ DOMAIN rows \subseteq Nat \ {0} /\ IsFiniteSet(DOMAIN rows)

\* meta is dlb_meta.schema_version, 0 if there is no such table, no such row
\* or no number in it; reader is user_version.
IsStore(s) ==
  /\ s \in [agents : SUBSET AgentGroups, messages : SUBSET MessageGroups,
            claims : BOOLEAN, rows : {s.rows}, meta : Nat, reader : Nat]
  /\ IsTable(s.rows)

\* The rowids of a name's rows: one, where the name is the primary key.
RowsOf(rows, n) == {i \in DOMAIN rows : rows[i].name = n}

\* What every operation of this build may rely on.
CurrentAgents == {"ms", "status", "session", "hash", "wake"}
CurrentMessages == MessageGroups \ {"iso"}
Usable(s) ==
  /\ CurrentAgents \subseteq s.agents
  /\ CurrentMessages \subseteq s.messages
  /\ s.claims

TooNew(s) == s.reader > SCHEMA_VERSION

\* What the builds leave behind: tables of one of the two time formats, a
\* database without agents that has no mail either, and a store that is what
\* its two stamps say.
WellFormed(s) ==
  /\ \/ s.agents = {} /\ s.messages = {}
     \/ s.agents = {"iso", "token"}
     \/ "ms" \in s.agents /\ "iso" \notin s.agents
  /\ s.meta >= SCHEMA_VERSION /\ ~TooNew(s) => Usable(s)
  /\ s.meta > SCHEMA_VERSION => s.reader >= MIN_READER_VERSION
  /\ s.reader >= MIN_READER_VERSION /\ ~TooNew(s) => "hash" \in s.agents

\* A name has one row, but in a v1 table that lost its key, and the row's
\* token has the form that its column is for.
Keyed(s) ==
  /\ s.agents = {} => DOMAIN s.rows = {}
  /\ ~TooNew(s) =>
       \A i \in DOMAIN s.rows :
         /\ "iso" \notin s.agents => RowsOf(s.rows, s.rows[i].name) = {i}
         /\ s.rows[i].hashed = ("hash" \in s.agents)

ASSUME SchemaAssumption ==
  /\ Nobody \notin Procs
  /\ MaxToken \in Nat /\ MaxFaults \in Nat /\ OtherBuilds \in BOOLEAN
  /\ \A s \in Starts : IsStore(s) /\ WellFormed(s) /\ Keyed(s)

VARIABLES
  store,   \* the committed database
  lock,    \* who holds the write lock
  pc,      \* "idle", "waiting" for the lock, "migrating", or "ready" to operate
  tokens,  \* tokens handed out so far
  valid,   \* history: the token each name was given last, 0 if none
  faults   \* crashes and errors so far

vars == <<store, lock, pc, tokens, valid, faults>>

TypeOK ==
  /\ IsStore(store)
  /\ lock \in Procs \cup {Nobody}
  /\ pc \in [Procs -> {"idle", "waiting", "migrating", "ready"}]
  /\ \A p \in Procs : pc[p] = "migrating" <=> lock = p
  /\ tokens \in 0..MaxToken
  /\ valid \in [Names -> 0..tokens]
  /\ faults \in 0..MaxFaults

(***************************************************************************)
(* The migrations                                                          *)
(***************************************************************************)
\* INSERT ... ON CONFLICT(name), row after row: a name keeps the token of its
\* last row, and of all its rows the latest last_seen.  Which rowid it has then
\* makes no difference.
Merged(rows) ==
  [i \in {i \in DOMAIN rows : \A j \in RowsOf(rows, rows[i].name) : j <= i} |->
     [rows[i] EXCEPT !.seen = Max({rows[j].seen : j \in RowsOf(rows, rows[i].name)})]]

MigrateV1ToV2(s) ==
  [s EXCEPT !.agents = {"ms", "token"}, !.messages = {"ms"}, !.rows = Merged(@)]

MigrateV2ToV3(s) == [s EXCEPT !.messages = @ \cup {"lifecycle"}]
MigrateV3ToV4(s) == [s EXCEPT !.messages = @ \cup {"headline"}]
MigrateV4ToV5(s) == [s EXCEPT !.agents = @ \cup {"status"}]
MigrateV5ToV6(s) == [s EXCEPT !.agents = @ \cup {"session"}]

\* Mutant of MigrateV6ToV7: the token goes into the new column as it is.
MigrateV6ToV7Unhashed(s) ==
  IF "hash" \in s.agents THEN s
  ELSE [s EXCEPT !.agents = {"ms", "status", "session", "hash"}]

MigrateV6ToV7(s) ==
  IF "hash" \in s.agents THEN s
  ELSE [s EXCEPT !.agents = {"ms", "status", "session", "hash"},
                 !.rows = [i \in DOMAIN @ |-> [@[i] EXCEPT !.hashed = TRUE]]]

MigrateV7ToV8(s) == [s EXCEPT !.messages = @ \cup {"auth"}]

MigrateV8ToV9(s) ==
  [s EXCEPT !.agents = @ \cup {"wake"}, !.messages = @ \cup {"withdraw"}, !.claims = TRUE]

ToV8(s) ==
  LET v2 == IF "iso" \in s.agents THEN MigrateV1ToV2(s) ELSE s
  IN  MigrateV7ToV8(MigrateV6ToV7(MigrateV5ToV6(MigrateV4ToV5(
        MigrateV3ToV4(MigrateV2ToV3(v2))))))

\* CREATE TABLE IF NOT EXISTS leaves a messages table that is there alone.
CreateCurrentSchema(s) ==
  [s EXCEPT !.agents = CurrentAgents, !.claims = TRUE,
            !.messages = IF @ = {} THEN CurrentMessages ELSE @]

ApplyMigrations(s) ==
  IF s.agents = {} THEN CreateCurrentSchema(s) ELSE MigrateV8ToV9(ToV8(s))

\* Some statement names a table or a column that is missing: an index or the
\* copy of the messages, an ALTER TABLE of none, the copy of the tokens.
Raises(s) ==
  IF s.agents = {} THEN s.messages # {} /\ "ms" \notin s.messages
  ELSE \/ s.messages = {}
       \/ ~(IF "iso" \in s.agents THEN "iso" \in s.messages ELSE "ms" \in s.messages)
       \/ {"token", "hash"} \cap s.agents = {}

\* Mutants of Stamped: the minimum reader is the schema's own version; the
\* version migrated to is not recorded.
StampedForItself(s) == [s EXCEPT !.meta = SCHEMA_VERSION, !.reader = SCHEMA_VERSION]
StampedReaderOnly(s) == [s EXCEPT !.reader = MIN_READER_VERSION]

Stamped(s) == [s EXCEPT !.meta = SCHEMA_VERSION, !.reader = MIN_READER_VERSION]

(***************************************************************************)
(* init_schema                                                             *)
(***************************************************************************)
\* Mutant of IsCurrent: user_version alone decides.
IsCurrentByReader(s) == s.reader >= MIN_READER_VERSION

\* _schema_is_current, of a store that is not too new.
IsCurrent(s) == s.meta >= SCHEMA_VERSION /\ s.reader >= MIN_READER_VERSION

\* The check without the lock.
Open(p) ==
  /\ pc[p] = "idle" /\ ~TooNew(store)
  /\ pc' = [pc EXCEPT ![p] = IF IsCurrent(store) THEN "ready" ELSE "waiting"]
  /\ UNCHANGED <<store, lock, tokens, valid, faults>>

\* DLBError: the call ends and nothing has changed.
OpenRefused(p) ==
  /\ pc[p] = "idle" /\ TooNew(store)
  /\ UNCHANGED vars

\* Mutant of LockWon: the check is not repeated under the lock.
LockWonUnchecked(p) ==
  /\ pc[p] = "waiting" /\ lock = Nobody
  /\ lock' = p
  /\ pc' = [pc EXCEPT ![p] = "migrating"]
  /\ UNCHANGED <<store, tokens, valid, faults>>

\* BEGIN IMMEDIATE, then the check again: the store still needs migrating;
\* somebody has done it; somebody has done more.
LockWon(p) ==
  /\ pc[p] = "waiting" /\ lock = Nobody
  /\ ~TooNew(store) /\ ~IsCurrent(store)
  /\ lock' = p
  /\ pc' = [pc EXCEPT ![p] = "migrating"]
  /\ UNCHANGED <<store, tokens, valid, faults>>

LockLate(p) ==
  /\ pc[p] = "waiting" /\ lock = Nobody
  /\ TooNew(store) \/ IsCurrent(store)
  /\ pc' = [pc EXCEPT ![p] = IF TooNew(store) THEN "idle" ELSE "ready"]
  /\ UNCHANGED <<store, lock, tokens, valid, faults>>

\* The busy timeout runs out.
Busy(p) ==
  /\ pc[p] = "waiting" /\ lock # Nobody
  /\ pc' = [pc EXCEPT ![p] = "idle"]
  /\ UNCHANGED <<store, lock, tokens, valid, faults>>

Migrate(p) ==
  /\ pc[p] = "migrating" /\ ~Raises(store)
  /\ store' = Stamped(ApplyMigrations(store))
  /\ lock' = Nobody
  /\ pc' = [pc EXCEPT ![p] = "ready"]
  /\ UNCHANGED <<tokens, valid, faults>>

\* A statement fails, for what the store is or for some other reason.
Rollback(p) ==
  /\ pc[p] = "migrating"
  /\ IF Raises(store) THEN UNCHANGED faults
                      ELSE faults < MaxFaults /\ faults' = faults + 1
  /\ lock' = Nobody
  /\ pc' = [pc EXCEPT ![p] = "idle"]
  /\ UNCHANGED <<store, tokens, valid>>

\* Mutant of Crash: a transaction that fails is left open.
CrashLeavesOpen(p) ==
  /\ pc[p] # "idle"
  /\ faults < MaxFaults /\ faults' = faults + 1
  /\ pc' = [pc EXCEPT ![p] = "idle"]
  /\ UNCHANGED <<store, lock, tokens, valid>>

\* The process dies, or its connection fails: an open transaction is undone.
Crash(p) ==
  /\ pc[p] # "idle"
  /\ faults < MaxFaults /\ faults' = faults + 1
  /\ lock' = IF lock = p THEN Nobody ELSE lock
  /\ pc' = [pc EXCEPT ![p] = "idle"]
  /\ UNCHANGED <<store, tokens, valid>>

(***************************************************************************)
(* The operation the store was opened for                                  *)
(***************************************************************************)
\* A registration or a rotation stores the hash of a new token.
NewToken(n) ==
  LET r == [name |-> n, seen |-> 0, token |-> tokens + 1, hashed |-> TRUE]
      own == RowsOf(store.rows, n)
      ids == IF own = {} THEN {Max(DOMAIN store.rows \cup {0}) + 1} ELSE own
  IN  /\ lock = Nobody
      /\ tokens < MaxToken /\ tokens' = tokens + 1
      /\ valid' = [valid EXCEPT ![n] = tokens + 1]
      /\ store' = [store EXCEPT !.rows =
                     [i \in DOMAIN @ \cup ids |-> IF i \in ids THEN r ELSE @[i]]]
      /\ UNCHANGED <<lock, faults>>

Call(p, n) ==
  /\ pc[p] = "ready" /\ Usable(store)
  /\ NewToken(n)
  /\ pc' = [pc EXCEPT ![p] = "idle"]

\* A call that stores no token, or meets a column it does not know.
CallWithoutToken(p) ==
  /\ pc[p] = "ready"
  /\ pc' = [pc EXCEPT ![p] = "idle"]
  /\ UNCHANGED <<store, lock, tokens, valid, faults>>

(***************************************************************************)
(* Builds of other versions                                                *)
(***************************************************************************)
\* The v8 build refuses a store only for a user_version above its own, and
\* brings a store below it to v8.
OldAdmits(s) == s.reader <= 8

OldMigrate ==
  /\ OtherBuilds
  /\ lock = Nobody /\ store.reader < 8 /\ ~Raises(store)
  /\ store' = [IF store.agents = {}
               THEN [store EXCEPT !.agents = CurrentAgents \ {"wake"},
                                  !.messages = CurrentMessages \ {"withdraw"}]
               ELSE ToV8(store) EXCEPT !.reader = 8]
  /\ UNCHANGED <<lock, pc, tokens, valid, faults>>

OldCall(n) ==
  /\ OtherBuilds
  /\ store.reader = 8
  /\ NewToken(n)
  /\ UNCHANGED pc

\* A later build migrates the store: columns are only added, or one that
\* this build needs is gone and the minimum reader says so.
Later(s, keep, reader) ==
  [ApplyMigrations(s) EXCEPT !.agents = (@ \cap keep) \cup {"later"},
                             !.meta = SCHEMA_VERSION + 1, !.reader = reader]

LaterBuild ==
  /\ OtherBuilds
  /\ lock = Nobody /\ store.meta <= SCHEMA_VERSION /\ ~TooNew(store) /\ ~Raises(store)
  /\ \/ store' = Later(store, AgentGroups, MIN_READER_VERSION)
     \/ store' = Later(store, AgentGroups \ {"hash"}, SCHEMA_VERSION + 1)
  /\ UNCHANGED <<lock, pc, tokens, valid, faults>>

\* The token of a name's most recently seen row: the one its holder has.
LastSeen(rows, n) ==
  {i \in RowsOf(rows, n) : \A j \in RowsOf(rows, n) : rows[j].seen <= rows[i].seen}

Init ==
  /\ store \in Starts
  /\ lock = Nobody
  /\ pc = [p \in Procs |-> "idle"]
  /\ tokens = Max({store.rows[i].token : i \in DOMAIN store.rows} \cup {0})
  /\ valid = [n \in Names |-> Max({store.rows[i].token : i \in LastSeen(store.rows, n)} \cup {0})]
  /\ faults = 0

Next ==
  \/ \E p \in Procs :
       \/ Open(p) \/ OpenRefused(p) \/ LockWon(p) \/ LockLate(p) \/ Busy(p)
       \/ Migrate(p) \/ Rollback(p) \/ Crash(p) \/ CallWithoutToken(p)
       \/ \E n \in Names : Call(p, n)
  \/ OldMigrate \/ LaterBuild
  \/ \E n \in Names : OldCall(n)

Spec == Init /\ [][Next]_vars

\* A wait for the lock ends, with it or with the timeout, and so does a
\* transaction.  Nobody is obliged to open the store.
FairSpec ==
  /\ Spec
  /\ \A p \in Procs :
       /\ WF_vars(LockWon(p) \/ LockLate(p) \/ Busy(p))
       /\ WF_vars(Migrate(p) \/ Rollback(p))

(***************************************************************************)
(* Properties                                                              *)
(***************************************************************************)
\* An operation never meets a column or table that is missing: whatever
\* process of whatever build has migrated the store, and however many at
\* once, between an open and the operation it is for, only a later build
\* that raises the minimum reader can take a column away.
OperationsFit ==
  \A p \in Procs : pc[p] = "ready" => Usable(store) \/ TooNew(store)

\* Of the duplicates in a corrupted v1 table the latest seen comes last.
LatestLast(starts) ==
  \A s \in starts : "iso" \in s.agents =>
    \A i, j \in DOMAIN s.rows :
      s.rows[i].name = s.rows[j].name /\ i < j => s.rows[i].seen < s.rows[j].seen

\* Nobody loses a name to an upgrade: through every rebuild of agents, the
\* name has one row, with the token its holder was given last, in the form
\* that the table's column asks for.  _migrate_v1_to_v2: of a corrupted v1
\* table's duplicates "ON CONFLICT keeps the most recently-seen row", which
\* is so if LatestLast.
CredentialsKept ==
  "iso" \notin store.agents /\ ~TooNew(store) =>
    \A n \in Names :
      LET own == RowsOf(store.rows, n)
      IN  IF valid[n] = 0 THEN own = {}
          ELSE \E i \in own :
                 /\ own = {i} /\ store.rows[i].token = valid[n]
                 /\ store.rows[i].hashed = ("hash" \in store.agents)

\* What a later build has stamped, a process of this build that was already
\* waiting for the lock does not migrate back.
NoDowngrade ==
  [][store.meta > SCHEMA_VERSION => store'.meta >= store.meta /\ store'.reader >= store.reader]_vars

\* init_schema: "a v8 build (0.6.x) can keep reading and writing this store
\* during a rolling upgrade".  Who was admitted is shut out by a later build
\* only.
NoLockout ==
  [][OldAdmits(store) => OldAdmits(store') \/ TooNew(store')]_vars

\* The store settles: from every start, after finitely many crashes, no open
\* has to migrate again, although builds of two versions keep opening it.
Settles == <>[](\A p \in Procs : pc[p] # "waiting")
=============================================================================
