# A TLA+ development for dlb-mcp

dlb-mcp is a dead-letter-box for coding agents. Agents register a name, leave each other messages,
claim shared resources and recover their identity after a compaction or a crash. Every agent has its
own MCP server process; all processes of a machine share one SQLite file in WAL mode, and nothing
else coordinates them. This directory holds TLA+ modules of the parts that carry the program's own
logic, TLC configurations that check them on small instances, and TLAPS proofs about all seven of
them.

Paths below are relative to `src/src/dlb_mcp/`.

## 1. Inventory

| Component | Code | State | Operations | Module |
|---|---|---|---|---|
| Message store | `store.py` | table `messages`, `agents.receipts_opt_out` | send, cancel_task, update_status, read, ack, list_threads, set_receipts, register, unregister, TTL purge, inbox cap | `Mailbox` |
| Claims | `store.py` | table `claims` | claim, release, list_claims, register, unregister | `Claims`, `Lease` |
| Identity and recovery | `store.py`, `server.py` | row in `agents` (token hash, secret hash, session, last_seen), reclaim sidecar file, `_owned_tokens` of each process | register, recover_token, rotate_token, unregister, set_status | `Identity` |
| Heartbeat | `store.py`, `monitor.py` | `agents.monitor_heartbeat_ms`, beater thread, main thread | record_monitor_heartbeat, clear_monitor_heartbeat, run's shutdown | `Heartbeat` |
| Poll loop | `monitor.py` | `seen_max_id`, the batch being printed | _baseline_max_id, _fetch_new, _poll_iteration, run | `Poller` |
| Prompt hook | `inbox_hook.py` | none | unread_counts, unmonitored_names | `Mailbox!HookCounted`, `Heartbeat!Unmonitored` |
| Session-start hook | `recover_hook.py` | none | tells a session where its sidecars are | `Identity!ReadSidecar` |
| MCP tool layer | `server.py` | `_owned_tokens` | wraps the store; send's delivery assessment | partly, `Identity`, `Poller!Assess` |
| Schema and migrations | `store.py` | `user_version`, `dlb_meta`, the tables' columns, tokens or their hashes | init_schema, migrations v1 to v9, builds of other versions | `Schema` |
| Setup | `setup.py` | `~/.claude/settings.json`, its `.dlb-bak` | wire_session_hook | `Setup` |
| Validation, version lookup, entry point, bootstrap, demo | various | none that is shared | | not modelled |

How they interact. Every store operation that writes is one `BEGIN IMMEDIATE` transaction, with two
exceptions that matter. `send` and `update_status` sample the clock before they ask for the write
lock. `record_monitor_heartbeat` and `clear_monitor_heartbeat` are two autocommit statements. The
server adds its own steps outside a transaction: the sidecar write, the process's token cache, and the two
transactions of `recover_token`. The monitor and the hooks open the same file and take no lock
at all. The parts meet in the table `agents`: registering resets the heartbeat and the opt-out, takes
over the name's claims and its inbox, and invalidates every credential; unregistering deletes the
name's claims. Every operation first opens the store through `init_schema`, on a connection of its
own: a build that finds an older store migrates it under everybody else. `setup` shares nothing with
the rest but the hooks it wires.

What is hard, and what makes each part correct:

* **Message store.** Clocks sampled before a lock; a cap that three writers enforce and that may drop
  a stop notice or a replacement; withdrawals racing with reads, status updates and supersedes; four
  tests of a deadline and three of a TTL. It is correct if no mail is lost early, a withdrawal is
  final and reaches whoever was shown the work, receipts tell the truth, and all counts agree.
* **Claims.** Races at the millisecond of expiry, crashed holders, takeovers that keep the claims. It
  is correct if nobody believes what the table does not back and it behaves as a lease.
* **Identity.** Several processes take a name over at once with a token, a secret or a stale gate;
  crashes between commit, file and reply. It is correct if the valid token has one holder, a secret
  wins once, and nobody is evicted around the gate.
* **Heartbeat.** Check-then-write in autocommit, two monitors on one column, kills, late beats. It is
  correct if "wakeable" means that somebody watches, within the wake window.
* **Schema.** Processes of several builds open one old store at once; a check is repeated under a
  lock and stale again before the operation; tables are rebuilt and credentials change their form;
  errors and crashes in between. It is correct if an operation finds its columns, every name keeps
  its token, no build is shut out or undone by this one, and the migrating ends.
* **Setup.** A file read, backed up and rewritten in place without a lock. It is correct if hooks are
  wired once and what the user had is in the file or in the backup.
* **Poll loop.** A watermark over a table that changes between any two steps, and errors in the
  middle of a batch. It is correct if no mail is skipped.

`PROJECT.json` lists each hazard at its line, with the property that catches it or the reason none does.

## 2. Modules and how they correspond to the code

**`Mailbox`**. `mail` is the table, a function from stored ids to rows; `nextId` is AUTOINCREMENT;
`call[c]` is a client's call that has sampled the clock. One action per operation: `BeginSend` and
`CommitPlainSend` / `CommitSupersede` / `AbortSend`, `CancelTask`, `BeginStatus` and `CommitStatus` /
`RejectStatus`, `ReadOwned` (purge, select, mark, receipts, cap), `ReadPeek` (an inbox nobody has
registered), `Ack`, `ListThreads` (its purge), `Register`, `Unregister`, `SetReceipts`, `Tick`. The
purge and the trim are part of each action whose code calls them. `engaged` is a history variable:
the ids that a recipient was shown as live work or put a status on. Bodies, subjects and headlines
are left out. A token is abstracted to the flag `auth` and the name it stands for; who has a valid
token is `Identity`'s subject.

**`Claims`**. `claims[k]` is the row, with the time left instead of `expires_at_ms` (an expired row
stays, with nothing left, as in the code). `belief[n][k]` is how long the session now registered as
`n` may think it holds `k`, from the reply to its last claim. `Crash` is a session that ends without
unregistering; `Register` of a registered name is a takeover, which keeps the rows. `earlier[n][k]` is
history: what is left of the time that a crashed or replaced session of `n` was told, until a session of
`n` itself gives the key up or claims it anew. **`Lease`** is the
abstract promise: a free key may be granted, an owner may renew or give up, time lapses leases.
`Claims!LeaseSpec` maps a live row to a lease and an expired or absent one to a free key.

**`Identity`** is about one name, because names share nothing there. Every registration or rotation
mints one token and one secret, known by their number. A call is a sequence of steps with the
database step first: `Register` / `TakeOver` / `Reclaim` / `Rotate`, then `WriteSidecar`, then
`Return` (process cache and agent's context). `recover_token` is `RecoverOwned`, or `RecoverCheck` followed
by `Rotate` or `RotateNothing` (the name is gone, `rotate_token` returns False and the result is
ignored). `Compact` empties the agent's context, `Crash` the server process.

**`Heartbeat`** is about one name and its monitors. `hb` is the column, with history of who wrote it
under which registration. A beat is `BeatAuth` then `BeatWrite`; an exit is `Stop`, `Joined`,
`ClearAuth`, `Erase`, `Leave`; `JoinTimedOut` is a join that gives up on a beat after five seconds,
so that the beat may be written after the clear. `credential[m]` stands for what a monitor
authenticates with. `Wakeable` is the server's reading of the column, `Unmonitored` the prompt hook's.

**`Poller`** is about one monitor and one inbox. `Fetch` takes a batch (an increasing sequence of what
is live above the watermark), `Emit` prints a line, and the watermark returns only with the whole batch;
`Fault` is an error inside a batch; `Exit` clears the heartbeat, `Kill` leaves it. `Assess` is the
second half of the tool `send`, which reads the heartbeat after the commit and tells the sender; one
sender is in view. A failed fetch returns no rows and changes nothing, so it has no action.

**`Schema`**. `store` is the committed database: a table is the set of its column groups (a group is
what one version added), with the rows of `agents` and both version numbers, `meta`
(`dlb_meta.schema_version`) and `reader` (`user_version`). The rows are a function from rowids, since
a v1 table may have a name twice. `Merged` says what the v1 copy leaves of them; `MCSchema` holds the
copy itself, one INSERT after the other (`InsertOrMerge`), and TLC compares the two on every v1 table of up to
four rows (`MergedIsTheCopy`). `Open` is the check without the lock,
`LockWon` / `LockLate` / `Busy` the end of the wait for it, `Migrate` the whole transaction: while it
holds the write lock nobody else writes and nobody sees its work. `Rollback` and `Crash` end it
without effect. `Call` and `CallWithoutToken` are the operation a process opened the store for.
`OldMigrate`, `OldCall` and `LaterBuild` are builds of other versions, modelled from what this code says
of them: a v8 build that refuses a higher `user_version`, and a later build that either adds columns or
drops one and raises the minimum reader. `MCSchema` holds the stores each version has left.

**`Setup`**. `file` and `backup` are absent, cut short, or settings; a run is `ReadSettings`, then
`CopyBegin`, `CopyEnd`, `WriteBegin`, `WriteEnd`, because a file being written is first cut to
nothing, and `Die` may come between any two. `Refuse` is a run that finds nothing to do or no JSON object.
A wired hook is abstracted to the form `_has_command` recognises it in. `Edit` and `Restore` are
the user and other tools. `owned` and `mixed` are history: what was ever put into the file,
and whether a run had to share it.

`MCMailbox`, `MCClaims`, `MCIdentity`, `MCPoller`, `MCHeartbeat`, `MCSchema` and `MCSetup` give the
constants their values; `MailboxProofs`, `ClaimsProofs`, `IdentityProofs`, `HeartbeatProofs`,
`PollerProofs`, `SchemaProofs` and `SetupProofs` hold the proofs, and `Extremes` what several of them need of the
least and greatest elements of sets of numbers. The definitions called
"Mutant of ..." are plausible bugs. None is used by a specification; each shows that a property of a
run fails when the definition next to it is replaced.

## 3. What the runs check

| Run | Bounds | Properties |
|---|---|---|
| `mailbox_life` | one sender, one recipient, 2 clients, 3 ids, TTL 1, cap 2 | InboxBounded, StopNotice, SupersedeLink, NoEarlyLoss, WithdrawnIsFinal |
| `mailbox_rules` | mail with and without a token, both values of the opt-out, 2 kinds of read, deadline of 1, TTL 2, clock to 2, 2 ids | TypeOK, ReceiptTruthful, StatusInTime, UnreadCountsAgree, ReadOnce |
| `claims` | 3 names, 2 keys, durations 1 and 2 | TypeOK, Exclusive, BeliefBacked, HoldersRegistered, NameKeepsClaims, LeaseSpec, CrashedClaimLapses |
| `identity` | 2 processes, takeover window 2, 3 credential pairs, crashes and disk failures | TypeOK, AtMostOneHolder, SecretSingleUse, EvictionGated, OrphanLapses |
| `poller` | 3 ids, one of them filtered, 2 errors | TypeOK, ArrivalOrder, NothingSkipped, ToldMailWakes |
| `heartbeat` | 2 monitors, window 3, interval 2, lateness 1, 2 owners | TypeOK, HealthyWakeable, ExitClears, UnwatchedLapses |
| `schema` | 2 processes, 2 names, 13 starts (no store, each version, stale stamps, duplicate rows), a v8 and a later build, 2 errors or crashes, 4 tokens | TypeOK, OperationsFit, CredentialsKept, NoDowngrade, NoLockout, Settles |
| `setup` | 2 runs at a time and as many as one likes in turn, 2 hooks, 2 entries | TypeOK, WiredOnce, Recoverable |

Why the bounds are enough. In `Mailbox` three ids with a cap of two give a message, its replacement and
its stop notice, or a message, an unread follower and a receipt, with one row too many for the cap; two
clients give every order of sample and commit; a clock that moves once passes the TTL between them.
`mailbox_rules` needs the deadline to fall before the TTL, so its clock goes to 2; its two ids are a
message and its receipt, or a message and its replacement, and the cap is left to `mailbox_life`. `Claims` keeps
time left rather than a clock and needs no bound: its state space is finite, and three names give a
holder, a rival and a bystander. In `Identity` three pairs give an owner, the usurper and the next
usurper (or the owner's return), and both processes may use every way in. Both run in one session,
which permits more than two sessions would (recover_token refuses another session's name). In
`Heartbeat` interval plus lateness equals the window, the tightest case the assumption admits, and two
owners give one takeover with a monitor on each side of it. In `Poller` three ids give a batch of
three, or a batch and a late arrival, and two errors give an error on the retry of an error. In `Schema` one process may migrate while the other
waits, and what the other builds do may fall between any two of their steps; two faults give a crash and
an error in one migration's retries. In `Setup` both hooks and both entries are interchangeable, so two
of each show one that is there beside one that is not; `mixed` distinguishes the overlaps.

### Disagreements between code and text

Four runs look for a violation and find one. Each checks one sentence of the code.

* `identity_sidecar_race`: the file is said to hold "the current RECLAIM SECRET" (`store.py:271-272`);
  it is written after the transaction, so two takeovers may write it in the opposite order and leave a
  dead secret.
* `identity_live_evicted`: "a live holder (recent last_seen) is never evictable this way"
  (`server.py:282-283`); the check and the rotation are two transactions, and the holder may come back
  in between.
* `heartbeat_foreign_beat`: a heartbeat "must come from the session that owns the name"
  (`store.py:2135-2136`); the UPDATE of a beat authorized before a takeover checks only the name.
* `heartbeat_others_cleared`: an exit is to drop "this monitor's heartbeat" (`monitor.py:200`); it
  empties the column whoever wrote it, and a second, healthy monitor's name reads as unwatched until
  its next beat.

Smaller ones met while reading, with no run:

* "ON CONFLICT keeps the most recently-seen row" (`store.py:826-827`): of two v1 rows of one name the
  row read last gives the token, and `last_seen` is the greater of both. If the newer row comes first,
  its token is gone. The proof of `CredentialsKept` led here: it goes through only from `LatestLast`,
  which `MCStarts` satisfies, so the run has no such start. What becomes of two rows with the newer first
  TLC evaluates as an assumption of `MCSchema` (`NewestFirstLosesItsToken`).
* "Every exit clears this monitor's heartbeat" (`monitor.py:304-305`): a beat that outlasts the join
  is written after the clear. `ExitClears` states what is left of the sentence: it excepts the monitors
  in `late`, and fails without that exception.
* "from ANY prior state" (`store.py:511-512`): with `agents` but no `messages`, `init_schema` raises for
  ever; with only the `messages` of v2 it stamps the store as current, and every send then fails. No
  build leaves such a store. `WellFormed` excludes the second kind. It admits the first where the stamps do
  not claim a current schema: the theorems hold there too, but `Settles` would not, and `MCStarts` has none.
* `list_threads` purges and then reads the clock again (`store.py:961`, `store.py:1327`), and its count does
  not look at the TTL: mail that expires in between is counted once more. `UnreadCountsAgree` allows just that.
* `init_schema` is to keep raw "no such column" errors from leaking (`store.py:434-436`); the check and
  the operation are on two connections, and a later build that raises the minimum reader in between
  lets one leak. `OperationsFit` has this exception.
* "Preserve: existing hooks and other keys are untouched" (`setup.py:16`): an edit between a run's
  read and its write is lost from the file, and of two overlapping runs that die both the file and its backup may
  be cut short. `Recoverable` is about runs that were alone.
* The v1 rebuild starts AUTOINCREMENT anew (`store.py:820`), so the ids of deleted messages above the
  highest one copied are handed out again, once.
* A name registered without `DLB_SESSION_ID` is in neither query of a prompt hook that knows its
  session (`inbox_hook.py:87`, `inbox_hook.py:123`).
* The monitor's header says "newest first within a poll tick" (`monitor.py:3-4`); the query is `ORDER BY id ASC`
  and its own docstring says oldest first, which is what `ArrivalOrder` checks.
* An error in the middle of a batch makes the lines before it appear twice, and a message withdrawn
  between fetch and print still gets its line.
* A baseline query that fails is answered with 0 (`monitor.py:130`): the whole inbox is announced.
  `Poller!Start` has this case.
* `recover_token` returns a cached token that may be dead (`server.py:265`).
* `release` names the holder of a claim that has expired (`store.py:2316`).
* A supersede of a read message with a cap of 1 leaves two rows, which is why `InboxBounded` asks for
  a cap above 1.
* `send` assesses delivery after the commit, so the monitor that beats may have begun after the mail,
  which it then never announces. `ToldMailWakes` excepts that mail.

## 4. Fairness

No agent, server or monitor is obliged to call anything.

* `Claims`, `Identity`, `Heartbeat`: WF(Tick). Time passes. In `Heartbeat` a tick waits for a beat
  that is due, so this assumes nothing once the monitors are down; in `Identity` `CallsArePrompt` is
  FALSE in the run with a liveness property.
* `Schema`: WF of the end of a wait for the lock (won, too late, or the busy timeout of five seconds) and of
  the end of a transaction. Nobody is obliged to open the store; a process that never does never waits.
* `Poller`: WF(Fetch) and WF(Emit). The loop of a running monitor sleeps and polls again, and
  catches everything raised inside an iteration. Errors are bounded by `MaxFaults`; an error that recurs
  for ever repeats the same batch for ever, and the property does not hold then.

The liveness properties are therefore about what expires by itself or what a running loop does, and
about nothing that needs a cooperative agent.

## 5. What is proved

The proofs hold for every value of the constants that meets the module's ASSUME, so for any number of names,
clients, ids and any cap, TTL and window.

* **`MailboxProofs`**, part one: `TypeOK`, `SupersedeLink`, `StopNotice`. Neither promise is inductive. A stop
  notice outlives what it stops only because it is newer in id (the cap) and no older in `sent` (the
  TTL), and the second needs to know what a call that has sampled the clock has sampled. Hence `IInv`: `TypeOK`,
  `EngagedIds` (history speaks of ids handed out), `Sampled` (a call that will supersede a message
  sampled the clock no earlier than that message was sent), and `Rows`, which is stated of an
  arbitrary table so that each step of a transaction has one lemma: `KeepRows` (dropping rows),
  `PurgeRows`, `CapRows`, `InsertRow`, `TouchRows`, `WithdrawRows`, `ReceiptRows`. The proof of an
  action chains the lemmas in the order of its code; `NextInv` has one step per action.
* **`MailboxProofs`**, part two: `InboxBounded`, `ReceiptTruthful`, `StatusInTime`, `UnreadCountsAgree`, `NoEarlyLoss`,
  `WithdrawnIsFinal`, `ReadOnce`. They share one description of a step, `Wrote`: an operation makes of the
  table another one (`Written`), in which old rows only continue (`Continues`), the missing ones had
  expired and the new ones have new ids; then the cap trims every inbox that got a row, exempting at
  most the two newest of one (`Trimmed`). `StepWrote` proves it of every action, and each
  property is then a lemma about `Wrote`; the cap's part is counting (`CapBounds`, `CapKeepsNewest`). The
  invariant `Safe` is `IInv` with the three invariants and `StatusSampled`: a status call that has
  sampled the clock names a row no younger than the sample. Without that a status could be recorded before
  its message was sent, and `StatusInTime` would not be inductive. `UnreadCountsAgree` needs no invariant
  beyond `TypeOK`: it is about three queries of one table.
* **`ClaimsProofs`**: `TypeOK`, `BeliefBacked`, `NameKeepsClaims`, `HoldersRegistered`, `Exclusive`, and
  that `Claims` implements `Lease`. `IInv` is the first four: unregistering deletes rows, which would
  take the ground from a belief if rows and registrations were not tied, and what a former session was
  told was the belief of one. `Exclusive` follows from the two invariants on what was told, since a
  row has one holder. `StepRefines` has one case per action, each a grant, a surrender, the passing of
  time or a stutter.
* **`IdentityProofs`**: `TypeOK`, `AtMostOneHolder`, `SecretSingleUse`, `EvictionGated`, with crashes and failing
  disks. `IInv` adds `Known` (nobody knows a credential that was not minted), `Apart` (no token is known to
  two processes, valid or not), `RowKnown` and `SpentKnown`; without them a new token could be one
  that somebody has already.
* **`HeartbeatProofs`**: `TypeOK`, `HealthyWakeable`, `ExitClears`, for every interval, lateness and window that fit
  (`Interval + Delay <= Window`). `Timely` is the heart of it: the age of the column and what is left of
  a fresh monitor's rest are never more than one interval together, whoever wrote the column last.
  `ExitClears` must be carried from the moment of the erase (`ClearedAhead`), and holds then because the
  beater is off (`Threads`) and a heartbeat with the owner's credential is of a monitor that still has that
  credential (`CarriedByWriter`).
* **`PollerProofs`**: `TypeOK`, `NothingSkipped`, `ArrivalOrder`, for any amount of mail, errors and restarts. `Accounted`
  is `NothingSkipped` with the batch in hand: up to its last id, everything is emitted or still in it.
  `Batched` orders what is left of a batch, and `Covered` ties events, batch and baseline to the watermark
  as long as there was no error.
* **`SchemaProofs`**: `OperationsFit`, `NoDowngrade`, `NoLockout`, for every well-formed start. `IInv` has
  `WellFormed` of the store at every moment (a store is what its two stamps say) and `Locked`: who
  migrates is the one holder of the lock and still finds a store that needs it. Without the second, the
  repeated check under the lock is lost on the way to `Migrate`. The lemmas follow `_apply_migrations` step by step.
  Its second part follows the rows: `TypeOK`, and `CredentialsKept` from `LatestLast`. `Tabled` says that `agents` is a
  keyed table in the form its columns ask for, `Credited` that the last row of every name has the
  token given last, which is also true of a v1 table not yet migrated. A step either leaves the rows
  alone, gives a token (`TokenRows`) or is an upgrade by some build, which carries every name's last row
  over (`Carried`, `MigratedRows`).
* **`SetupProofs`**: `TypeOK`, `WiredOnce`, `Recoverable`, for any number of runs, hooks and entries. `WiredOnce` needs only
  that what a run plans wires once as well. `Recoverable` needs `Alone`: by the time a run that shares the file
  with nobody has cut it to write it, its plan has all that was in it (nothing, if it was broken: then
  the backup has it), and the copy it made is complete.
* **`Extremes`**: a set of numbers has a least element, a bounded or finite one a greatest, which is the one
  `Max` chooses.

Where a number is to be chosen (the newest row, the highest id, a name's last row) the proofs use the
well-foundedness of the naturals, a first-order fact, instead of induction.

The named assumptions are on constants only (`ConstantsAssumption`, `ClaimsAssumption`,
`IdentityAssumption`, `HeartbeatAssumption`, `PollerAssumption`, `SchemaAssumption`), and so is
`LatestLast`; TLC evaluates each of them.

Model-checked only: the liveness properties `CrashedClaimLapses`, `OrphanLapses`, `ToldMailWakes`,
`UnwatchedLapses` and `Settles` (liveness under fairness and ENABLED are out of the prover's reach), and
that `Merged` is what the row by row copy computes (`MergedIsTheCopy`), which would need induction over the rows. Every
invariant and action property of a passing run is proved, and so is the refinement of `Lease`.

## 6. Assumptions of the models

* The wall clock does not run backwards. One transaction uses one clock value, except `list_threads`, whose
  purge and count read it separately; the prompt hook's two readings are taken as one.
* Read receipts are switched on for the store; senders choose by `set_receipts`.
* In `Mailbox`, whoever presents a valid token is the name. The id a supersede or a status names has
  been handed out. Callers may put any `msg_type` of `SentTypes` on their mail.
* In `Identity` the takeover window is above zero. `rotate_token` samples the clock before it asks for the
  write lock (`store.py:1276`); `Rotate` dates it at the commit, so a wait for the lock, five seconds at
  most, is neglected against the window. A call that is refused or raises changes nothing. `Act` stands for every
  call that refreshes `last_seen`.
* In `Heartbeat` a monitor of the same session keeps its credential across a re-registration, one with
  another credential does not. A beat is dated when it is written; the UPDATE samples the clock first and
  may wait for the lock (`store.py:2180`), which is part of the lateness `Delay`. `rotate_token` leaves the column alone and is not an action.
* In `Schema` the store is well-formed when the model starts (`WellFormed`): its tables are ones a build
  makes, and its stamps do not claim more than its columns give. A later build's store restored under an older
  `user_version` is excluded; this build would stamp it down. A COMMIT is atomic and durable.
* In `Setup` every wired form is one that `_has_command` recognises: how it parses a command line
  (`setup.py:71-128`) is abstracted, and a form that it missed would not be caught. A written file is cut short or complete, never a mixture. A broken file is replaced by its backup, or
  begun anew if the backup is broken too; who edits the file adds and does not take away.
* In `Poller` the heartbeat is one flag, whose details are `Heartbeat`'s.

Not modelled: bodies, headlines, rendering and clipping; validation, which refuses a call before the
database is touched; the version lookup (its effect is one of the reasons of `Poller!Exit`); the entry point, bootstrap
script and demo.

## 7. Plan

Done, in this order: `Mailbox`, `Claims` with `Lease`, `Identity`, `Poller`, `Heartbeat`, and the proofs about
the first three; then `Schema` with its proofs, and `Setup`; then the proofs of every safety property that the
runs check.

Next:

1. Proofs: what bounds a liveness property as a safety one, where there is such a bound: the prompt hook's and
   the server's reading of the heartbeat of a name nobody watches.
2. A composition of `Identity`, `Heartbeat` and `Claims` over one `agents` row: what a takeover hands
   to its successor.
3. `Mailbox` with two senders and a recipient that sends, for receipts against the cap of a busy inbox.
