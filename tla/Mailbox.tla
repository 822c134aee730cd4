------------------------------ MODULE Mailbox ------------------------------
(***************************************************************************)
(* The message table of the store and every operation that writes it:      *)
(* send (with supersedes and a deadline), cancel_task, update_status, read *)
(* (with its receipts), ack, the TTL purge and the inbox cap.              *)
(*                                                                         *)
(* Each operation is one BEGIN IMMEDIATE transaction, so it is one atomic  *)
(* action, except that send and update_status read the clock BEFORE they   *)
(* ask for the write lock: they are a Begin step, which samples the time,  *)
(* and a Commit step, which uses the sample.  Other clients and the clock  *)
(* may move between the two.                                               *)
(*                                                                         *)
(* A caller that presents a valid token is the name the token stands for;  *)
(* which tokens are valid is the subject of module Identity.  Bodies,      *)
(* subjects and headlines carry no control and are left out.               *)
(***************************************************************************)
EXTENDS Integers, FiniteSets, Functions

CONSTANTS
  Names,      \* names that send and receive mail, registered or not
  Clients,    \* server processes, each running one sampled call at a time
  Routes,     \* who writes to whom: [from, to, auth], auth = with a token
  SentTypes,  \* the msg_type values callers put on the mail they send
  Deadlines,  \* the values of expires_in_seconds callers use
  ReadCalls,  \* the combinations of read()'s filters callers use
  Settings,   \* the values callers give set_receipts
  TTL,        \* ttl_days()
  Cap,        \* max_inbox_messages(); 0 disables the cap
  MaxId,      \* bound on message ids
  MaxClock    \* bound on the clock

NoTime == -1            \* NULL in a ..._ms column
NoId == 0               \* NULL in a message-id column (ids start at 1)
MsgTypes == {"task", "note", "cancel", "receipt"}
SystemTypes == {"cancel", "receipt"}

\* Without a token the sender is free text: it may be another's name.
Route == [from : Names, to : Names, auth : BOOLEAN]

ReadCall == [unreadOnly : BOOLEAN, inactive : BOOLEAN, oldest : BOOLEAN,
             exclude : SUBSET MsgTypes, limit : Nat \ {0}]

ASSUME ConstantsAssumption ==
  /\ Routes \subseteq Route
  /\ SentTypes \subseteq MsgTypes
  /\ Deadlines \subseteq Nat \ {0}
  /\ ReadCalls \subseteq ReadCall
  /\ Settings \subseteq BOOLEAN
  /\ TTL \in Nat /\ Cap \in Nat /\ MaxId \in Nat /\ MaxClock \in Nat

VARIABLES
  mail,        \* the messages table: stored id -> row
  nextId,      \* the next AUTOINCREMENT id; ids are never reused
  registered,  \* names with a row in agents
  optOut,      \* names with receipts_opt_out = 1
  clock,       \* wall clock, in ms
  call,        \* per client: the call that has sampled the clock, or Idle
  engaged      \* history: ids that read showed their registered recipient
               \* as live work, or that the recipient put a status on

vars == <<mail, nextId, registered, optOut, clock, call, engaged>>

Ids == Nat \ {0}
Times == Nat \cup {NoTime}
Message == [to : Names, from : Names, auth : BOOLEAN, kind : MsgTypes,
            sent : Nat, deadline : Times, about : Nat, read : Times,
            cancelled : Times, supersededBy : Nat, statusAt : Times]

Idle == [op |-> "idle"]
SendCall == [op : {"send"}, to : Names, from : Names, auth : BOOLEAN,
             kind : SentTypes, deadline : Times, supersedes : Nat, now : Nat]
StatusCall == [op : {"status"}, id : Ids, by : Names, now : Nat]

TypeOK ==
  /\ nextId \in Ids
  /\ DOMAIN mail \subseteq 1..(nextId - 1)
  /\ mail \in [DOMAIN mail -> Message]
  /\ registered \subseteq Names
  /\ optOut \subseteq registered
  /\ clock \in Nat
  /\ call \in [Clients -> {Idle} \cup SendCall \cup StatusCall]
  /\ engaged \subseteq Ids

(***************************************************************************)
(* Rows and inboxes                                                        *)
(***************************************************************************)
Expired(m) == m.sent + TTL <= clock

\* _ACTIVE_SQL: neither withdrawn nor past its deadline.
Active(m) ==
  /\ m.cancelled = NoTime
  /\ m.deadline = NoTime \/ m.deadline > clock

Inbox(box, n) == {i \in DOMAIN box : box[i].to = n}

Insert(box, i, m) == [j \in DOMAIN box \cup {i} |-> IF j = i THEN m ELSE box[j]]

\* Mutant of Purged: withdrawn rows are kept for the record.
PurgedKeepsWithdrawn(box, names) ==
  Restrict(box, {i \in DOMAIN box : ~(/\ box[i].to \in names /\ Expired(box[i])
                                     /\ box[i].cancelled = NoTime)})

\* _purge_expired over the inboxes of `names`.
Purged(box, names) ==
  Restrict(box, {i \in DOMAIN box : ~(box[i].to \in names /\ Expired(box[i]))})

\* Mutant of Newer: the trim counts the rows of every inbox.
NewerAnywhere(box, i) == {j \in DOMAIN box : j > i}

Newer(box, i) == {j \in Inbox(box, box[i].to) : j > i}

\* Mutant of Capped: one row too many survives.
CappedLate(box, names, exempt) ==
  Restrict(box, {i \in DOMAIN box :
                   \/ box[i].to \notin names \/ i \in exempt
                   \/ Cap = 0 \/ Cardinality(Newer(box, i)) <= Cap})

\* _enforce_inbox_cap on the inboxes of `names`: the Cap newest ids survive,
\* and so does every exempt id.
Capped(box, names, exempt) ==
  Restrict(box, {i \in DOMAIN box :
                   \/ box[i].to \notin names \/ i \in exempt
                   \/ Cap = 0 \/ Cardinality(Newer(box, i)) < Cap})

(***************************************************************************)
(* Withdrawing                                                             *)
(***************************************************************************)
\* Mutant of Withdrawable: system notices can be withdrawn too.
WithdrawableAny(i, caller) ==
  i \in DOMAIN mail /\ mail[i].auth /\ mail[i].from = caller

\* _load_withdrawable: stored, not a system notice, and sent with `caller`'s
\* token.
Withdrawable(i, caller) ==
  /\ i \in DOMAIN mail
  /\ mail[i].kind \notin SystemTypes
  /\ mail[i].auth /\ mail[i].from = caller

\* The msg_type='cancel' row _withdraw inserts.
CancelNotice(old, i, now) ==
  [to |-> old.to, from |-> old.from, auth |-> TRUE, kind |-> "cancel",
   sent |-> now, deadline |-> NoTime, about |-> i, read |-> NoTime,
   cancelled |-> NoTime, supersededBy |-> NoId, statusAt |-> NoTime]

MarkWithdrawn(box, i, by, now) ==
  [box EXCEPT ![i] = [@ EXCEPT !.cancelled = now, !.supersededBy = by]]

\* _withdraw: mark the row and, if its recipient had read it, drop a notice
\* with id `noticeId`.
Withdraw(box, i, by, now, noticeId) ==
  LET marked == MarkWithdrawn(box, i, by, now)
  IN  IF box[i].read = NoTime THEN marked
      ELSE Insert(marked, noticeId, CancelNotice(box[i], i, now))

(***************************************************************************)
(* send                                                                    *)
(***************************************************************************)
\* The validations that need no database, and the clock sample.  A caller
\* can only name a message to supersede once its id has been handed out.
BeginSend(c) ==
  /\ call[c] = Idle
  /\ nextId <= MaxId
  /\ \E route \in Routes, kind \in SentTypes,
        within \in Deadlines \cup {NoTime}, old \in 0..(nextId - 1) :
       /\ old # NoId => route.auth
       /\ within <= TTL
       /\ call' = [call EXCEPT ![c] =
            [op |-> "send", to |-> route.to, from |-> route.from,
             auth |-> route.auth, kind |-> kind, supersedes |-> old, now |-> clock,
             deadline |-> IF within = NoTime THEN NoTime ELSE clock + within]]
  /\ UNCHANGED <<mail, nextId, registered, optOut, clock, engaged>>

SentRow(k) ==
  [to |-> k.to, from |-> k.from, auth |-> k.auth, kind |-> k.kind,
   sent |-> k.now, deadline |-> k.deadline, about |-> NoId, read |-> NoTime,
   cancelled |-> NoTime, supersededBy |-> NoId, statusAt |-> NoTime]

\* The checks send makes on the message it replaces.
Replaceable(k) ==
  /\ Withdrawable(k.supersedes, k.from)
  /\ mail[k.supersedes].cancelled = NoTime
  /\ mail[k.supersedes].to = k.to

CommitPlainSend(c) ==
  LET k == call[c] IN
  /\ k.op = "send" /\ k.supersedes = NoId
  /\ k.auth => k.from \in registered
  /\ nextId <= MaxId
  /\ mail' = Capped(Insert(mail, nextId, SentRow(k)), {k.to}, {nextId})
  /\ nextId' = nextId + 1
  /\ call' = [call EXCEPT ![c] = Idle]
  /\ UNCHANGED <<registered, optOut, clock, engaged>>

CommitSupersede(c) ==
  LET k == call[c]
      last == IF mail[k.supersedes].read = NoTime THEN nextId ELSE nextId + 1
      box == Withdraw(Insert(mail, nextId, SentRow(k)),
                      k.supersedes, nextId, k.now, nextId + 1)
  IN
  /\ k.op = "send" /\ k.supersedes # NoId
  /\ k.from \in registered
  /\ Replaceable(k)
  /\ last <= MaxId
  /\ mail' = Capped(box, {k.to}, nextId..last)
  /\ nextId' = last + 1
  /\ call' = [call EXCEPT ![c] = Idle]
  /\ UNCHANGED <<registered, optOut, clock, engaged>>

\* The transaction rolls back: the token is no longer valid, or the message
\* to replace is gone, withdrawn or another's.
AbortSend(c) ==
  LET k == call[c] IN
  /\ k.op = "send"
  /\ \/ k.auth /\ k.from \notin registered
     \/ k.supersedes # NoId /\ ~Replaceable(k)
  /\ call' = [call EXCEPT ![c] = Idle]
  /\ UNCHANGED <<mail, nextId, registered, optOut, clock, engaged>>

(***************************************************************************)
(* cancel_task                                                             *)
(***************************************************************************)
CancelTask(i, caller) ==
  LET notified == mail[i].read # NoTime
      box == Withdraw(mail, i, NoId, clock, nextId)
  IN
  /\ caller \in registered
  /\ Withdrawable(i, caller)
  /\ mail[i].cancelled = NoTime       \* otherwise idempotent: nothing written
  /\ IF notified
     THEN /\ nextId <= MaxId
          /\ mail' = Capped(box, {mail[i].to}, {nextId})
          /\ nextId' = nextId + 1
     ELSE mail' = box /\ UNCHANGED nextId
  /\ UNCHANGED <<registered, optOut, clock, call, engaged>>

(***************************************************************************)
(* update_status                                                           *)
(***************************************************************************)
BeginStatus(c) ==
  /\ call[c] = Idle
  /\ \E i \in DOMAIN mail, n \in Names :
       call' = [call EXCEPT ![c] =
                  [op |-> "status", id |-> i, by |-> n, now |-> clock]]
  /\ UNCHANGED <<mail, nextId, registered, optOut, clock, engaged>>

\* Mutants of StatusAccepted: a status lands on withdrawn work; a status is
\* taken at the deadline itself.
StatusOnWithdrawn(k) ==
  /\ k.id \in DOMAIN mail
  /\ mail[k.id].to = k.by /\ k.by \in registered
  /\ mail[k.id].deadline = NoTime \/ mail[k.id].deadline > k.now
StatusAtDeadline(k) ==
  /\ k.id \in DOMAIN mail
  /\ mail[k.id].to = k.by /\ k.by \in registered
  /\ mail[k.id].cancelled = NoTime
  /\ mail[k.id].deadline = NoTime \/ mail[k.id].deadline >= k.now

StatusAccepted(k) ==
  /\ k.id \in DOMAIN mail
  /\ mail[k.id].to = k.by /\ k.by \in registered
  /\ mail[k.id].cancelled = NoTime
  /\ mail[k.id].deadline = NoTime \/ mail[k.id].deadline > k.now

\* A status update implies the row has been read.
StatusRow(m, now) ==
  [m EXCEPT !.statusAt = now, !.read = IF m.read = NoTime THEN now ELSE m.read]

CommitStatus(c) ==
  LET k == call[c] IN
  /\ k.op = "status"
  /\ call' = [call EXCEPT ![c] = Idle]
  /\ StatusAccepted(k)
  /\ mail' = [mail EXCEPT ![k.id] = StatusRow(@, k.now)]
  /\ engaged' = engaged \cup {k.id}
  /\ UNCHANGED <<nextId, registered, optOut, clock>>

RejectStatus(c) ==
  LET k == call[c] IN
  /\ k.op = "status"
  /\ ~StatusAccepted(k)
  /\ call' = [call EXCEPT ![c] = Idle]
  /\ UNCHANGED <<mail, nextId, registered, optOut, clock, engaged>>

(***************************************************************************)
(* read                                                                    *)
(***************************************************************************)
\* ORDER BY sent_at_ms, id in the direction the caller asked for.
Before(box, i, j, oldest) ==
  LET earlier(a, b) == \/ box[a].sent < box[b].sent
                       \/ box[a].sent = box[b].sent /\ a < b
  IN  IF oldest THEN earlier(i, j) ELSE earlier(j, i)

Matching(box, n, r) ==
  {i \in Inbox(box, n) :
     /\ r.unreadOnly => box[i].read = NoTime
     /\ r.inactive \/ Active(box[i])
     /\ box[i].kind \notin r.exclude}

Returned(box, n, r) ==
  LET rows == Matching(box, n, r) IN
  {i \in rows : Cardinality({j \in rows : Before(box, j, i, r.oldest)}) < r.limit}

\* Live unread rows among those returned: the ones the owner's read marks.
ToMark(box, n, r) ==
  {i \in Returned(box, n, r) : box[i].read = NoTime /\ Active(box[i])}

MarkRead(box, ids) ==
  [i \in DOMAIN box |-> IF i \in ids THEN [box[i] EXCEPT !.read = clock]
                                     ELSE box[i]]

\* Mutant of Receipted: a sender who did not prove the name gets a receipt.
ReceiptedUnproved(box, n, ids) ==
  {i \in ids : box[i].kind = "task" /\ box[i].from \in (registered \ optOut) \ {n}}

\* Tasks among the rows just marked whose sender is owed a receipt.
Receipted(box, n, ids) ==
  {i \in ids : /\ box[i].kind = "task" /\ box[i].auth
               /\ box[i].from \in (registered \ optOut) \ {n}}

Receipt(m, i) ==
  [to |-> m.from, from |-> m.to, auth |-> FALSE, kind |-> "receipt",
   sent |-> clock, deadline |-> NoTime, about |-> i, read |-> NoTime,
   cancelled |-> NoTime, supersededBy |-> NoId, statusAt |-> NoTime]

\* The receipts are inserted in the order the rows were returned.
ReceiptId(box, tasks, i, oldest) ==
  nextId + Cardinality({j \in tasks : Before(box, j, i, oldest)})

WithReceipts(box, tasks, oldest) ==
  LET ids == {ReceiptId(box, tasks, i, oldest) : i \in tasks}
      task(id) == CHOOSE i \in tasks : ReceiptId(box, tasks, i, oldest) = id
  IN  [id \in DOMAIN box \cup ids |->
         IF id \in ids THEN Receipt(box[task(id)], task(id)) ELSE box[id]]

ReadOwned(n, r) ==
  LET box == Purged(mail, {n})
      ids == ToMark(box, n, r)
      tasks == Receipted(box, n, ids)
      origins == {box[i].from : i \in tasks}
  IN
  /\ n \in registered
  /\ nextId + Cardinality(tasks) <= MaxId + 1
  /\ mail' = Capped(WithReceipts(MarkRead(box, ids), tasks, r.oldest), origins, {})
  /\ nextId' = nextId + Cardinality(tasks)
  /\ engaged' = engaged \cup {i \in Returned(box, n, r) : Active(box[i])}
  /\ UNCHANGED <<registered, optOut, clock, call>>

\* A read of an unregistered name purges, and otherwise only looks.
ReadPeek(n) ==
  /\ n \notin registered
  /\ mail' = Purged(mail, {n})
  /\ UNCHANGED <<nextId, registered, optOut, clock, call, engaged>>

\* Mutant of Ack: AND read_at_ms IS NULL is missing.
AckAgain(i) ==
  /\ i \in DOMAIN mail
  /\ mail[i].to \in registered
  /\ mail' = [mail EXCEPT ![i] = [@ EXCEPT !.read = clock]]
  /\ UNCHANGED <<nextId, registered, optOut, clock, call, engaged>>

\* ack marks any row of the caller's inbox read: it looks neither at the
\* withdrawal nor at the deadline.
Ack(i) ==
  /\ i \in DOMAIN mail
  /\ mail[i].to \in registered
  /\ mail[i].read = NoTime
  /\ mail' = [mail EXCEPT ![i] = [@ EXCEPT !.read = clock]]
  /\ UNCHANGED <<nextId, registered, optOut, clock, call, engaged>>

(***************************************************************************)
(* The rest of the store's effect on mail                                  *)
(***************************************************************************)
\* list_threads purges the whole store before it counts.
ListThreads ==
  /\ mail' = Purged(mail, Names)
  /\ UNCHANGED <<nextId, registered, optOut, clock, call, engaged>>

\* The rows it counts as a name's unread_count now, if its purge read the clock
\* at purgedAt: the query itself does not look at the TTL.
UnreadCounted(n, purgedAt) ==
  {i \in Inbox(mail, n) :
     /\ mail[i].sent + TTL > purgedAt
     /\ mail[i].read = NoTime /\ mail[i].kind # "receipt" /\ Active(mail[i])}

\* Mutant of HookCounted: a row counts at the very end of its lifetime.
HookCountedLate(n) ==
  {i \in Inbox(mail, n) :
     /\ mail[i].read = NoTime /\ mail[i].kind # "receipt"
     /\ Active(mail[i]) /\ mail[i].sent + TTL >= clock}

\* The rows the prompt hook counts, without purging anything.
HookCounted(n) ==
  {i \in Inbox(mail, n) :
     /\ mail[i].read = NoTime /\ mail[i].kind # "receipt"
     /\ Active(mail[i]) /\ mail[i].sent + TTL > clock}

\* A first registration and a takeover both leave receipts on.
Register(n) ==
  /\ registered' = registered \cup {n}
  /\ optOut' = optOut \ {n}
  /\ UNCHANGED <<mail, nextId, clock, call, engaged>>

\* Mail addressed to the name stays.
Unregister(n) ==
  /\ n \in registered
  /\ registered' = registered \ {n}
  /\ optOut' = optOut \ {n}
  /\ UNCHANGED <<mail, nextId, clock, call, engaged>>

\* Mutant of SetReceipts: the switch is stored for a name nobody holds.
SetReceiptsUnowned(n, enabled) ==
  /\ optOut' = IF enabled THEN optOut \ {n} ELSE optOut \cup {n}
  /\ UNCHANGED <<mail, nextId, registered, clock, call, engaged>>

SetReceipts(n, enabled) ==
  /\ n \in registered
  /\ optOut' = IF enabled THEN optOut \ {n} ELSE optOut \cup {n}
  /\ UNCHANGED <<mail, nextId, registered, clock, call, engaged>>

Tick ==
  /\ clock < MaxClock
  /\ clock' = clock + 1
  /\ UNCHANGED <<mail, nextId, registered, optOut, call, engaged>>

Init ==
  /\ mail = [i \in {} |-> {}]
  /\ nextId = 1
  /\ registered = {} /\ optOut = {}
  /\ clock = 0
  /\ call = [c \in Clients |-> Idle]
  /\ engaged = {}

Next ==
  \/ \E c \in Clients :
       \/ BeginSend(c) \/ CommitPlainSend(c) \/ CommitSupersede(c) \/ AbortSend(c)
       \/ BeginStatus(c) \/ CommitStatus(c) \/ RejectStatus(c)
  \/ \E i \in DOMAIN mail : Ack(i) \/ \E n \in Names : CancelTask(i, n)
  \/ \E n \in Names :
       \/ \E r \in ReadCalls : ReadOwned(n, r)
       \/ ReadPeek(n) \/ Register(n) \/ Unregister(n)
       \/ \E enabled \in Settings : SetReceipts(n, enabled)
  \/ ListThreads
  \/ Tick

Spec == Init /\ [][Next]_vars

(***************************************************************************)
(* Properties                                                              *)
(***************************************************************************)
\* An inbox never grows past the cap.  Only a cap of 1 can be exceeded, by a
\* supersede that writes two exempt rows at once.  This is about
\* _enforce_inbox_cap being called by every writer of an inbox: send,
\* cancel_task's notice and read's receipts.
InboxBounded ==
  Cap > 1 => \A n \in Names : Cardinality(Inbox(mail, n)) <= Cap

\* A recipient who was shown a message as live work, or accepted it, and
\* whose sender withdrew it, has a stop notice for it in the inbox for as
\* long as the message itself is stored: the notice is newer, expires no
\* earlier, is trimmed no earlier and cannot itself be withdrawn.
StopNotice ==
  \A i \in engaged \cap DOMAIN mail :
    mail[i].cancelled # NoTime =>
      \E n \in DOMAIN mail :
        /\ n > i /\ mail[n].kind = "cancel" /\ mail[n].about = i
        /\ mail[n].to = mail[i].to /\ mail[n].from = mail[i].from
        /\ mail[n].sent >= mail[i].sent
        /\ mail[n].cancelled = NoTime

\* superseded_by never dangles while the superseded row is stored: the
\* replacement is stored too, in the same inbox, from the same sender, newer
\* in id and not older in time (so "oldest"-first reading never shows it
\* before the message it replaces).
SupersedeLink ==
  \A i \in DOMAIN mail : LET n == mail[i].supersededBy IN
    n # NoId =>
      /\ n \in DOMAIN mail /\ n > i
      /\ mail[i].cancelled # NoTime
      /\ mail[n].to = mail[i].to /\ mail[n].sent >= mail[i].sent
      /\ mail[n].auth /\ mail[n].from = mail[i].from

\* When agents leave msg_type "receipt" to the store, a task has at most one
\* receipt, and while the task is stored the receipt tells the truth: the
\* task was read, by the agent the receipt names, and the receipt went to
\* the sender who proved it was theirs.
ReceiptTruthful ==
  "receipt" \notin SentTypes =>
    \A r \in DOMAIN mail : mail[r].kind = "receipt" =>
      LET i == mail[r].about IN
      /\ i < r
      /\ \A s \in DOMAIN mail : mail[s].kind = "receipt" /\ mail[s].about = i => s = r
      /\ i \in DOMAIN mail =>
           /\ mail[i].read # NoTime /\ mail[i].read <= mail[r].sent
           /\ mail[i].auth /\ mail[i].kind = "task"
           /\ mail[r].to = mail[i].from /\ mail[r].from = mail[i].to

\* update_status checks the deadline against a clock sampled before the lock:
\* whatever it accepts, the recorded time of the status is before the
\* deadline and not before the message was sent.
StatusInTime ==
  \A i \in DOMAIN mail : mail[i].statusAt # NoTime =>
    /\ mail[i].read # NoTime
    /\ mail[i].sent <= mail[i].statusAt
    /\ mail[i].deadline = NoTime \/ mail[i].statusAt < mail[i].deadline

\* What the prompt hook counts as a registered name's unread work is exactly
\* what a read that leaves out receipts would show its owner, at every boundary
\* of TTL and deadline.  list_threads counts that too, and besides only mail
\* whose TTL ran out between its purge and its count.
UnreadCountsAgree ==
  \A n \in registered, purgedAt \in 0..clock :
    LET readable == Matching(Purged(mail, {n}), n,
                      [unreadOnly |-> TRUE, inactive |-> FALSE, exclude |-> {"receipt"}])
        counted == UnreadCounted(n, purgedAt)
    IN  /\ HookCounted(n) = readable
        /\ readable \subseteq counted
        /\ \A i \in counted \ readable : mail[i].sent + TTL \in (purgedAt + 1)..clock

\* Mail leaves the store only when its TTL has elapsed or when the cap's worth
\* of newer mail stands in the same inbox; no reader, sender or status update
\* ever removes one.
NoEarlyLoss ==
  [][\A i \in DOMAIN mail \ DOMAIN mail' :
       \/ Expired(mail[i])
       \/ Cap > 0 /\ Cardinality({j \in Inbox(mail', mail[i].to) : j > i}) >= Cap]_vars

\* A withdrawal is final: no later status update, supersede or cancel, however
\* interleaved, changes the withdrawn row's status, withdrawal time or
\* replacement; two clients that supersede one message cannot both win.
WithdrawnIsFinal ==
  [][\A i \in DOMAIN mail \cap DOMAIN mail' : mail[i].cancelled # NoTime =>
       /\ mail'[i].cancelled = mail[i].cancelled
       /\ mail'[i].supersededBy = mail[i].supersededBy
       /\ mail'[i].statusAt = mail[i].statusAt]_vars

\* read_at is written once, and only for a registered recipient: a peek at an
\* unclaimed inbox, a late update or a second read never disturbs what the
\* eventual owner will find unread.
ReadOnce ==
  [][\A i \in DOMAIN mail \cap DOMAIN mail' : mail'[i].read # mail[i].read =>
       mail[i].read = NoTime /\ mail[i].to \in registered]_vars
=============================================================================
