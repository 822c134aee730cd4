---------------------------- MODULE MailboxProofs ----------------------------
(***************************************************************************)
(* What the mailbox promises, for every value of the constants.            *)
(*                                                                         *)
(* Part one: type correctness and the two promises about withdrawn work,   *)
(* SupersedeLink and StopNotice.  The invariant Rows is stated of any      *)
(* table, so that each step of a transaction (insert, mark, withdraw,      *)
(* purge, trim) has one lemma, and the proof of an action chains them.     *)
(*                                                                         *)
(* Part two: nothing is lost early, inboxes stay bounded, a withdrawal is  *)
(* final, read_at is written once, statuses are in time, receipts tell the *)
(* truth, and the unread counts agree.  Every operation is summed up once, *)
(* by Wrote: the table it makes before it trims, what became of each old   *)
(* row in it, and what a new row looks like.  The properties follow from   *)
(* Wrote and not from the actions.                                         *)
(***************************************************************************)
EXTENDS Mailbox, Extremes, FiniteSetTheorems, TLAPS

\* n is the replacement of i.
LinkTo(box, i, n) ==
  /\ n \in DOMAIN box /\ n > i
  /\ box[i].cancelled # NoTime
  /\ box[n].to = box[i].to /\ box[n].sent >= box[i].sent
  /\ box[n].auth /\ box[n].from = box[i].from

\* n is a live stop notice for i.
NoticeFor(box, i, n) ==
  /\ n > i /\ box[n].kind = "cancel" /\ box[n].about = i
  /\ box[n].to = box[i].to /\ box[n].from = box[i].from
  /\ box[n].sent >= box[i].sent
  /\ box[n].cancelled = NoTime

RowsType(box, top) ==
  /\ DOMAIN box \subseteq 1..(top - 1)
  /\ box \in [DOMAIN box -> Message]

LinksOK(box) ==
  \A i \in DOMAIN box :
    box[i].supersededBy # NoId => LinkTo(box, i, box[i].supersededBy)

NoticesOK(box, eng) ==
  \A i \in eng \cap DOMAIN box :
    /\ box[i].read # NoTime
    /\ box[i].cancelled # NoTime => \E n \in DOMAIN box : NoticeFor(box, i, n)

Rows(box, eng, top, t) ==
  /\ RowsType(box, top)
  /\ \A i \in DOMAIN box : box[i].sent <= t
  /\ LinksOK(box)
  /\ NoticesOK(box, eng)

\* A call that will supersede a message sampled the clock after that message
\* was sent, and its id had been handed out.
Sampled ==
  \A c \in Clients :
    /\ call[c].op \in {"send", "status"} => call[c].now <= clock
    /\ call[c].op = "send" =>
         LET s == call[c].supersedes IN
         /\ s # NoId => call[c].auth
         /\ s < nextId
         /\ s \in DOMAIN mail => mail[s].sent <= call[c].now

EngagedIds == engaged \subseteq 1..(nextId - 1)

\* The inductive invariant.
IInv == TypeOK /\ EngagedIds /\ Sampled /\ Rows(mail, engaged, nextId, clock)

(***************************************************************************)
(* Lemmas about the steps of a transaction                                 *)
(***************************************************************************)
\* Dropping rows keeps the invariant when every row kept keeps the newer rows
\* of its inbox that were sent no earlier.
LEMMA KeepRows ==
  ASSUME NEW box, NEW eng, NEW top \in Nat, NEW t \in Nat, NEW ids,
         ids \subseteq DOMAIN box, Rows(box, eng, top, t),
         \A i \in ids, j \in DOMAIN box :
            j > i /\ box[j].to = box[i].to /\ box[j].sent >= box[i].sent => j \in ids
  PROVE  Rows(Restrict(box, ids), eng, top, t)
<1> DEFINE kept == Restrict(box, ids)
<1>1. /\ DOMAIN kept = ids
      /\ \A i \in DOMAIN kept : kept[i] = box[i]
  BY DEF Restrict
<1>2. RowsType(kept, top)
  <2>1. \A i \in DOMAIN kept : kept[i] \in Message
    BY <1>1 DEF Rows, RowsType
  <2>2. kept = [i \in DOMAIN kept |-> kept[i]]
    BY DEF Restrict
  <2>3. QED
    BY <1>1, <2>1, <2>2 DEF Rows, RowsType
<1>3. \A i \in DOMAIN kept : kept[i].sent <= t
  BY <1>1 DEF Rows
<1>4. LinksOK(kept)
  BY <1>1 DEF Rows, LinksOK, LinkTo
<1>5. NoticesOK(kept, eng)
  <2> SUFFICES ASSUME NEW i \in eng \cap DOMAIN kept
               PROVE  /\ kept[i].read # NoTime
                      /\ kept[i].cancelled # NoTime =>
                           \E n \in DOMAIN kept : NoticeFor(kept, i, n)
    BY DEF NoticesOK
  <2>1. kept[i].read # NoTime
    BY <1>1 DEF Rows, NoticesOK
  <2>2. ASSUME kept[i].cancelled # NoTime
        PROVE  \E n \in DOMAIN kept : NoticeFor(kept, i, n)
    <3>1. PICK n \in DOMAIN box : NoticeFor(box, i, n)
      BY <1>1, <2>2 DEF Rows, NoticesOK
    <3>2. n \in DOMAIN kept
      BY <1>1, <3>1 DEF NoticeFor
    <3>3. QED
      BY <1>1, <3>1, <3>2 DEF NoticeFor
  <2>3. QED
    BY <2>1, <2>2
<1>6. QED
  BY <1>2, <1>3, <1>4, <1>5 DEF Rows

\* The TTL purge: a row that stays has not expired, so neither has one sent
\* no earlier.
LEMMA PurgeRows ==
  ASSUME NEW box, NEW eng, NEW top \in Nat, NEW names,
         TypeOK, Rows(box, eng, top, clock)
  PROVE  Rows(Purged(box, names), eng, top, clock)
<1> DEFINE ids == {i \in DOMAIN box : ~(box[i].to \in names /\ Expired(box[i]))}
<1>1. \A i \in DOMAIN box : box[i] \in Message /\ box[i].sent \in Nat
  BY DEF Rows, RowsType, Message
<1>2. \A i \in ids, j \in DOMAIN box :
        j > i /\ box[j].to = box[i].to /\ box[j].sent >= box[i].sent => j \in ids
  BY <1>1, ConstantsAssumption DEF Expired, TypeOK
<1>3. clock \in Nat
  BY DEF TypeOK
<1>0. ids \subseteq DOMAIN box
  OBVIOUS
<1> HIDE DEF ids
<1>4. Rows(Restrict(box, ids), eng, top, clock)
  BY <1>0, <1>2, <1>3, KeepRows
<1>5. QED
  BY <1>4 DEF Purged, ids

\* The inbox cap: what survives is newest-first, and the exempt rows are the
\* newest of all.
LEMMA CapRows ==
  ASSUME NEW box, NEW eng, NEW top \in Nat, NEW t \in Nat, NEW names, NEW exempt,
         Rows(box, eng, top, t),
         \A e \in exempt, j \in DOMAIN box : e \in Nat /\ (j > e => j \in exempt)
  PROVE  Rows(Capped(box, names, exempt), eng, top, t)
<1> DEFINE ids == {i \in DOMAIN box :
                    \/ box[i].to \notin names \/ i \in exempt
                    \/ Cap = 0 \/ Cardinality(Newer(box, i)) < Cap}
<1>1. DOMAIN box \subseteq 1..(top - 1)
  BY DEF Rows, RowsType
<1>2. ASSUME NEW i \in ids, NEW j \in DOMAIN box,
             j > i, box[j].to = box[i].to
      PROVE  j \in ids
  <2>1. i \in Int /\ j \in Int
    BY <1>1
  <2>2. CASE Cardinality(Newer(box, i)) < Cap
    <3>1. IsFiniteSet(Newer(box, i))
      <4>1. IsFiniteSet(1..(top - 1))
        BY FS_Interval
      <4>2. Newer(box, i) \in SUBSET (1..(top - 1))
        BY <1>1 DEF Newer, Inbox
      <4>3. QED
        BY <4>1, <4>2, FS_Subset
    <3>2. Newer(box, j) \in SUBSET Newer(box, i)
      BY <1>1, <1>2, <2>1 DEF Newer, Inbox
    <3>3. /\ Cardinality(Newer(box, j)) <= Cardinality(Newer(box, i))
          /\ Cardinality(Newer(box, i)) \in Nat
          /\ Cardinality(Newer(box, j)) \in Nat
      BY <3>1, <3>2, FS_Subset, FS_CardinalityType
    <3>4. Cardinality(Newer(box, j)) < Cap
      BY <2>2, <3>3, ConstantsAssumption
    <3>5. QED
      BY <3>4
  <2>3. CASE ~ Cardinality(Newer(box, i)) < Cap
    BY <1>2, <2>1, <2>3
  <2>4. QED
    BY <2>2, <2>3
<1>0. ids \subseteq DOMAIN box
  OBVIOUS
<1> HIDE DEF ids
<1>3. Rows(Restrict(box, ids), eng, top, t)
  BY <1>0, <1>2, KeepRows
<1>4. QED
  BY <1>3 DEF Capped, ids

\* A new row goes in under the next id.
LEMMA InsertRow ==
  ASSUME NEW box, NEW eng, NEW top \in Nat \ {0}, NEW t \in Nat, NEW m \in Message,
         Rows(box, eng, top, t), top \notin eng,
         m.sent <= t, m.supersededBy = NoId
  PROVE  Rows(Insert(box, top, m), eng, top + 1, t)
<1> DEFINE new == Insert(box, top, m)
<1>1. /\ DOMAIN new = DOMAIN box \cup {top}
      /\ new[top] = m
      /\ top \notin DOMAIN box
      /\ \A i \in DOMAIN box : new[i] = box[i]
  BY DEF Insert, Rows, RowsType
<1>2. RowsType(new, top + 1)
  <2>1. \A i \in DOMAIN new : new[i] \in Message
    BY <1>1 DEF Rows, RowsType
  <2>2. new = [i \in DOMAIN new |-> new[i]]
    BY DEF Insert
  <2>3. QED
    BY <1>1, <2>1, <2>2 DEF Rows, RowsType
<1>3. \A i \in DOMAIN new : new[i].sent <= t
  BY <1>1 DEF Rows
<1> HIDE DEF new
<1>4. LinksOK(new)
  BY <1>1 DEF Rows, LinksOK, LinkTo
<1>5. NoticesOK(new, eng)
  BY <1>1 DEF Rows, NoticesOK, NoticeFor
<1>6. QED
  BY <1>2, <1>3, <1>4, <1>5 DEF Rows, new

\* Marking rows read or setting their status leaves the rest of each row as
\* it was; a row whose recipient now takes it up is read and not withdrawn.
LEMMA TouchRows ==
  ASSUME NEW box, NEW new, NEW eng, NEW eng2, NEW top \in Nat, NEW t \in Nat,
         Rows(box, eng, top, t),
         DOMAIN new = DOMAIN box, new \in [DOMAIN new -> Message],
         \A i \in DOMAIN box :
           /\ new[i].to = box[i].to /\ new[i].from = box[i].from
           /\ new[i].auth = box[i].auth /\ new[i].kind = box[i].kind
           /\ new[i].sent = box[i].sent /\ new[i].about = box[i].about
           /\ new[i].cancelled = box[i].cancelled
           /\ new[i].supersededBy = box[i].supersededBy
           /\ box[i].read # NoTime => new[i].read # NoTime,
         \A i \in eng2 \cap DOMAIN box :
           i \in eng \/ (new[i].read # NoTime /\ new[i].cancelled = NoTime)
  PROVE  Rows(new, eng2, top, t)
<1>1. RowsType(new, top)
  BY DEF Rows, RowsType
<1>2. \A i \in DOMAIN new : new[i].sent <= t
  BY DEF Rows
<1>3. LinksOK(new)
  BY DEF Rows, LinksOK, LinkTo
<1>4. NoticesOK(new, eng2)
  <2> SUFFICES ASSUME NEW i \in eng2 \cap DOMAIN new
               PROVE  /\ new[i].read # NoTime
                      /\ new[i].cancelled # NoTime =>
                           \E n \in DOMAIN new : NoticeFor(new, i, n)
    BY DEF NoticesOK
  <2>1. CASE i \notin eng
    BY <2>1
  <2>2. CASE i \in eng
    BY <2>2 DEF Rows, NoticesOK, NoticeFor
  <2>3. QED
    BY <2>1, <2>2
<1>5. QED
  BY <1>1, <1>2, <1>3, <1>4 DEF Rows

\* _withdraw: either the row was unread and is only marked, or its notice
\* goes in beside the mark.
LEMMA WithdrawRows ==
  ASSUME NEW box, NEW eng, NEW top \in Nat \ {0}, NEW t \in Nat, NEW now \in Nat,
         NEW i \in DOMAIN box, NEW by \in Nat,
         Rows(box, eng, top, t), top \notin eng,
         box[i].kind \notin SystemTypes, box[i].cancelled = NoTime,
         now <= t, now >= box[i].sent,
         by # NoId => /\ by \in DOMAIN box /\ by > i
                      /\ box[by].to = box[i].to /\ box[by].sent >= box[i].sent
                      /\ box[by].auth /\ box[by].from = box[i].from
  PROVE  LET last == IF box[i].read = NoTime THEN top ELSE top + 1
         IN  Rows(Withdraw(box, i, by, now, top), eng, last, t)
<1> DEFINE marked == MarkWithdrawn(box, i, by, now)
           notice == CancelNotice(box[i], i, now)
           both == Insert(marked, top, notice)
<1>0. /\ DOMAIN box \subseteq 1..(top - 1)
      /\ \A j \in DOMAIN box : box[j] \in Message
      /\ top \notin DOMAIN box
      /\ i \in Nat \ {0}
  BY DEF Rows, RowsType
<1>1. /\ DOMAIN marked = DOMAIN box
      /\ \A j \in DOMAIN box : marked[j] \in Message
      /\ \A j \in DOMAIN box : j # i => marked[j] = box[j]
      /\ marked[i].cancelled = now /\ marked[i].supersededBy = by
      /\ \A j \in DOMAIN box :
           /\ marked[j].to = box[j].to /\ marked[j].from = box[j].from
           /\ marked[j].auth = box[j].auth /\ marked[j].kind = box[j].kind
           /\ marked[j].sent = box[j].sent /\ marked[j].about = box[j].about
           /\ marked[j].read = box[j].read
      /\ marked = [j \in DOMAIN marked |-> marked[j]]
  <2> DEFINE row == [box[i] EXCEPT !.cancelled = now, !.supersededBy = by]
  <2>1. box[i] \in Message
    BY <1>0
  <2>2. /\ row \in Message
        /\ row.cancelled = now /\ row.supersededBy = by
        /\ row.to = box[i].to /\ row.from = box[i].from /\ row.auth = box[i].auth
        /\ row.kind = box[i].kind /\ row.sent = box[i].sent
        /\ row.about = box[i].about /\ row.read = box[i].read
    BY <2>1 DEF Message, Times
  <2>3. marked = [box EXCEPT ![i] = row]
    BY DEF MarkWithdrawn
  <2> HIDE DEF row, marked
  <2>4. /\ DOMAIN marked = DOMAIN box
        /\ marked[i] = row
        /\ \A j \in DOMAIN box : j # i => marked[j] = box[j]
        /\ marked = [j \in DOMAIN marked |-> marked[j]]
    BY <2>3
  <2>5. QED
    BY <1>0, <2>2, <2>4
<1>2. now # NoTime
  BY DEF NoTime
<1>3. LinksOK(marked)
  <2> SUFFICES ASSUME NEW j \in DOMAIN box, marked[j].supersededBy # NoId
               PROVE  LinkTo(marked, j, marked[j].supersededBy)
    BY <1>1 DEF LinksOK
  <2>1. CASE j = i
    BY <1>1, <1>2, <2>1 DEF LinkTo
  <2>2. CASE j # i
    BY <1>1, <1>2, <2>2 DEF Rows, LinksOK, LinkTo
  <2>3. QED
    BY <2>1, <2>2
<1>4. \A j \in DOMAIN box, n \in DOMAIN box : NoticeFor(box, j, n) => NoticeFor(marked, j, n)
  <2>1. \A j, n \in DOMAIN box : NoticeFor(box, j, n) => n # i
    BY DEF NoticeFor, SystemTypes
  <2>2. QED
    BY <1>1, <2>1 DEF NoticeFor
<1>5. CASE box[i].read = NoTime
  <2>1. NoticesOK(marked, eng)
    <3>1. i \notin eng
      BY <1>5 DEF Rows, NoticesOK
    <3>2. QED
      BY <1>1, <1>4, <3>1 DEF Rows, NoticesOK
  <2>2. RowsType(marked, top) /\ \A j \in DOMAIN marked : marked[j].sent <= t
    BY <1>0, <1>1 DEF Rows, RowsType
  <2>3. QED
    BY <1>3, <1>5, <2>1, <2>2 DEF Withdraw, Rows
<1>6. CASE box[i].read # NoTime
  <2>1. notice \in Message
    BY <1>0 DEF CancelNotice, Message, MsgTypes, Times, NoId, NoTime
  <2>2. /\ DOMAIN both = DOMAIN box \cup {top}
        /\ both[top] = notice
        /\ \A j \in DOMAIN box : both[j] = marked[j]
        /\ both = [j \in DOMAIN both |-> both[j]]
    BY <1>0, <1>1 DEF Insert
  <2>3. /\ notice.sent = now /\ notice.supersededBy = NoId /\ notice.kind = "cancel"
        /\ notice.about = i /\ notice.to = box[i].to /\ notice.from = box[i].from
        /\ notice.cancelled = NoTime
    BY DEF CancelNotice
  <2> HIDE DEF both, marked, notice
  <2>4. RowsType(both, top + 1) /\ \A j \in DOMAIN both : both[j].sent <= t
    BY <1>0, <1>1, <2>1, <2>2, <2>3 DEF Rows, RowsType
  <2>5. LinksOK(both)
    BY <1>0, <1>1, <1>3, <2>2, <2>3 DEF LinksOK, LinkTo
  <2>6. NoticeFor(both, i, top)
    BY <1>0, <1>1, <2>2, <2>3 DEF NoticeFor
  <2>7. NoticesOK(both, eng)
    <3> SUFFICES ASSUME NEW j \in eng \cap DOMAIN both
                 PROVE  /\ both[j].read # NoTime
                        /\ both[j].cancelled # NoTime =>
                             \E n \in DOMAIN both : NoticeFor(both, j, n)
      BY DEF NoticesOK
    <3>0. j \in DOMAIN box
      BY <2>2
    <3>1. both[j].read # NoTime
      BY <1>1, <2>2, <3>0 DEF Rows, NoticesOK
    <3>2. CASE j = i
      BY <2>2, <2>6, <3>1, <3>2
    <3>3. ASSUME j # i, both[j].cancelled # NoTime
          PROVE  \E n \in DOMAIN both : NoticeFor(both, j, n)
      <4>1. PICK n \in DOMAIN box : NoticeFor(box, j, n)
        BY <1>1, <2>2, <3>0, <3>3 DEF Rows, NoticesOK
      <4>2. NoticeFor(both, j, n)
        BY <1>4, <2>2, <3>0, <4>1 DEF NoticeFor
      <4>3. QED
        BY <2>2, <4>2
    <3>4. QED
      BY <3>1, <3>2, <3>3
  <2>8. QED
    BY <1>6, <2>4, <2>5, <2>7 DEF Withdraw, Rows, both, marked, notice
<1>7. QED
  BY <1>5, <1>6

\* The ids of the receipts are the next ones, as many as there are tasks.
LEMMA ReceiptIds ==
  ASSUME NEW box, NEW tasks \in SUBSET DOMAIN box, NEW oldest,
         nextId \in Nat \ {0}, DOMAIN box \subseteq 1..(nextId - 1),
         \A i \in DOMAIN box : box[i].sent \in Nat
  PROVE  /\ Cardinality(tasks) \in Nat
         /\ \A i \in tasks : ReceiptId(box, tasks, i, oldest)
                               \in nextId..(nextId + Cardinality(tasks) - 1)
<1>1. IsFiniteSet(tasks) /\ Cardinality(tasks) \in Nat
  <2>1. IsFiniteSet(1..(nextId - 1)) /\ tasks \in SUBSET (1..(nextId - 1))
    BY FS_Interval
  <2>2. QED
    BY <2>1, FS_Subset, FS_CardinalityType
<1>2. ASSUME NEW i \in tasks
      PROVE  ReceiptId(box, tasks, i, oldest) \in nextId..(nextId + Cardinality(tasks) - 1)
  <2> DEFINE ahead == {j \in tasks : Before(box, j, i, oldest)}
  <2>1. ahead \in SUBSET (tasks \ {i})
    <3>1. box[i].sent \in Int /\ i \in Int
      OBVIOUS
    <3>2. ~ Before(box, i, i, oldest)
      BY <3>1 DEF Before
    <3>3. QED
      BY <3>2
  <2>2. /\ IsFiniteSet(tasks \ {i})
        /\ Cardinality(tasks \ {i}) = Cardinality(tasks) - 1
    BY <1>1, FS_RemoveElement
  <2>3. /\ Cardinality(ahead) \in Nat
        /\ Cardinality(ahead) <= Cardinality(tasks) - 1
    BY <2>1, <2>2, FS_Subset, FS_CardinalityType
  <2>4. ReceiptId(box, tasks, i, oldest) = nextId + Cardinality(ahead)
    BY DEF ReceiptId
  <2> HIDE DEF ahead
  <2>5. QED
    BY <1>1, <2>3, <2>4
<1>3. QED
  BY <1>1, <1>2

\* read's receipts: new ids, one per task, none of them owed a notice.
LEMMA ReceiptRows ==
  ASSUME NEW box, NEW tasks \in SUBSET DOMAIN box, NEW oldest \in BOOLEAN, NEW eng,
         TypeOK, Rows(box, eng, nextId, clock), eng \subseteq 1..(nextId - 1)
  PROVE  /\ Cardinality(tasks) \in Nat
         /\ Rows(WithReceipts(box, tasks, oldest), eng,
                 nextId + Cardinality(tasks), clock)
<1> DEFINE new == WithReceipts(box, tasks, oldest)
           ids == {ReceiptId(box, tasks, i, oldest) : i \in tasks}
           task(id) == CHOOSE i \in tasks : ReceiptId(box, tasks, i, oldest) = id
<1>0. /\ nextId \in Nat \ {0} /\ clock \in Nat
      /\ DOMAIN box \subseteq 1..(nextId - 1)
      /\ \A i \in DOMAIN box : box[i] \in Message /\ box[i].sent \in Nat
  BY DEF TypeOK, Ids, Rows, RowsType, Message
<1>1. Cardinality(tasks) \in Nat
  BY <1>0, ReceiptIds
<1>2. ids \subseteq nextId..(nextId + Cardinality(tasks) - 1)
  BY <1>0, ReceiptIds
<1>3. /\ DOMAIN new = DOMAIN box \cup ids
      /\ ids \cap DOMAIN box = {}
      /\ \A i \in DOMAIN box : new[i] = box[i]
      /\ \A id \in ids : new[id] = Receipt(box[task(id)], task(id))
      /\ new = [id \in DOMAIN new |-> new[id]]
  <2> HIDE DEF ids, task
  <2>1. new = [id \in DOMAIN box \cup ids |->
                 IF id \in ids THEN Receipt(box[task(id)], task(id)) ELSE box[id]]
    BY DEF WithReceipts, ids, task
  <2>2. ids \cap DOMAIN box = {}
    BY <1>0, <1>1, <1>2
  <2> HIDE DEF new
  <2>3. QED
    BY <2>1, <2>2
<1>4. ASSUME NEW id \in ids
      PROVE  /\ new[id] \in Message /\ new[id].sent = clock
             /\ new[id].supersededBy = NoId
  <2>1. task(id) \in tasks
    OBVIOUS
  <2>2. box[task(id)] \in Message /\ task(id) \in Nat
    BY <1>0, <2>1
  <2> HIDE DEF task, new, ids
  <2>3. Receipt(box[task(id)], task(id)) \in Message
    BY <1>0, <2>2 DEF Receipt, Message, MsgTypes, Times, NoId, NoTime
  <2>4. new[id] = Receipt(box[task(id)], task(id))
    BY <1>3
  <2>5. /\ Receipt(box[task(id)], task(id)).sent = clock
        /\ Receipt(box[task(id)], task(id)).supersededBy = NoId
    BY DEF Receipt
  <2>6. QED
    BY <2>3, <2>4, <2>5
<1> HIDE DEF new, ids
<1>5. RowsType(new, nextId + Cardinality(tasks))
  <2>1. \A id \in DOMAIN new : new[id] \in Message
    BY <1>0, <1>3, <1>4
  <2>2. DOMAIN new \subseteq 1..(nextId + Cardinality(tasks) - 1)
    BY <1>0, <1>1, <1>2, <1>3
  <2>3. new = [id \in DOMAIN new |-> new[id]]
    BY <1>3
  <2>4. new \in [DOMAIN new -> Message]
    BY <2>1, <2>3
  <2>5. DOMAIN new \subseteq 1..((nextId + Cardinality(tasks)) - 1)
    BY <1>0, <1>1, <2>2
  <2> HIDE DEF RowsType
  <2>6. QED
    BY <2>4, <2>5, Zenon DEF RowsType
<1>6. \A i \in DOMAIN new : new[i].sent <= clock
  BY <1>0, <1>3, <1>4 DEF Rows
<1>7. LinksOK(new)
  BY <1>0, <1>3, <1>4 DEF Rows, LinksOK, LinkTo
<1>8. NoticesOK(new, eng)
  <2>1. eng \cap DOMAIN new = eng \cap DOMAIN box
    BY <1>0, <1>1, <1>2, <1>3
  <2>2. QED
    BY <1>0, <1>3, <2>1 DEF Rows, NoticesOK, NoticeFor
<1>9. QED
  BY <1>1, <1>5, <1>6, <1>7, <1>8 DEF Rows, new

(***************************************************************************)
(* Preservation, one lemma per action that writes mail                     *)
(***************************************************************************)
\* The empty store satisfies the invariant.
LEMMA InitInv == Init => IInv
<1> SUFFICES ASSUME Init PROVE IInv
  OBVIOUS
<1>1. DOMAIN mail = {}
  BY DEF Init
<1>2. TypeOK
  BY <1>1 DEF Init, TypeOK, Ids
<1>3. Rows(mail, engaged, nextId, clock)
  BY <1>1, <1>2 DEF Rows, RowsType, LinksOK, NoticesOK, TypeOK
<1>4. EngagedIds /\ Sampled
  BY <1>1 DEF Init, EngagedIds, Sampled, Idle
<1>5. QED
  BY <1>2, <1>3, <1>4 DEF IInv

\* The rows below `top` are old ones, with the times they had.
Older(box, new, top) ==
  \A i \in DOMAIN new : i < top => i \in DOMAIN box /\ new[i].sent = box[i].sent

\* What an action that leaves the pending calls alone has to show.
LEMMA CallsKept ==
  ASSUME IInv, call' \in [Clients -> {Idle} \cup SendCall \cup StatusCall],
         \A c \in Clients : call'[c] = call[c] \/ call'[c] = Idle,
         nextId' \in Ids, nextId' >= nextId, clock' = clock,
         registered' \subseteq Names, optOut' \subseteq registered',
         engaged' \subseteq 1..(nextId' - 1),
         Older(mail, mail', nextId), Rows(mail', engaged', nextId', clock)
  PROVE  IInv'
<1>1. TypeOK'
  BY DEF IInv, TypeOK, Rows, RowsType, Ids
<1>2. EngagedIds'
  BY DEF EngagedIds
<1>3. Sampled'
  <2> SUFFICES ASSUME NEW c \in Clients
               PROVE  /\ call'[c].op \in {"send", "status"} => call'[c].now <= clock
                      /\ call'[c].op = "send" =>
                           LET s == call'[c].supersedes IN
                           /\ s # NoId => call'[c].auth
                           /\ s < nextId'
                           /\ s \in DOMAIN mail' => mail'[s].sent <= call'[c].now
    BY DEF Sampled
  <2>1. CASE call'[c] = Idle
    BY <2>1 DEF Idle
  <2>2. CASE call'[c] = call[c]
    <3>1. call[c].op = "send" => call[c].supersedes \in Nat
      BY DEF IInv, TypeOK, SendCall, StatusCall, Idle
    <3>2. nextId \in Nat /\ nextId' \in Nat
      BY DEF IInv, TypeOK, Ids
    <3>3. QED
      BY <2>2, <3>1, <3>2 DEF IInv, Sampled, Older
  <2>3. QED
    BY <2>1, <2>2
<1>4. Rows(mail, engaged, nextId, clock)'
  OBVIOUS
<1>5. QED
  BY <1>1, <1>2, <1>3, <1>4 DEF IInv

\* A send that has sampled the clock holds a time the clock has reached.
LEMMA BeginSendInv ==
  ASSUME IInv, NEW c \in Clients, BeginSend(c)
  PROVE  IInv'
<1>1. PICK route \in Routes, kind \in SentTypes,
           within \in Deadlines \cup {NoTime}, old \in 0..(nextId - 1) :
        /\ old # NoId => route.auth
        /\ call' = [call EXCEPT ![c] =
             [op |-> "send", to |-> route.to, from |-> route.from,
              auth |-> route.auth, kind |-> kind, supersedes |-> old, now |-> clock,
              deadline |-> IF within = NoTime THEN NoTime ELSE clock + within]]
  BY DEF BeginSend
<1> DEFINE k == [op |-> "send", to |-> route.to, from |-> route.from,
                 auth |-> route.auth, kind |-> kind, supersedes |-> old, now |-> clock,
                 deadline |-> IF within = NoTime THEN NoTime ELSE clock + within]
<1>2. clock \in Nat /\ nextId \in Nat /\ old \in Nat
  BY DEF IInv, TypeOK, Ids
<1>3. k \in SendCall
  BY <1>2, ConstantsAssumption DEF SendCall, Route, Times, NoTime
<1>4. TypeOK'
  BY <1>1, <1>3 DEF IInv, TypeOK, BeginSend
<1>5. Sampled'
  <2> SUFFICES ASSUME NEW d \in Clients
               PROVE  /\ call'[d].op \in {"send", "status"} => call'[d].now <= clock
                      /\ call'[d].op = "send" =>
                           LET s == call'[d].supersedes IN
                           /\ s # NoId => call'[d].auth
                           /\ s < nextId
                           /\ s \in DOMAIN mail => mail[s].sent <= call'[d].now
    BY DEF Sampled, BeginSend
  <2>1. CASE d = c
    <3>1. call'[d] = k
      BY <1>1, <2>1 DEF IInv, TypeOK
    <3>2. QED
      BY <1>1, <1>2, <3>1 DEF IInv, Rows
  <2>2. CASE d # c
    BY <1>1, <2>2 DEF IInv, Sampled
  <2>3. QED
    BY <2>1, <2>2
<1>6. EngagedIds' /\ Rows(mail, engaged, nextId, clock)'
  BY DEF IInv, EngagedIds, BeginSend
<1>7. QED
  BY <1>4, <1>5, <1>6 DEF IInv

\* So does a status update.
LEMMA BeginStatusInv ==
  ASSUME IInv, NEW c \in Clients, BeginStatus(c)
  PROVE  IInv'
<1>1. PICK i \in DOMAIN mail, n \in Names :
        call' = [call EXCEPT ![c] = [op |-> "status", id |-> i, by |-> n, now |-> clock]]
  BY DEF BeginStatus
<1>2. [op |-> "status", id |-> i, by |-> n, now |-> clock] \in StatusCall
  BY DEF IInv, TypeOK, Ids, StatusCall
<1>3. TypeOK'
  BY <1>1, <1>2 DEF IInv, TypeOK, BeginStatus
<1>4. Sampled'
  BY <1>1 DEF IInv, TypeOK, Sampled, BeginStatus
<1>5. EngagedIds' /\ Rows(mail, engaged, nextId, clock)'
  BY DEF IInv, EngagedIds, BeginStatus
<1>6. QED
  BY <1>3, <1>4, <1>5 DEF IInv

\* Time only grows, so no recorded time is overtaken.
LEMMA TickInv ==
  ASSUME IInv, Tick
  PROVE  IInv'
<1>1. clock' = clock + 1 /\ clock \in Nat
  BY DEF Tick, IInv, TypeOK
<1>2. TypeOK' /\ EngagedIds'
  BY <1>1 DEF Tick, IInv, TypeOK, EngagedIds
<1>3. Sampled'
  BY <1>1 DEF Tick, IInv, Sampled, TypeOK, SendCall, StatusCall, Idle
<1>4. Rows(mail, engaged, nextId, clock)'
  <2>1. \A i \in DOMAIN mail : mail[i].sent \in Nat
    BY DEF IInv, TypeOK, Message
  <2>2. QED
    BY <1>1, <2>1 DEF Tick, IInv, Rows
<1>5. QED
  BY <1>2, <1>3, <1>4 DEF IInv

\* A plain send adds one row under the next id and trims its inbox.
LEMMA CommitPlainSendInv ==
  ASSUME IInv, NEW c \in Clients, CommitPlainSend(c)
  PROVE  IInv'
<1> DEFINE k == call[c]
           box == Insert(mail, nextId, SentRow(k))
<1>0. /\ nextId \in Nat \ {0} /\ clock \in Nat /\ nextId \notin engaged
      /\ k \in SendCall /\ k.now <= clock
      /\ DOMAIN mail \subseteq 1..(nextId - 1)
  BY DEF CommitPlainSend, IInv, TypeOK, EngagedIds, Ids, Sampled, StatusCall, Idle
<1>1. SentRow(k) \in Message /\ SentRow(k).sent = k.now /\ SentRow(k).supersededBy = NoId
  BY <1>0, ConstantsAssumption
     DEF SentRow, SendCall, Message, NoId, Times
<1> HIDE DEF k
<1>2. Rows(box, engaged, nextId + 1, clock)
  BY <1>0, <1>1, InsertRow DEF IInv
<1>3. \A e \in {nextId}, j \in DOMAIN box : e \in Nat /\ (j > e => j \in {nextId})
  BY <1>0 DEF Insert
<1>4. Rows(Capped(box, {k.to}, {nextId}), engaged, nextId + 1, clock)
  BY <1>0, <1>2, <1>3, CapRows
<1>5. Older(mail, Capped(box, {k.to}, {nextId}), nextId)
  BY <1>0 DEF Older, Capped, Restrict, Insert
<1>6. /\ mail' = Capped(box, {k.to}, {nextId}) /\ nextId' = nextId + 1
      /\ call' = [call EXCEPT ![c] = Idle]
      /\ UNCHANGED <<registered, optOut, clock, engaged>>
  BY DEF CommitPlainSend, k
<1> HIDE DEF box
<1>7. /\ call' \in [Clients -> {Idle} \cup SendCall \cup StatusCall]
      /\ \A d \in Clients : call'[d] = call[d] \/ call'[d] = Idle
  BY <1>6 DEF IInv, TypeOK
<1>8. engaged' \subseteq 1..(nextId' - 1) /\ nextId' \in Ids /\ nextId' >= nextId
  BY <1>0, <1>6 DEF IInv, EngagedIds, Ids
<1>9. registered' \subseteq Names /\ optOut' \subseteq registered'
  BY <1>6 DEF IInv, TypeOK
<1>10. QED
  BY <1>4, <1>5, <1>6, <1>7, <1>8, <1>9, CallsKept

\* A supersede adds the new row, marks the old one and, if it had been read,
\* adds the stop notice; both rows it writes are exempt from its own trim.
LEMMA CommitSupersedeInv ==
  ASSUME IInv, NEW c \in Clients, CommitSupersede(c)
  PROVE  IInv'
<1> DEFINE k == call[c]
           old == k.supersedes
           last == IF mail[old].read = NoTime THEN nextId ELSE nextId + 1
           sent == Insert(mail, nextId, SentRow(k))
           box == Withdraw(sent, old, nextId, k.now, nextId + 1)
           new == Capped(box, {k.to}, nextId..last)
<1>0. /\ nextId \in Nat \ {0} /\ clock \in Nat /\ nextId \notin engaged
      /\ nextId + 1 \notin engaged
      /\ k \in SendCall /\ k.now <= clock /\ k.auth
      /\ DOMAIN mail \subseteq 1..(nextId - 1)
      /\ old \in DOMAIN mail /\ old < nextId /\ mail[old].sent <= k.now
      /\ mail[old].kind \notin SystemTypes /\ mail[old].from = k.from
      /\ mail[old].to = k.to /\ mail[old].cancelled = NoTime
  BY DEF CommitSupersede, Replaceable, Withdrawable, IInv, TypeOK, EngagedIds,
         Ids, Sampled, StatusCall, Idle
<1>1. /\ SentRow(k) \in Message /\ SentRow(k).sent = k.now
      /\ SentRow(k).supersededBy = NoId /\ SentRow(k).to = k.to
      /\ SentRow(k).from = k.from /\ SentRow(k).auth
  BY <1>0, ConstantsAssumption DEF SentRow, SendCall, Message, NoId, Times
<1>2. /\ mail' = new /\ nextId' = last + 1
      /\ call' = [call EXCEPT ![c] = Idle]
      /\ UNCHANGED <<registered, optOut, clock, engaged>>
  BY DEF CommitSupersede
<1>3. k.now \in Nat /\ old \in Nat
  BY <1>0 DEF SendCall
<1> HIDE DEF k, old
<1>4. Rows(sent, engaged, nextId + 1, clock)
  BY <1>0, <1>1, InsertRow DEF IInv
<1>5. /\ DOMAIN sent = DOMAIN mail \cup {nextId}
      /\ sent[nextId] = SentRow(k) /\ sent[old] = mail[old]
      /\ \A i \in DOMAIN mail : sent[i] = mail[i]
  BY <1>0 DEF Insert
<1> HIDE DEF sent
<1>6. Rows(box, engaged, last + 1, clock)
  <2>1. nextId + 1 \in Nat \ {0} /\ old \in DOMAIN sent /\ nextId \in DOMAIN sent
    BY <1>0, <1>5
  <2>2. /\ sent[old].kind \notin SystemTypes /\ sent[old].cancelled = NoTime
        /\ k.now >= sent[old].sent /\ nextId > old
        /\ sent[nextId].to = sent[old].to /\ sent[nextId].sent >= sent[old].sent
        /\ sent[nextId].auth /\ sent[nextId].from = sent[old].from
    <3>1. mail[old].sent \in Nat
      BY <1>0 DEF IInv, TypeOK, Message
    <3>2. QED
      BY <1>0, <1>1, <1>3, <1>5, <3>1
  <2>3. LET end == IF sent[old].read = NoTime THEN nextId + 1 ELSE nextId + 1 + 1
        IN  Rows(box, engaged, end, clock)
    BY <1>0, <1>3, <1>4, <2>1, <2>2, WithdrawRows
  <2>4. last + 1 = IF sent[old].read = NoTime THEN nextId + 1 ELSE nextId + 1 + 1
    BY <1>0, <1>5
  <2> HIDE DEF box, last
  <2>5. QED
    BY <2>3, <2>4
<1>7. /\ DOMAIN box \subseteq DOMAIN mail \cup {nextId, nextId + 1}
      /\ \A i \in DOMAIN box : i < nextId => box[i].sent = mail[i].sent
      /\ sent[old].read = NoTime => DOMAIN box \subseteq DOMAIN mail \cup {nextId}
  <2> DEFINE marked == MarkWithdrawn(sent, old, nextId, k.now)
  <2>1. DOMAIN marked = DOMAIN sent /\ \A i \in DOMAIN sent : marked[i].sent = sent[i].sent
    <3>1. \A i \in DOMAIN sent : sent[i] \in Message
      BY <1>4 DEF Rows, RowsType
    <3>2. [sent[old] EXCEPT !.cancelled = k.now, !.supersededBy = nextId].sent
             = sent[old].sent
      BY <1>0, <1>5, <3>1 DEF Message
    <3>3. QED
      BY <1>0, <1>5, <3>2 DEF MarkWithdrawn
  <2> HIDE DEF marked
  <2>2. box = IF sent[old].read = NoTime THEN marked
              ELSE Insert(marked, nextId + 1, CancelNotice(sent[old], old, k.now))
    BY DEF Withdraw, marked
  <2>3. CASE sent[old].read = NoTime
    BY <1>0, <1>5, <2>1, <2>2, <2>3
  <2>4. CASE sent[old].read # NoTime
    BY <1>0, <1>5, <2>1, <2>2, <2>4 DEF Insert
  <2>5. QED
    BY <2>3, <2>4
<1> HIDE DEF box
<1>8. Rows(new, engaged, last + 1, clock)
  <2>1. \A e \in nextId..last, j \in DOMAIN box : e \in Nat /\ (j > e => j \in nextId..last)
    BY <1>0, <1>5, <1>7
  <2>2. last + 1 \in Nat
    BY <1>0
  <2> HIDE DEF last
  <2>3. QED
    BY <1>0, <1>6, <2>1, <2>2, CapRows
<1>9. Older(mail, new, nextId)
  BY <1>0, <1>7 DEF Older, Capped, Restrict
<1>10. nextId' \in Ids /\ nextId' >= nextId /\ engaged' \subseteq 1..(nextId' - 1)
  BY <1>0, <1>2 DEF IInv, EngagedIds, Ids
<1>11. /\ call' \in [Clients -> {Idle} \cup SendCall \cup StatusCall]
       /\ \A d \in Clients : call'[d] = call[d] \/ call'[d] = Idle
       /\ registered' \subseteq Names /\ optOut' \subseteq registered'
  BY <1>2 DEF IInv, TypeOK
<1> HIDE DEF new, last
<1>12. QED
  BY <1>2, <1>8, <1>9, <1>10, <1>11, CallsKept

\* cancel_task marks the row and adds the notice it owes.
LEMMA CancelTaskInv ==
  ASSUME IInv, NEW i \in DOMAIN mail, NEW n \in Names, CancelTask(i, n)
  PROVE  IInv'
<1> DEFINE box == Withdraw(mail, i, NoId, clock, nextId)
           last == IF mail[i].read = NoTime THEN nextId ELSE nextId + 1
<1>0. /\ nextId \in Nat \ {0} /\ clock \in Nat /\ nextId \notin engaged
      /\ DOMAIN mail \subseteq 1..(nextId - 1)
      /\ mail[i].kind \notin SystemTypes /\ mail[i].cancelled = NoTime
      /\ mail[i].sent <= clock /\ mail[i].sent \in Nat
      /\ \A j \in DOMAIN mail : mail[j] \in Message
  BY DEF CancelTask, Withdrawable, IInv, TypeOK, EngagedIds, Ids, Rows, Message
<1>1. Rows(box, engaged, last, clock)
  <2>1. clock >= mail[i].sent /\ NoId \in Nat
    BY <1>0 DEF NoId
  <2>2. Rows(mail, engaged, nextId, clock)
    BY DEF IInv
  <2>3. QED
    BY <1>0, <2>1, <2>2, WithdrawRows
<1>2. /\ DOMAIN box \subseteq DOMAIN mail \cup {nextId}
      /\ \A j \in DOMAIN box : j < nextId => box[j].sent = mail[j].sent
  <2> DEFINE marked == MarkWithdrawn(mail, i, NoId, clock)
  <2>1. DOMAIN marked = DOMAIN mail /\ \A j \in DOMAIN mail : marked[j].sent = mail[j].sent
    <3>1. [mail[i] EXCEPT !.cancelled = clock, !.supersededBy = NoId].sent = mail[i].sent
      BY <1>0 DEF Message
    <3>2. QED
      BY <3>1 DEF MarkWithdrawn
  <2> HIDE DEF marked
  <2>2. box = IF mail[i].read = NoTime THEN marked
              ELSE Insert(marked, nextId, CancelNotice(mail[i], i, clock))
    BY DEF Withdraw, marked
  <2>3. CASE mail[i].read = NoTime
    BY <1>0, <2>1, <2>2, <2>3
  <2>4. CASE mail[i].read # NoTime
    BY <1>0, <2>1, <2>2, <2>4 DEF Insert
  <2>5. QED
    BY <2>3, <2>4
<1>3. Rows(mail', engaged, last, clock) /\ Older(mail, mail', nextId) /\ nextId' = last
  <2> HIDE DEF box
  <2>1. CASE mail[i].read = NoTime
    <3>1. mail' = box /\ nextId' = nextId
      BY <2>1 DEF CancelTask, box
    <3>2. QED
      BY <1>0, <1>1, <1>2, <2>1, <3>1 DEF Older
  <2>2. CASE mail[i].read # NoTime
    <3>1. mail' = Capped(box, {mail[i].to}, {nextId}) /\ nextId' = nextId + 1
      BY <2>2 DEF CancelTask, box
    <3>2. \A e \in {nextId}, j \in DOMAIN box : e \in Nat /\ (j > e => j \in {nextId})
      BY <1>0, <1>2
    <3>3. last \in Nat /\ last = nextId + 1
      BY <1>0, <2>2
    <3> HIDE DEF last
    <3>4. Rows(mail', engaged, last, clock)
      BY <1>0, <1>1, <3>1, <3>2, <3>3, CapRows
    <3>5. Older(mail, mail', nextId)
      BY <1>0, <1>2, <3>1 DEF Older, Capped, Restrict
    <3>6. QED
      BY <3>1, <3>3, <3>4, <3>5
  <2>3. QED
    BY <2>1, <2>2
<1>4. nextId' \in Ids /\ nextId' >= nextId /\ engaged \subseteq 1..(nextId' - 1)
  BY <1>0, <1>3 DEF IInv, EngagedIds, Ids
<1>5. /\ call' = call /\ registered' = registered /\ optOut' = optOut
      /\ clock' = clock /\ engaged' = engaged
  BY DEF CancelTask
<1> HIDE DEF last
<1>6. call' \in [Clients -> {Idle} \cup SendCall \cup StatusCall]
      /\ registered' \subseteq Names /\ optOut' \subseteq registered'
  BY <1>5 DEF IInv, TypeOK
<1>7. QED
  BY <1>3, <1>4, <1>5, <1>6, CallsKept

\* A status update changes two times of a row and nothing a link or a notice
\* depends on.
LEMMA StatusRowKeeps ==
  ASSUME NEW m \in Message, NEW now \in Nat
  PROVE  LET row == StatusRow(m, now) IN
         /\ row \in Message /\ row.read # NoTime
         /\ row.to = m.to /\ row.from = m.from
         /\ row.auth = m.auth /\ row.kind = m.kind
         /\ row.sent = m.sent /\ row.about = m.about
         /\ row.cancelled = m.cancelled
         /\ row.supersededBy = m.supersededBy
<1> DEFINE rd == IF m.read = NoTime THEN now ELSE m.read
<1>1. rd \in Times /\ rd # NoTime
  BY DEF Message, Times, NoTime
<1>2. StatusRow(m, now) = [m EXCEPT !.statusAt = now, !.read = rd]
  BY DEF StatusRow
<1> HIDE DEF rd
<1>3. QED
  BY <1>1, <1>2 DEF Message, Times

\* An accepted status update engages the recipient with a row that is read
\* and not withdrawn.
LEMMA CommitStatusInv ==
  ASSUME IInv, NEW c \in Clients, CommitStatus(c)
  PROVE  IInv'
<1> DEFINE k == call[c]
           row == StatusRow(mail[k.id], k.now)
<1>0. /\ k \in StatusCall /\ k.id \in DOMAIN mail /\ k.now \in Nat
      /\ mail[k.id].cancelled = NoTime
      /\ DOMAIN mail \subseteq 1..(nextId - 1) /\ nextId \in Nat /\ clock \in Nat
      /\ \A i \in DOMAIN mail : mail[i] \in Message
  BY DEF CommitStatus, StatusAccepted, IInv, TypeOK, SendCall, StatusCall, Idle, Ids
<1>1. /\ row \in Message /\ row.read # NoTime
      /\ row.to = mail[k.id].to /\ row.from = mail[k.id].from
      /\ row.auth = mail[k.id].auth /\ row.kind = mail[k.id].kind
      /\ row.sent = mail[k.id].sent /\ row.about = mail[k.id].about
      /\ row.cancelled = mail[k.id].cancelled
      /\ row.supersededBy = mail[k.id].supersededBy
  <2>1. mail[k.id] \in Message
    BY <1>0
  <2> HIDE DEF k
  <2>2. QED
    BY <1>0, <2>1, StatusRowKeeps
<1>2. mail' = [mail EXCEPT ![k.id] = row]
  BY DEF CommitStatus
<1> HIDE DEF row
<1>3. /\ DOMAIN mail' = DOMAIN mail /\ mail' \in [DOMAIN mail' -> Message]
      /\ mail'[k.id] = row
      /\ \A i \in DOMAIN mail : i # k.id => mail'[i] = mail[i]
  BY <1>0, <1>1, <1>2 DEF IInv, TypeOK
<1>4. engaged' = engaged \cup {k.id} /\ nextId' = nextId /\ clock' = clock
  BY DEF CommitStatus
<1>5. Rows(mail', engaged', nextId', clock)
  <2>1. Rows(mail, engaged, nextId, clock)
    BY DEF IInv
  <2>2. \A i \in DOMAIN mail :
           /\ mail'[i].to = mail[i].to /\ mail'[i].from = mail[i].from
           /\ mail'[i].auth = mail[i].auth /\ mail'[i].kind = mail[i].kind
           /\ mail'[i].sent = mail[i].sent /\ mail'[i].about = mail[i].about
           /\ mail'[i].cancelled = mail[i].cancelled
           /\ mail'[i].supersededBy = mail[i].supersededBy
           /\ mail[i].read # NoTime => mail'[i].read # NoTime
    BY <1>0, <1>1, <1>3
  <2>3. \A i \in engaged' \cap DOMAIN mail :
           i \in engaged \/ (mail'[i].read # NoTime /\ mail'[i].cancelled = NoTime)
    BY <1>0, <1>1, <1>3, <1>4
  <2> HIDE DEF k
  <2>4. Rows(mail', engaged', nextId, clock)
    BY <1>0, <1>3, <2>1, <2>2, <2>3, TouchRows
  <2>5. QED
    BY <1>4, <2>4
<1>6. Older(mail, mail', nextId)
  BY <1>0, <1>1, <1>3 DEF Older
<1>7. /\ call' \in [Clients -> {Idle} \cup SendCall \cup StatusCall]
      /\ \A d \in Clients : call'[d] = call[d] \/ call'[d] = Idle
      /\ registered' \subseteq Names /\ optOut' \subseteq registered'
  BY DEF CommitStatus, IInv, TypeOK
<1>8. nextId' \in Ids /\ nextId' >= nextId /\ engaged' \subseteq 1..(nextId' - 1)
  BY <1>0, <1>4 DEF IInv, TypeOK, EngagedIds, Ids
<1>9. QED
  BY <1>4, <1>5, <1>6, <1>7, <1>8, CallsKept

\* ack only marks a row read.
LEMMA AckInv ==
  ASSUME IInv, NEW i \in DOMAIN mail, Ack(i)
  PROVE  IInv'
<1> DEFINE row == [mail[i] EXCEPT !.read = clock]
<1>0. /\ mail[i] \in Message /\ clock \in Nat /\ nextId \in Nat
      /\ DOMAIN mail \subseteq 1..(nextId - 1)
  BY DEF IInv, TypeOK, Ids
<1>1. /\ row \in Message /\ row.read # NoTime
      /\ row.to = mail[i].to /\ row.from = mail[i].from
      /\ row.auth = mail[i].auth /\ row.kind = mail[i].kind
      /\ row.sent = mail[i].sent /\ row.about = mail[i].about
      /\ row.cancelled = mail[i].cancelled
      /\ row.supersededBy = mail[i].supersededBy
  BY <1>0 DEF Message, Times, NoTime
<1>2. mail' = [mail EXCEPT ![i] = row]
  BY DEF Ack
<1> HIDE DEF row
<1>3. /\ DOMAIN mail' = DOMAIN mail /\ mail' \in [DOMAIN mail' -> Message]
      /\ mail'[i] = row
      /\ \A j \in DOMAIN mail : j # i => mail'[j] = mail[j]
  BY <1>1, <1>2 DEF IInv, TypeOK
<1>4. /\ engaged' = engaged /\ nextId' = nextId /\ clock' = clock /\ call' = call
      /\ registered' = registered /\ optOut' = optOut
  BY DEF Ack
<1>5. Rows(mail', engaged', nextId', clock)
  <2>1. \A j \in DOMAIN mail :
           /\ mail'[j].to = mail[j].to /\ mail'[j].from = mail[j].from
           /\ mail'[j].auth = mail[j].auth /\ mail'[j].kind = mail[j].kind
           /\ mail'[j].sent = mail[j].sent /\ mail'[j].about = mail[j].about
           /\ mail'[j].cancelled = mail[j].cancelled
           /\ mail'[j].supersededBy = mail[j].supersededBy
           /\ mail[j].read # NoTime => mail'[j].read # NoTime
    BY <1>1, <1>3
  <2>2. Rows(mail', engaged, nextId, clock)
    <3>1. Rows(mail, engaged, nextId, clock)
      BY DEF IInv
    <3>2. \A j \in engaged \cap DOMAIN mail :
             j \in engaged \/ (mail'[j].read # NoTime /\ mail'[j].cancelled = NoTime)
      OBVIOUS
    <3>3. QED
      BY <1>0, <1>3, <2>1, <3>1, <3>2, TouchRows
  <2>3. QED
    BY <1>4, <2>2
<1>6. Older(mail, mail', nextId)
  BY <1>1, <1>3 DEF Older
<1>7. QED
  BY <1>4, <1>5, <1>6, CallsKept DEF IInv, TypeOK, EngagedIds, Ids

\* ReadPeek and ListThreads: only the purge.
LEMMA PurgeInv ==
  ASSUME IInv, NEW names, mail' = Purged(mail, names),
         UNCHANGED <<nextId, registered, optOut, clock, call, engaged>>
  PROVE  IInv'
<1>1. Rows(mail', engaged', nextId', clock)
  BY PurgeRows DEF IInv, TypeOK, Ids
<1>2. Older(mail, mail', nextId)
  BY DEF Older, Purged, Restrict
<1>3. QED
  BY <1>1, <1>2, CallsKept DEF IInv, TypeOK, EngagedIds, Ids

\* A read by the owner purges, marks, writes receipts and trims the inboxes
\* of those who get one.
LEMMA ReadOwnedInv ==
  ASSUME IInv, NEW n \in Names, NEW r \in ReadCalls, ReadOwned(n, r)
  PROVE  IInv'
<1> DEFINE box == Purged(mail, {n})
           ids == ToMark(box, n, r)
           seen == {i \in Returned(box, n, r) : Active(box[i])}
           marked == MarkRead(box, ids)
           tasks == Receipted(box, n, ids)
           origins == {box[i].from : i \in tasks}
           more == nextId + Cardinality(tasks)
           full == WithReceipts(marked, tasks, r.oldest)
<1>0. /\ nextId \in Nat \ {0} /\ clock \in Nat /\ r.oldest \in BOOLEAN
      /\ DOMAIN mail \subseteq 1..(nextId - 1)
  BY ConstantsAssumption DEF IInv, TypeOK, Ids, ReadCall
<1>1. /\ mail' = Capped(WithReceipts(MarkRead(box, ids),
                          Receipted(box, n, ids), r.oldest), origins, {})
      /\ nextId' = more /\ engaged' = engaged \cup seen
      /\ UNCHANGED <<registered, optOut, clock, call>>
  BY DEF ReadOwned
<1>2. Rows(box, engaged, nextId, clock)
  BY <1>0, PurgeRows DEF IInv
<1>3. DOMAIN box \subseteq DOMAIN mail /\ \A i \in DOMAIN box : box[i] = mail[i]
  BY DEF Purged, Restrict
<1>4. ids \subseteq DOMAIN box /\ seen \subseteq DOMAIN box /\ tasks \subseteq ids
  BY DEF ToMark, Returned, Matching, Inbox, Receipted
<1>5. \A i \in seen : box[i].cancelled = NoTime /\ (box[i].read = NoTime => i \in ids)
  BY DEF ToMark, Active
<1> HIDE DEF box, ids, seen, tasks
<1>6. Rows(marked, engaged \cup seen, nextId, clock)
  <2>1. \A i \in DOMAIN box : box[i] \in Message
    BY <1>2 DEF Rows, RowsType
  <2>2. \A i \in DOMAIN box :
          LET row == [box[i] EXCEPT !.read = clock] IN
          /\ row \in Message /\ row.read # NoTime
          /\ row.to = box[i].to /\ row.from = box[i].from
          /\ row.auth = box[i].auth /\ row.kind = box[i].kind
          /\ row.sent = box[i].sent /\ row.about = box[i].about
          /\ row.cancelled = box[i].cancelled
          /\ row.supersededBy = box[i].supersededBy
    BY <1>0, <2>1 DEF Message, Times, NoTime
  <2>3. /\ DOMAIN marked = DOMAIN box
        /\ \A i \in DOMAIN box : marked[i] = IF i \in ids
             THEN [box[i] EXCEPT !.read = clock] ELSE box[i]
        /\ marked = [i \in DOMAIN marked |-> marked[i]]
    BY DEF MarkRead
  <2> HIDE DEF marked
  <2>4. \A i \in DOMAIN box : marked[i] \in Message
    BY <2>1, <2>2, <2>3
  <2>5. marked \in [DOMAIN marked -> Message]
    BY <2>3, <2>4
  <2>6. \A i \in DOMAIN box :
           /\ marked[i].to = box[i].to /\ marked[i].from = box[i].from
           /\ marked[i].auth = box[i].auth /\ marked[i].kind = box[i].kind
           /\ marked[i].sent = box[i].sent /\ marked[i].about = box[i].about
           /\ marked[i].cancelled = box[i].cancelled
           /\ marked[i].supersededBy = box[i].supersededBy
           /\ box[i].read # NoTime => marked[i].read # NoTime
    BY <2>2, <2>3
  <2>7. \A i \in (engaged \cup seen) \cap DOMAIN box :
           i \in engaged \/ (marked[i].read # NoTime /\ marked[i].cancelled = NoTime)
    <3> SUFFICES ASSUME NEW i \in seen, i \in DOMAIN box
                 PROVE  marked[i].read # NoTime /\ marked[i].cancelled = NoTime
      OBVIOUS
    <3>1. marked[i].cancelled = NoTime
      BY <1>5, <2>6
    <3>2. CASE i \in ids
      <4>1. marked[i] = [box[i] EXCEPT !.read = clock]
        BY <2>3, <3>2
      <4>2. [box[i] EXCEPT !.read = clock].read # NoTime
        BY <2>2
      <4>3. QED
        BY <3>1, <4>1, <4>2
    <3>3. CASE i \notin ids
      BY <1>5, <2>6, <3>3
    <3>4. QED
      BY <3>1, <3>2, <3>3
  <2>8. QED
    BY <1>0, <1>2, <2>3, <2>5, <2>6, <2>7, TouchRows
<1>7. DOMAIN marked = DOMAIN box /\ \A i \in DOMAIN box : marked[i].sent = mail[i].sent
  <2>1. \A i \in DOMAIN box : box[i] \in Message
    BY <1>2 DEF Rows, RowsType
  <2>2. \A i \in DOMAIN box : [box[i] EXCEPT !.read = clock].sent = box[i].sent
    BY <2>1 DEF Message
  <2>3. QED
    BY <1>3, <2>2 DEF MarkRead
<1>8. engaged \cup seen \subseteq 1..(nextId - 1)
  BY <1>0, <1>3, <1>4 DEF IInv, EngagedIds
<1> HIDE DEF marked
<1>9. Cardinality(tasks) \in Nat /\ Rows(full, engaged \cup seen, more, clock)
  <2>1. tasks \in SUBSET DOMAIN marked
    BY <1>4, <1>7
  <2>2. QED
    BY <1>0, <1>6, <1>8, <2>1, ReceiptRows DEF IInv
<1>10. /\ DOMAIN marked \subseteq DOMAIN full
       /\ \A i \in DOMAIN full : i < nextId =>
             i \in DOMAIN mail /\ full[i].sent = mail[i].sent
  <2>1. \A i \in tasks : ReceiptId(marked, tasks, i, r.oldest) >= nextId
    <3>1. \A i \in DOMAIN marked : marked[i].sent \in Nat
      BY <1>3, <1>7 DEF IInv, TypeOK, Message
    <3>2. tasks \in SUBSET DOMAIN marked /\ DOMAIN marked \subseteq 1..(nextId - 1)
      BY <1>0, <1>3, <1>4, <1>7
    <3>3. \A i \in tasks : ReceiptId(marked, tasks, i, r.oldest)
                             \in nextId..(nextId + Cardinality(tasks) - 1)
      BY <1>0, <3>1, <3>2, ReceiptIds
    <3>4. QED
      BY <1>0, <3>3
  <2> DEFINE new == {ReceiptId(marked, tasks, i, r.oldest) : i \in tasks}
             task(id) == CHOOSE i \in tasks : ReceiptId(marked, tasks, i, r.oldest) = id
  <2>2. full = [id \in DOMAIN marked \cup new |->
                  IF id \in new THEN Receipt(marked[task(id)], task(id)) ELSE marked[id]]
    BY DEF WithReceipts
  <2>3. \A id \in new : id >= nextId
    BY <2>1
  <2>4. \A id \in DOMAIN marked : id \in 1..(nextId - 1)
    BY <1>0, <1>3, <1>7
  <2> HIDE DEF new, task, full
  <2>5. \A id \in DOMAIN full : id < nextId => id \notin new
    BY <1>0, <1>9, <2>3 DEF Rows, RowsType
  <2>6. QED
    BY <1>3, <1>7, <2>2, <2>5
<1> HIDE DEF full
<1>11. Rows(mail', engaged', more, clock)
  <2>1. more \in Nat
    BY <1>0, <1>9
  <2> HIDE DEF more, origins
  <2>2. Rows(Capped(full, origins, {}), engaged \cup seen, more, clock)
    BY <1>0, <1>9, <2>1, CapRows
  <2>3. QED
    BY <1>1, <2>2 DEF full, marked, tasks
<1>12. Older(mail, mail', nextId)
  <2>1. mail' = Capped(full, origins, {})
    BY <1>1 DEF full, marked, tasks
  <2>2. DOMAIN mail' \subseteq DOMAIN full /\ \A i \in DOMAIN mail' : mail'[i] = full[i]
    BY <2>1 DEF Capped, Restrict
  <2>3. QED
    BY <1>10, <2>2 DEF Older
<1>13. nextId' \in Ids /\ nextId' >= nextId /\ engaged' \subseteq 1..(nextId' - 1)
  BY <1>0, <1>1, <1>8, <1>9 DEF Ids
<1>14. /\ call' \in [Clients -> {Idle} \cup SendCall \cup StatusCall]
       /\ registered' \subseteq Names /\ optOut' \subseteq registered'
  BY <1>1 DEF IInv, TypeOK
<1> HIDE DEF more
<1>15. QED
  BY <1>1, <1>11, <1>12, <1>13, <1>14, CallsKept

(***************************************************************************)
(* Theorems about types and withdrawn work                                 *)
(***************************************************************************)
\* Every step of the mailbox preserves the invariant.
LEMMA NextInv == IInv /\ [Next]_vars => IInv'
<1> SUFFICES ASSUME IInv, [Next]_vars
             PROVE  IInv'
  OBVIOUS
<1>1. ASSUME NEW c \in Clients, BeginSend(c) PROVE IInv'
  BY <1>1, BeginSendInv
<1>2. ASSUME NEW c \in Clients, CommitPlainSend(c) PROVE IInv'
  BY <1>2, CommitPlainSendInv
<1>3. ASSUME NEW c \in Clients, CommitSupersede(c) PROVE IInv'
  BY <1>3, CommitSupersedeInv
<1>4. ASSUME NEW c \in Clients, AbortSend(c) \/ RejectStatus(c) PROVE IInv'
  <2>1. /\ call' = [call EXCEPT ![c] = Idle]
        /\ UNCHANGED <<mail, nextId, registered, optOut, clock, engaged>>
    BY <1>4 DEF AbortSend, RejectStatus
  <2>2. Older(mail, mail', nextId)
    BY <2>1 DEF Older
  <2>3. QED
    BY <2>1, <2>2, CallsKept DEF IInv, TypeOK, EngagedIds, Ids
<1>5. ASSUME NEW c \in Clients, BeginStatus(c) PROVE IInv'
  BY <1>5, BeginStatusInv
<1>6. ASSUME NEW c \in Clients, CommitStatus(c) PROVE IInv'
  BY <1>6, CommitStatusInv
<1>7. ASSUME NEW i \in DOMAIN mail, Ack(i) PROVE IInv'
  BY <1>7, AckInv
<1>8. ASSUME NEW i \in DOMAIN mail, NEW n \in Names, CancelTask(i, n) PROVE IInv'
  BY <1>8, CancelTaskInv
<1>9. ASSUME NEW n \in Names, NEW r \in ReadCalls, ReadOwned(n, r) PROVE IInv'
  BY <1>9, ReadOwnedInv
<1>10. ASSUME NEW n \in Names, ReadPeek(n) PROVE IInv'
  BY <1>10, PurgeInv DEF ReadPeek
<1>11. ASSUME ListThreads PROVE IInv'
  BY <1>11, PurgeInv DEF ListThreads
<1>12. ASSUME NEW n \in Names,
              Register(n) \/ Unregister(n) \/ \E enabled \in Settings : SetReceipts(n, enabled)
       PROVE  IInv'
  <2>1. UNCHANGED <<mail, nextId, clock, call, engaged>>
    BY <1>12 DEF Register, Unregister, SetReceipts
  <2>2. registered' \subseteq Names /\ optOut' \subseteq registered'
    BY <1>12 DEF Register, Unregister, SetReceipts, IInv, TypeOK
  <2>3. Older(mail, mail', nextId)
    BY <2>1 DEF Older
  <2>4. QED
    BY <2>1, <2>2, <2>3, CallsKept DEF IInv, TypeOK, EngagedIds, Ids
<1>13. ASSUME Tick PROVE IInv'
  BY <1>13, TickInv
<1>14. CASE UNCHANGED vars
  <2>1. Older(mail, mail', nextId)
    BY <1>14 DEF vars, Older
  <2>2. QED
    BY <1>14, <2>1, CallsKept DEF vars, IInv, TypeOK, EngagedIds, Ids
<1>15. QED
  BY <1>1, <1>2, <1>3, <1>4, <1>5, <1>6, <1>7, <1>8, <1>9, <1>10, <1>11,
     <1>12, <1>13, <1>14 DEF Next

\* The inductive invariant holds in every reachable state of the mailbox.
THEOREM Invariant == Spec => []IInv
<1>1. Init => IInv
  BY InitInv
<1>2. IInv /\ [Next]_vars => IInv'
  BY NextInv
<1>3. QED
  BY <1>1, <1>2, PTL DEF Spec

\* Every variable of the message table keeps its type, whatever the names,
\* clients, cap and TTL.
THEOREM MailboxTypeCorrect == Spec => []TypeOK
<1>1. IInv => TypeOK
  BY DEF IInv
<1>2. QED
  BY <1>1, Invariant, PTL

\* superseded_by never dangles: the replacement that _withdraw recorded stays
\* stored at least as long as the row it replaced, for every cap and TTL.
THEOREM SupersedeLinkHolds == Spec => []SupersedeLink
<1>1. IInv => SupersedeLink
  BY DEF IInv, Rows, LinksOK, LinkTo, SupersedeLink
<1>2. QED
  BY <1>1, Invariant, PTL

\* Nobody who was shown a message as work is left without a stop notice when
\* it is withdrawn, for every cap and TTL.
THEOREM StopNoticeHolds == Spec => []StopNotice
<1>1. IInv => StopNotice
  BY DEF IInv, Rows, NoticesOK, NoticeFor, StopNotice
<1>2. QED
  BY <1>1, Invariant, PTL

(***************************************************************************)
(* Part two: what an operation does to the table                           *)
(***************************************************************************)
\* StatusInTime, of one row.
InTime(m) ==
  m.statusAt # NoTime =>
    /\ m.read # NoTime
    /\ m.sent <= m.statusAt
    /\ m.deadline = NoTime \/ m.statusAt < m.deadline

\* What a stored row may become: who wrote what to whom, and when, stays; it
\* is read once, and only for a registered recipient; once withdrawn, it
\* stays as it is.
Continues(old, new) ==
  /\ new.to = old.to /\ new.from = old.from /\ new.auth = old.auth
  /\ new.kind = old.kind /\ new.sent = old.sent /\ new.about = old.about
  /\ new.read # old.read =>
       old.read = NoTime /\ new.read # NoTime /\ old.to \in registered
  /\ old.cancelled # NoTime =>
       /\ new.cancelled = old.cancelled
       /\ new.supersededBy = old.supersededBy
       /\ new.statusAt = old.statusAt
  /\ InTime(old) => InTime(new)

\* r is the only new receipt for a task this step marks read.
ReceiptFor(box, r) ==
  LET i == box[r].about IN
  /\ i \in DOMAIN mail
  /\ mail[i].read = NoTime /\ mail[i].auth /\ mail[i].kind = "task"
  /\ i \in DOMAIN box => box[i].read # NoTime /\ box[i].read <= box[r].sent
  /\ box[r].to = mail[i].from /\ box[r].from = mail[i].to
  /\ \A s \in DOMAIN box \ DOMAIN mail :
       box[s].kind = "receipt" /\ box[s].about = i => s = r

\* A new row: its id was never used.
NewRow(box, r) ==
  /\ r >= nextId
  /\ box[r].statusAt = NoTime
  /\ box[r].kind = "receipt" /\ "receipt" \notin SentTypes => ReceiptFor(box, r)

\* box is what an operation has made of the table, with top its next id.
Written(box, top) ==
  /\ top \in Nat /\ top >= nextId
  /\ box = [i \in DOMAIN box |-> box[i]]
  /\ DOMAIN box \subseteq 1..(top - 1)
  /\ \A i \in DOMAIN mail \ DOMAIN box : Expired(mail[i])
  /\ \A i \in DOMAIN mail \cap DOMAIN box : Continues(mail[i], box[i])
  /\ \A i \in DOMAIN box \ DOMAIN mail : NewRow(box, i)

\* The trim that follows covers every inbox that got a row, and exempts at
\* most the two newest of one.
Trimmed(box, names, exempt) ==
  /\ mail' = Capped(box, names, exempt)
  /\ \A i \in DOMAIN box \ DOMAIN mail : box[i].to \in names
  /\ \A e \in exempt : Newer(box, e) \subseteq exempt /\ Cardinality(Newer(box, e)) <= 1

Wrote ==
  \E box, names, exempt : Written(box, nextId') /\ Trimmed(box, names, exempt)

\* A status call that sampled the clock names a row sent before the sample.
StatusSampled ==
  \A c \in Clients : call[c].op = "status" =>
    /\ call[c].id < nextId
    /\ call[c].id \in DOMAIN mail => mail[call[c].id].sent <= call[c].now

\* The inductive invariant of part two.
Safe ==
  IInv /\ StatusSampled /\ StatusInTime /\ InboxBounded /\ ReceiptTruthful

(***************************************************************************)
(* Counting newer rows                                                     *)
(***************************************************************************)
\* Any set of stored ids is finite, and so has a cardinality.
LEMMA IdsFinite ==
  ASSUME NEW n \in Nat, NEW S, S \subseteq 1..n
  PROVE  IsFiniteSet(S) /\ Cardinality(S) \in Nat
<1>1. IsFiniteSet(1..n) /\ S \in SUBSET (1..n)
  BY FS_Interval
<1>2. QED
  BY <1>1, FS_Subset, FS_CardinalityType

\* A row that the trim drops leaves the cap's worth of newer rows behind: the
\* greatest row that went has at least Cap newer ones, and they all stayed.
LEMMA CapKeepsNewest ==
  ASSUME NEW n \in Nat, NEW box, NEW names, NEW exempt,
         DOMAIN box \subseteq 1..n,
         NEW i \in DOMAIN box, i \notin DOMAIN Capped(box, names, exempt)
  PROVE  /\ Cap > 0
         /\ LET left == Capped(box, names, exempt) IN
            Cardinality({j \in Inbox(left, box[i].to) : j > i}) >= Cap
<1> DEFINE left == Capped(box, names, exempt)
           newer == Newer(box, i)
           stay == {j \in newer : Cardinality(Newer(box, j)) < Cap}
           there == {j \in Inbox(left, box[i].to) : j > i}
<1>1. /\ DOMAIN left = {j \in DOMAIN box :
                    \/ box[j].to \notin names \/ j \in exempt
                    \/ Cap = 0 \/ Cardinality(Newer(box, j)) < Cap}
      /\ \A j \in DOMAIN left : left[j] = box[j]
  BY DEF Capped, Restrict
<1>2. Cap \in Nat /\ Cap > 0 /\ ~(Cardinality(newer) < Cap)
  BY <1>1, ConstantsAssumption
<1>3. /\ IsFiniteSet(newer) /\ Cardinality(newer) \in Nat
      /\ IsFiniteSet(stay) /\ Cardinality(stay) \in Nat
      /\ IsFiniteSet(there) /\ Cardinality(there) \in Nat
  <2>1. newer \subseteq 1..n /\ stay \subseteq 1..n /\ there \subseteq 1..n
    BY <1>1 DEF Newer, Inbox
  <2> HIDE DEF newer, stay, there
  <2>2. QED
    BY <2>1, IdsFinite
<1>4. stay \in SUBSET there
  BY <1>1 DEF Newer, Inbox
<1>5. Cardinality(stay) >= Cap
  <2> SUFFICES ASSUME Cardinality(stay) < Cap
               PROVE  FALSE
    BY <1>2, <1>3
  <2> DEFINE gone == newer \ stay
  <2>1. gone # {}
    <3> SUFFICES ASSUME newer \subseteq stay
                 PROVE  FALSE
      OBVIOUS
    <3>1. newer = stay
      OBVIOUS
    <3>2. QED
      BY <1>2, <3>1
  <2>2. gone \in SUBSET (0..n) /\ gone \subseteq Nat
    BY DEF Newer, Inbox
  <2> HIDE DEF gone
  <2>3. PICK m \in gone : \A j \in gone : j <= m
    BY <2>1, <2>2, GreatestOf
  <2>4. /\ m \in newer /\ ~(Cardinality(Newer(box, m)) < Cap)
        /\ m \in Nat /\ m > i /\ box[m].to = box[i].to
    BY <2>2, <2>3 DEF gone, Newer, Inbox
  <2>5. Newer(box, m) \in SUBSET stay
    <3> SUFFICES ASSUME NEW j \in Newer(box, m)
                 PROVE  j \in stay
      OBVIOUS
    <3>1. j \in newer /\ j > m /\ j \in Nat
      BY <2>4 DEF Newer, Inbox
    <3>2. j \notin gone
      BY <2>3, <2>4, <3>1
    <3> HIDE DEF newer, stay
    <3>3. QED
      BY <3>1, <3>2 DEF gone
  <2>6. Cardinality(Newer(box, m)) <= Cardinality(stay)
    BY <1>3, <2>5, FS_Subset
  <2>7. Newer(box, m) \subseteq 1..n
    BY DEF Newer, Inbox
  <2>8. Cardinality(Newer(box, m)) \in Nat
    BY <2>7, IdsFinite
  <2> HIDE DEF stay
  <2>9. QED
    BY <1>2, <1>3, <2>4, <2>6, <2>8
<1>6. Cardinality(stay) <= Cardinality(there)
  BY <1>3, <1>4, FS_Subset
<1> HIDE DEF stay, there
<1>7. Cardinality(there) >= Cap
  BY <1>2, <1>3, <1>5, <1>6
<1>8. QED
  BY <1>2, <1>7 DEF there

\* After the trim of an inbox, its oldest row has fewer than Cap newer ones,
\* so there are at most Cap.
LEMMA CapBounds ==
  ASSUME NEW n \in Nat, NEW box, NEW names, NEW exempt, NEW name \in names,
         DOMAIN box \subseteq 1..n, Cap > 1,
         \A e \in exempt : Cardinality(Newer(box, e)) <= 1
  PROVE  Cardinality(Inbox(Capped(box, names, exempt), name)) <= Cap
<1> DEFINE left == Capped(box, names, exempt)
           there == Inbox(left, name)
<1>1. /\ DOMAIN left = {j \in DOMAIN box :
                    \/ box[j].to \notin names \/ j \in exempt
                    \/ Cap = 0 \/ Cardinality(Newer(box, j)) < Cap}
      /\ \A j \in DOMAIN left : left[j] = box[j]
  BY DEF Capped, Restrict
<1>2. Cap \in Nat
  BY ConstantsAssumption
<1>3. there \subseteq 1..n
  BY <1>1 DEF Inbox
<1>4. CASE there = {}
  BY <1>2, <1>4, FS_EmptySet
<1>5. CASE there # {}
  <2>1. there \in SUBSET Nat
    BY <1>3
  <2> HIDE DEF there, left
  <2>2. PICK m \in there : \A j \in there : m <= j
    BY <1>5, <2>1, LeastOf
  <2>3. m \in DOMAIN box /\ box[m].to = name
    BY <1>1 DEF there, Inbox
  <2>4. Newer(box, m) \subseteq 1..n
    BY DEF Newer, Inbox
  <2>5. IsFiniteSet(Newer(box, m)) /\ Cardinality(Newer(box, m)) \in Nat
    BY <2>4, IdsFinite
  <2>6. Cardinality(Newer(box, m)) < Cap
    <3>1. \/ m \in exempt \/ Cardinality(Newer(box, m)) < Cap
      BY <1>1, <2>3 DEF there, Inbox
    <3>2. QED
      BY <1>2, <2>5, <3>1
  <2>7. there \in SUBSET (Newer(box, m) \cup {m})
    <3> SUFFICES ASSUME NEW j \in there, j # m
                 PROVE  j \in Newer(box, m)
      OBVIOUS
    <3>1. j \in DOMAIN box /\ box[j].to = name
      BY <1>1 DEF there, Inbox
    <3>2. j \in Nat /\ m \in Nat /\ m <= j
      BY <2>1, <2>2
    <3>3. QED
      BY <2>3, <3>1, <3>2 DEF Newer, Inbox
  <2>8. /\ IsFiniteSet(Newer(box, m) \cup {m})
        /\ Cardinality(Newer(box, m) \cup {m}) <= Cap
        /\ Cardinality(Newer(box, m) \cup {m}) \in Nat
    <3>1. /\ IsFiniteSet(Newer(box, m) \cup {m})
          /\ Cardinality(Newer(box, m) \cup {m}) =
               IF m \in Newer(box, m) THEN Cardinality(Newer(box, m))
               ELSE Cardinality(Newer(box, m)) + 1
      BY <2>5, FS_AddElement
    <3>2. QED
      BY <1>2, <2>5, <2>6, <3>1
  <2>9. Cardinality(there) <= Cardinality(Newer(box, m) \cup {m})
    BY <2>7, <2>8, FS_Subset
  <2>10. Cardinality(there) \in Nat
    BY <1>3, IdsFinite
  <2>11. QED
    BY <1>2, <2>8, <2>9, <2>10 DEF there, left
<1>6. QED
  BY <1>4, <1>5

(***************************************************************************)
(* What each step of a transaction has written                             *)
(***************************************************************************)
\* Nothing written yet.
LEMMA MailWritten ==
  ASSUME IInv
  PROVE  Written(mail, nextId)
<1>1. nextId \in Nat /\ DOMAIN mail \subseteq 1..(nextId - 1) /\ nextId >= nextId
  BY DEF IInv, TypeOK, Ids
<1>2. mail = [i \in DOMAIN mail |-> mail[i]]
  BY DEF IInv, TypeOK
<1>3. \A i \in DOMAIN mail : Continues(mail[i], mail[i])
  BY DEF Continues
<1>4. QED
  BY <1>1, <1>2, <1>3 DEF Written

\* The TTL purge loses expired rows only.
LEMMA PurgeWritten ==
  ASSUME IInv, NEW names
  PROVE  Written(Purged(mail, names), nextId)
<1> DEFINE left == Purged(mail, names)
<1>1. /\ DOMAIN left = {i \in DOMAIN mail : ~(mail[i].to \in names /\ Expired(mail[i]))}
      /\ \A i \in DOMAIN left : left[i] = mail[i]
      /\ left = [i \in DOMAIN left |-> left[i]]
  BY DEF Purged, Restrict
<1> HIDE DEF left
<1>2. \A i \in DOMAIN mail : Continues(mail[i], mail[i])
  BY DEF Continues
<1>3. QED
  BY <1>1, <1>2 DEF Written, left, IInv, TypeOK, Ids

\* A row that is not a receipt of the store's goes in under the next id.
LEMMA InsertWritten ==
  ASSUME IInv, NEW box, NEW top, NEW m, Written(box, top),
         m.statusAt = NoTime, m.kind = "receipt" => "receipt" \in SentTypes
  PROVE  Written(Insert(box, top, m), top + 1)
<1> DEFINE new == Insert(box, top, m)
<1>1. /\ top \in Nat \ {0} /\ nextId \in Nat /\ top >= nextId
      /\ DOMAIN box \subseteq 1..(top - 1)
  BY DEF Written, IInv, TypeOK, Ids
<1>0. top \notin DOMAIN mail
  BY <1>1 DEF IInv, TypeOK
<1>2. /\ DOMAIN new = DOMAIN box \cup {top}
      /\ new[top] = m
      /\ \A i \in DOMAIN box : new[i] = box[i]
      /\ new = [i \in DOMAIN new |-> new[i]]
  BY <1>1 DEF Insert
<1> HIDE DEF new
<1>3. DOMAIN new \subseteq 1..(top + 1 - 1) /\ top + 1 \in Nat /\ top + 1 >= nextId
  BY <1>1, <1>2
<1>4. \A i \in DOMAIN new \ DOMAIN mail : NewRow(new, i)
  <2> SUFFICES ASSUME NEW i \in DOMAIN new \ DOMAIN mail
               PROVE  NewRow(new, i)
    OBVIOUS
  <2>1. CASE i = top
    BY <1>1, <1>2, <2>1 DEF NewRow
  <2>2. CASE i # top
    <3>1. i \in DOMAIN box /\ new[i] = box[i] /\ NewRow(box, i)
      BY <1>2, <2>2 DEF Written
    <3>2. ASSUME ReceiptFor(box, i), "receipt" \notin SentTypes
          PROVE  ReceiptFor(new, i)
      BY <1>0, <1>2, <3>1, <3>2 DEF ReceiptFor
    <3>3. QED
      BY <3>1, <3>2 DEF NewRow
  <2>3. QED
    BY <2>1, <2>2
<1>5. \A i \in DOMAIN mail \cap DOMAIN new : Continues(mail[i], new[i])
  BY <1>0, <1>2 DEF Written
<1>6. \A i \in DOMAIN mail \ DOMAIN new : Expired(mail[i])
  BY <1>2 DEF Written
<1>7. QED
  BY <1>2, <1>3, <1>4, <1>5, <1>6 DEF Written, new

\* Rows already there change, each as Continues allows.
LEMMA ChangeWritten ==
  ASSUME NEW box, NEW top, NEW new, Written(box, top),
         DOMAIN new = DOMAIN box, new = [i \in DOMAIN new |-> new[i]],
         \A i \in DOMAIN box \ DOMAIN mail : new[i] = box[i],
         \A i \in DOMAIN box \cap DOMAIN mail :
           /\ Continues(mail[i], new[i])
           /\ box[i].read # NoTime => new[i].read = box[i].read
  PROVE  Written(new, top)
<1>1. ASSUME NEW i \in DOMAIN new \ DOMAIN mail
      PROVE  NewRow(new, i)
  <2>1. new[i] = box[i] /\ NewRow(box, i)
    BY <1>1 DEF Written
  <2>2. ASSUME ReceiptFor(box, i)
        PROVE  ReceiptFor(new, i)
    BY <2>1, <2>2 DEF ReceiptFor
  <2>3. QED
    BY <2>1, <2>2 DEF NewRow
<1>2. QED
  BY <1>1 DEF Written

\* read's receipts: one row for each task just marked.
LEMMA ReceiptsWritten ==
  ASSUME IInv, NEW box, NEW tasks \in SUBSET DOMAIN box, NEW oldest \in BOOLEAN,
         Written(box, nextId), DOMAIN box \subseteq DOMAIN mail,
         \A i \in DOMAIN box : box[i].sent \in Nat,
         \A i \in tasks :
           /\ mail[i].read = NoTime /\ mail[i].auth /\ mail[i].kind = "task"
           /\ box[i].read = clock
  PROVE  /\ Written(WithReceipts(box, tasks, oldest), nextId + Cardinality(tasks))
         /\ \A i \in DOMAIN WithReceipts(box, tasks, oldest) \ DOMAIN mail :
              \E t \in tasks : WithReceipts(box, tasks, oldest)[i].to = box[t].from
<1> DEFINE new == WithReceipts(box, tasks, oldest)
           ids == {ReceiptId(box, tasks, i, oldest) : i \in tasks}
           task(id) == CHOOSE i \in tasks : ReceiptId(box, tasks, i, oldest) = id
           more == nextId + Cardinality(tasks)
<1>0. /\ nextId \in Nat \ {0} /\ clock \in Nat /\ clock # NoTime
      /\ DOMAIN box \subseteq 1..(nextId - 1) /\ DOMAIN mail \subseteq 1..(nextId - 1)
  BY DEF IInv, TypeOK, Ids, Written, NoTime
<1>1. Cardinality(tasks) \in Nat
  BY <1>0, ReceiptIds
<1>14. ids \subseteq nextId..(nextId + Cardinality(tasks) - 1)
  BY <1>0, ReceiptIds
<1>2. \A id \in ids : task(id) \in tasks /\ ReceiptId(box, tasks, task(id), oldest) = id
  OBVIOUS
<1>3. new = [id \in DOMAIN box \cup ids |->
               IF id \in ids THEN Receipt(box[task(id)], task(id)) ELSE box[id]]
  BY DEF WithReceipts
<1>4. \A id \in ids : id >= nextId /\ id \notin DOMAIN box /\ id \notin DOMAIN mail
  BY <1>0, <1>1, <1>14
<1> DEFINE about(id) == task(id)
<1>5. /\ \A id \in ids :
           /\ about(id) \in tasks
           /\ ReceiptId(box, tasks, about(id), oldest) = id
           /\ new[id] = Receipt(box[about(id)], about(id))
      /\ \A i \in DOMAIN box : new[i] = box[i]
      /\ DOMAIN new = DOMAIN box \cup ids
      /\ new = [i \in DOMAIN new |-> new[i]]
  <2> HIDE DEF ids, task, new
  <2>1. QED
    BY <1>2, <1>3, <1>4
<1> HIDE DEF ids, new, about, task
<1>6. more \in Nat /\ more >= nextId /\ DOMAIN new \subseteq 1..(more - 1)
  <2>1. more \in Nat /\ more >= nextId
    BY <1>0, <1>1
  <2>2. ids \subseteq 1..(more - 1)
    BY <1>0, <1>1, <1>14
  <2> HIDE DEF more
  <2>3. QED
    BY <1>0, <1>5, <2>1, <2>2
<1>7. DOMAIN new \ DOMAIN mail = ids
  BY <1>4, <1>5
<1>8. ASSUME NEW r \in ids
      PROVE  NewRow(new, r)
  <2> DEFINE t == about(r)
  <2>1. /\ new[r].about = t /\ new[r].sent = clock /\ new[r].statusAt = NoTime
        /\ new[r].to = box[t].from /\ new[r].from = box[t].to
    BY <1>5 DEF Receipt
  <2>2. /\ t \in tasks /\ t \in DOMAIN box /\ t \in DOMAIN mail
        /\ new[t] = box[t] /\ t \in DOMAIN new
    BY <1>5
  <2>3. box[t].from = mail[t].from /\ box[t].to = mail[t].to
    BY <2>2 DEF Written, Continues
  <2>4. \A s \in ids : new[s].about = t => s = r
    <3> TAKE s \in ids
    <3>1. new[s].about = about(s)
      BY <1>5 DEF Receipt
    <3>2. new[s].about = t => about(s) = about(r)
      BY <3>1
    <3>3. about(s) = about(r) =>
             ReceiptId(box, tasks, about(s), oldest) = ReceiptId(box, tasks, about(r), oldest)
      OBVIOUS
    <3>4. about(s) = about(r) => s = r
      BY <1>5, <3>3
    <3>5. QED
      BY <3>2, <3>4
  <2> HIDE DEF t
  <2>5. ReceiptFor(new, r)
    BY <1>0, <1>7, <2>1, <2>2, <2>3, <2>4 DEF ReceiptFor
  <2>6. QED
    BY <1>4, <2>1, <2>5 DEF NewRow
<1>9. \A i \in DOMAIN mail \cap DOMAIN new : Continues(mail[i], new[i])
  BY <1>4, <1>5 DEF Written
<1>10. \A i \in DOMAIN mail \ DOMAIN new : Expired(mail[i])
  BY <1>5 DEF Written
<1>11. Written(new, more)
  BY <1>5, <1>6, <1>7, <1>8, <1>9, <1>10 DEF Written
<1>12. \A i \in DOMAIN new \ DOMAIN mail : \E t \in tasks : new[i].to = box[t].from
  BY <1>5, <1>7 DEF Receipt
<1>13. QED
  BY <1>11, <1>12 DEF new, more

\* An operation that adds no row trims none.
LEMMA NoTrim ==
  ASSUME NEW box, Written(box, nextId'), mail' = box, DOMAIN box \subseteq DOMAIN mail
  PROVE  Wrote
<1>1. Capped(box, {}, {}) = [i \in DOMAIN box |-> box[i]]
  BY DEF Capped, Restrict
<1>2. Trimmed(box, {}, {})
  BY <1>1 DEF Written, Trimmed
<1>3. QED
  BY <1>2 DEF Wrote

\* One or two new rows, the newest of all, are what the trim exempts.
LEMMA TrimNew ==
  ASSUME IInv, NEW box, NEW name, NEW top \in {nextId, nextId + 1},
         Written(box, top + 1), nextId' = top + 1,
         \A i \in DOMAIN box \ DOMAIN mail : box[i].to = name,
         mail' = Capped(box, {name}, nextId..top)
  PROVE  Wrote
<1>1. /\ nextId \in Nat \ {0} /\ top \in Nat
      /\ DOMAIN box \subseteq 1..(top + 1 - 1)
  BY DEF IInv, TypeOK, Ids, Written
<1>2. ASSUME NEW e \in nextId..top
      PROVE  /\ Newer(box, e) \subseteq nextId..top
             /\ Cardinality(Newer(box, e)) <= 1
  <2>1. Newer(box, e) \in SUBSET {top}
    BY <1>1 DEF Newer, Inbox
  <2>2. Cardinality({top}) = 1 /\ IsFiniteSet({top})
    BY FS_Singleton
  <2>3. Cardinality(Newer(box, e)) <= 1
    BY <2>1, <2>2, FS_Subset
  <2>4. QED
    BY <1>1, <2>1, <2>3
<1>3. Trimmed(box, {name}, nextId..top)
  BY <1>2 DEF Trimmed
<1>4. QED
  BY <1>3 DEF Wrote

\* _withdraw: the mark, and beside it the notice if the row had been read.
LEMMA WithdrawWritten ==
  ASSUME IInv, NEW box, NEW top, Written(box, top), NEW by, NEW now,
         NEW i \in DOMAIN mail, i \in DOMAIN box, box[i] = mail[i],
         mail[i].cancelled = NoTime
  PROVE  LET last == IF mail[i].read = NoTime THEN top ELSE top + 1
             new == Withdraw(box, i, by, now, top)
         IN  /\ Written(new, last)
             /\ \A j \in DOMAIN new \ DOMAIN mail :
                  (j \in DOMAIN box /\ new[j] = box[j]) \/ new[j].to = mail[i].to
<1> DEFINE row == [mail[i] EXCEPT !.cancelled = now, !.supersededBy = by]
           marked == MarkWithdrawn(box, i, by, now)
           notice == CancelNotice(mail[i], i, now)
           both == Insert(marked, top, notice)
<1>1. Continues(mail[i], row)
  <2>1. mail[i] \in Message
    BY DEF IInv, TypeOK
  <2>2. /\ row.to = mail[i].to /\ row.from = mail[i].from /\ row.auth = mail[i].auth
        /\ row.kind = mail[i].kind /\ row.sent = mail[i].sent
        /\ row.about = mail[i].about /\ row.read = mail[i].read
        /\ row.statusAt = mail[i].statusAt /\ row.deadline = mail[i].deadline
    BY <2>1 DEF Message
  <2> HIDE DEF row
  <2>3. QED
    BY <2>2 DEF Continues, InTime
<1>2. row.read = mail[i].read
  BY DEF IInv, TypeOK, Message
<1>3. /\ DOMAIN marked = DOMAIN box
      /\ marked[i] = row
      /\ \A j \in DOMAIN box : j # i => marked[j] = box[j]
      /\ marked = [j \in DOMAIN marked |-> marked[j]]
  BY DEF MarkWithdrawn
<1>4. /\ notice.statusAt = NoTime /\ notice.kind # "receipt"
      /\ notice.to = mail[i].to
  BY DEF CancelNotice
<1>5. Withdraw(box, i, by, now, top) = IF mail[i].read = NoTime THEN marked ELSE both
  BY DEF Withdraw
<1> HIDE DEF row, marked, notice
<1>6. Written(marked, top)
  <2>1. \A j \in DOMAIN box \ DOMAIN mail : marked[j] = box[j]
    BY <1>3
  <2>2. \A j \in DOMAIN box \cap DOMAIN mail :
          /\ Continues(mail[j], marked[j])
          /\ box[j].read # NoTime => marked[j].read = box[j].read
    BY <1>1, <1>2, <1>3 DEF Written
  <2>3. QED
    BY <1>3, <2>1, <2>2, ChangeWritten
<1>7. Written(both, top + 1)
  BY <1>4, <1>6, InsertWritten
<1>8. /\ DOMAIN both = DOMAIN marked \cup {top} /\ both[top] = notice
      /\ \A j \in DOMAIN marked : j # top => both[j] = marked[j]
  BY DEF Insert
<1> HIDE DEF both
<1>9. CASE mail[i].read = NoTime
  BY <1>3, <1>5, <1>6, <1>9
<1>10. CASE mail[i].read # NoTime
  BY <1>3, <1>4, <1>5, <1>7, <1>8, <1>10
<1>11. QED
  BY <1>9, <1>10

(***************************************************************************)
(* Every operation, summed up                                              *)
(***************************************************************************)
\* An operation that leaves the table alone.
LEMMA UntouchedWrote ==
  ASSUME IInv, mail' = mail, nextId' = nextId
  PROVE  Wrote
BY MailWritten, NoTrim

\* ReadPeek and ListThreads.
LEMMA PurgeWrote ==
  ASSUME IInv, NEW names, mail' = Purged(mail, names), nextId' = nextId
  PROVE  Wrote
<1>1. DOMAIN Purged(mail, names) \subseteq DOMAIN mail
  BY DEF Purged, Restrict
<1>2. QED
  BY <1>1, PurgeWritten, NoTrim

\* One stored row changes.
LEMMA RowWrote ==
  ASSUME IInv, NEW i \in DOMAIN mail, NEW row, mail' = [mail EXCEPT ![i] = row],
         Continues(mail[i], row), nextId' = nextId
  PROVE  Wrote
<1>1. /\ DOMAIN mail' = DOMAIN mail
      /\ mail' = [j \in DOMAIN mail' |-> mail'[j]]
      /\ \A j \in DOMAIN mail : mail'[j] = IF j = i THEN row ELSE mail[j]
  BY DEF IInv, TypeOK
<1>2. \A j \in DOMAIN mail \cap DOMAIN mail :
        /\ Continues(mail[j], mail'[j])
        /\ mail[j].read # NoTime => mail'[j].read = mail[j].read
  BY <1>1 DEF Continues
<1>3. Written(mail', nextId')
  BY <1>1, <1>2, MailWritten, ChangeWritten
<1>4. QED
  BY <1>1, <1>3, NoTrim

LEMMA AckWrote ==
  ASSUME IInv, NEW i \in DOMAIN mail, Ack(i)
  PROVE  Wrote
<1> DEFINE row == [mail[i] EXCEPT !.read = clock]
<1>1. mail[i] \in Message /\ clock \in Nat
  BY DEF IInv, TypeOK
<1>2. /\ row.to = mail[i].to /\ row.from = mail[i].from /\ row.auth = mail[i].auth
      /\ row.kind = mail[i].kind /\ row.sent = mail[i].sent
      /\ row.about = mail[i].about /\ row.deadline = mail[i].deadline
      /\ row.statusAt = mail[i].statusAt /\ row.cancelled = mail[i].cancelled
      /\ row.supersededBy = mail[i].supersededBy
      /\ row.read # NoTime
  BY <1>1 DEF Message, NoTime
<1>3. /\ mail[i].read = NoTime /\ mail[i].to \in registered
      /\ mail' = [mail EXCEPT ![i] = row] /\ nextId' = nextId
  BY DEF Ack
<1> HIDE DEF row
<1>4. Continues(mail[i], row)
  BY <1>2, <1>3 DEF Continues, InTime
<1>5. QED
  BY <1>3, <1>4, RowWrote

\* The sample is not before the message, and before its deadline.
LEMMA CommitStatusWrote ==
  ASSUME IInv, StatusSampled, NEW c \in Clients, CommitStatus(c)
  PROVE  Wrote
<1> DEFINE k == call[c]
           row == StatusRow(mail[k.id], k.now)
           i == k.id
<1>1. /\ k \in StatusCall /\ i \in DOMAIN mail /\ k.now \in Nat
      /\ mail[i].cancelled = NoTime /\ mail[i].to \in registered
      /\ mail[i].deadline = NoTime \/ k.now < mail[i].deadline
      /\ mail[i] \in Message /\ mail[i].sent <= k.now
  BY DEF CommitStatus, StatusAccepted, StatusSampled, IInv, TypeOK, SendCall,
         StatusCall, Idle, Message, Times, NoTime
<1>2. mail' = [mail EXCEPT ![i] = row] /\ nextId' = nextId
  BY DEF CommitStatus
<1> HIDE DEF k, i
<1>3. /\ row.to = mail[i].to /\ row.from = mail[i].from /\ row.auth = mail[i].auth
      /\ row.kind = mail[i].kind /\ row.sent = mail[i].sent
      /\ row.about = mail[i].about /\ row.read # NoTime
      /\ row.deadline = mail[i].deadline /\ row.statusAt = k.now
      /\ mail[i].read # NoTime => row.read = mail[i].read
  <2> DEFINE rd == IF mail[i].read = NoTime THEN k.now ELSE mail[i].read
  <2>1. rd # NoTime /\ (mail[i].read # NoTime => rd = mail[i].read)
    BY <1>1 DEF NoTime
  <2>2. row = [mail[i] EXCEPT !.statusAt = k.now, !.read = rd]
    BY DEF StatusRow, i
  <2> HIDE DEF rd, row
  <2>3. QED
    BY <1>1, <2>1, <2>2 DEF Message
<1> HIDE DEF row
<1>4. Continues(mail[i], row)
  BY <1>1, <1>3 DEF Continues, InTime
<1>5. QED
  BY <1>1, <1>2, <1>4, RowWrote

\* A plain send: one new row, and the trim of its inbox.
LEMMA CommitPlainSendWrote ==
  ASSUME IInv, NEW c \in Clients, CommitPlainSend(c)
  PROVE  Wrote
<1> DEFINE k == call[c]
           box == Insert(mail, nextId, SentRow(k))
<1>1. /\ k \in SendCall /\ nextId \in Nat
      /\ nextId' = nextId + 1 /\ mail' = Capped(box, {k.to}, {nextId})
  BY DEF CommitPlainSend, IInv, TypeOK, Ids, StatusCall, Idle
<1>2. /\ SentRow(k).statusAt = NoTime /\ SentRow(k).kind \in SentTypes
      /\ SentRow(k).to = k.to
  BY <1>1 DEF SentRow, SendCall
<1> HIDE DEF k
<1>3. Written(box, nextId + 1)
  BY <1>2, MailWritten, InsertWritten
<1>4. \A i \in DOMAIN box \ DOMAIN mail : box[i].to = k.to
  BY <1>2 DEF Insert
<1>5. {nextId} = nextId..nextId
  BY <1>1
<1> HIDE DEF box
<1>6. QED
  BY <1>1, <1>3, <1>4, <1>5, TrimNew

\* A supersede: the new row, the mark on the old one and its notice, and the
\* trim of the inbox all three are in.
LEMMA CommitSupersedeWrote ==
  ASSUME IInv, NEW c \in Clients, CommitSupersede(c)
  PROVE  Wrote
<1> DEFINE k == call[c]
           old == k.supersedes
           last == IF mail[old].read = NoTime THEN nextId ELSE nextId + 1
           sent == Insert(mail, nextId, SentRow(k))
           box == Withdraw(sent, old, nextId, k.now, nextId + 1)
<1>1. /\ k \in SendCall /\ nextId \in Nat /\ DOMAIN mail \subseteq 1..(nextId - 1)
      /\ old \in DOMAIN mail /\ mail[old].cancelled = NoTime /\ mail[old].to = k.to
      /\ nextId' = last + 1 /\ mail' = Capped(box, {k.to}, nextId..last)
  BY DEF CommitSupersede, Replaceable, Withdrawable, IInv, TypeOK, Ids,
         StatusCall, Idle
<1>2. /\ SentRow(k).statusAt = NoTime /\ SentRow(k).kind \in SentTypes
      /\ SentRow(k).to = k.to
  BY <1>1 DEF SentRow, SendCall
<1> HIDE DEF k, old
<1>3. Written(sent, nextId + 1)
  BY <1>2, MailWritten, InsertWritten
<1>4. /\ DOMAIN sent = DOMAIN mail \cup {nextId}
      /\ sent[nextId] = SentRow(k) /\ sent[old] = mail[old]
  BY <1>1 DEF Insert
<1> HIDE DEF sent
<1>5. /\ Written(box, IF mail[old].read = NoTime THEN nextId + 1 ELSE nextId + 1 + 1)
      /\ \A j \in DOMAIN box \ DOMAIN mail :
           (j \in DOMAIN sent /\ box[j] = sent[j]) \/ box[j].to = mail[old].to
  BY <1>1, <1>3, <1>4, WithdrawWritten
<1>6. /\ last \in {nextId, nextId + 1}
      /\ last + 1 = IF mail[old].read = NoTime THEN nextId + 1 ELSE nextId + 1 + 1
  OBVIOUS
<1> HIDE DEF box, last
<1>7. Written(box, last + 1)
  BY <1>5, <1>6
<1>8. \A i \in DOMAIN box \ DOMAIN mail : box[i].to = k.to
  BY <1>1, <1>2, <1>4, <1>5
<1>9. QED
  BY <1>1, <1>6, <1>7, <1>8, TrimNew

\* cancel_task: the mark alone, or the mark, the notice and the trim.
LEMMA CancelTaskWrote ==
  ASSUME IInv, NEW i \in DOMAIN mail, NEW n \in Names, CancelTask(i, n)
  PROVE  Wrote
<1> DEFINE box == Withdraw(mail, i, NoId, clock, nextId)
           to == mail[i].to
<1>1. /\ nextId \in Nat /\ DOMAIN mail \subseteq 1..(nextId - 1)
      /\ mail[i].cancelled = NoTime
  BY DEF CancelTask, IInv, TypeOK, Ids
<1>2. /\ Written(box, IF mail[i].read = NoTime THEN nextId ELSE nextId + 1)
      /\ \A j \in DOMAIN box \ DOMAIN mail : box[j].to = to
  BY <1>1, MailWritten, WithdrawWritten
<1>3. CASE mail[i].read = NoTime
  <2>1. mail' = box /\ nextId' = nextId
    BY <1>3 DEF CancelTask
  <2>2. DOMAIN box \subseteq DOMAIN mail
    BY <1>3 DEF Withdraw, MarkWithdrawn
  <2> HIDE DEF box
  <2>3. QED
    BY <1>2, <1>3, <2>1, <2>2, NoTrim
<1>4. CASE mail[i].read # NoTime
  <2>1. mail' = Capped(box, {to}, {nextId}) /\ nextId' = nextId + 1
    BY <1>4 DEF CancelTask
  <2>2. {nextId} = nextId..nextId
    BY <1>1
  <2> HIDE DEF box, to
  <2>3. Written(box, nextId + 1)
    BY <1>2, <1>4
  <2>4. QED
    BY <1>2, <2>1, <2>2, <2>3, TrimNew
<1>5. QED
  BY <1>3, <1>4

\* The owner's read: the purge, the marks, the receipts, and the trim of the
\* inboxes that got one.
LEMMA ReadOwnedWrote ==
  ASSUME IInv, NEW n \in Names, NEW r \in ReadCalls, ReadOwned(n, r)
  PROVE  Wrote
<1> DEFINE box == Purged(mail, {n})
           ids == ToMark(box, n, r)
           tasks == Receipted(box, n, ids)
           origins == {box[i].from : i \in tasks}
           marked == MarkRead(box, ids)
           full == WithReceipts(marked, tasks, r.oldest)
<1>1. /\ clock \in Nat /\ clock # NoTime /\ r.oldest \in BOOLEAN /\ n \in registered
      /\ mail' = Capped(full, origins, {}) /\ nextId' = nextId + Cardinality(tasks)
  BY ConstantsAssumption DEF ReadOwned, IInv, TypeOK, ReadCall, NoTime
<1>2. /\ Written(box, nextId) /\ DOMAIN box \subseteq DOMAIN mail
      /\ \A i \in DOMAIN box : box[i] = mail[i] /\ box[i] \in Message
  BY PurgeWritten DEF Purged, Restrict, IInv, TypeOK
<1>3. /\ ids \subseteq DOMAIN box
      /\ \A i \in ids : box[i].to = n /\ box[i].read = NoTime
  BY DEF ToMark, Returned, Matching, Inbox
<1>4. /\ tasks \subseteq ids
      /\ \A i \in tasks : box[i].kind = "task" /\ box[i].auth
  BY DEF Receipted
<1> HIDE DEF box, ids, tasks
<1>5. /\ DOMAIN marked = DOMAIN box
      /\ marked = [i \in DOMAIN marked |-> marked[i]]
      /\ \A i \in DOMAIN box : marked[i] =
           IF i \in ids THEN [box[i] EXCEPT !.read = clock] ELSE box[i]
  BY DEF MarkRead
<1> HIDE DEF marked
<1>6. \A i \in DOMAIN box :
        /\ marked[i].sent = box[i].sent /\ marked[i].from = box[i].from
        /\ i \in ids => marked[i].read = clock
        /\ Continues(mail[i], marked[i])
        /\ box[i].read # NoTime => marked[i].read = box[i].read
  <2> TAKE i \in DOMAIN box
  <2>1. CASE i \notin ids
    BY <1>2, <1>5, <2>1 DEF Continues
  <2>2. CASE i \in ids
    <3> DEFINE row == [box[i] EXCEPT !.read = clock]
    <3>1. /\ row.to = box[i].to /\ row.from = box[i].from /\ row.auth = box[i].auth
          /\ row.kind = box[i].kind /\ row.sent = box[i].sent
          /\ row.about = box[i].about /\ row.deadline = box[i].deadline
          /\ row.statusAt = box[i].statusAt /\ row.cancelled = box[i].cancelled
          /\ row.supersededBy = box[i].supersededBy
          /\ row.read = clock
      BY <1>2 DEF Message
    <3>2. marked[i] = row /\ box[i] = mail[i]
      BY <1>2, <1>5, <2>2
    <3> HIDE DEF row
    <3>3. Continues(mail[i], row)
      BY <1>1, <1>3, <2>2, <3>1, <3>2 DEF Continues, InTime
    <3>4. QED
      BY <1>3, <2>2, <3>1, <3>2, <3>3
  <2>3. QED
    BY <2>1, <2>2
<1>7. Written(marked, nextId)
  BY <1>2, <1>5, <1>6, ChangeWritten
<1>8. /\ Written(full, nextId + Cardinality(tasks))
      /\ \A i \in DOMAIN full \ DOMAIN mail : \E t \in tasks : full[i].to = marked[t].from
  <2>1. tasks \in SUBSET DOMAIN marked /\ DOMAIN marked \subseteq DOMAIN mail
    BY <1>2, <1>3, <1>4, <1>5
  <2>2. \A i \in DOMAIN marked : marked[i].sent \in Nat
    BY <1>2, <1>5, <1>6 DEF Message
  <2>3. \A i \in tasks :
          /\ mail[i].read = NoTime /\ mail[i].auth /\ mail[i].kind = "task"
          /\ marked[i].read = clock
    BY <1>2, <1>3, <1>4, <1>6
  <2>4. QED
    BY <1>1, <1>7, <2>1, <2>2, <2>3, ReceiptsWritten
<1> HIDE DEF full
<1>9. \A i \in DOMAIN full \ DOMAIN mail : full[i].to \in origins
  BY <1>3, <1>4, <1>6, <1>8
<1>10. Trimmed(full, origins, {})
  BY <1>1, <1>9 DEF Trimmed
<1>11. QED
  BY <1>1, <1>8, <1>10 DEF Wrote

\* Every step of the mailbox.
LEMMA StepWrote ==
  ASSUME IInv, StatusSampled, [Next]_vars
  PROVE  Wrote
<1>1. ASSUME NEW c \in Clients, BeginSend(c) \/ AbortSend(c) \/ BeginStatus(c)
                                \/ RejectStatus(c)
      PROVE  Wrote
  BY <1>1, UntouchedWrote DEF BeginSend, AbortSend, BeginStatus, RejectStatus
<1>2. ASSUME NEW n \in Names,
             Register(n) \/ Unregister(n) \/ \E enabled \in Settings : SetReceipts(n, enabled)
      PROVE  Wrote
  BY <1>2, UntouchedWrote DEF Register, Unregister, SetReceipts
<1>3. ASSUME NEW c \in Clients, CommitPlainSend(c) \/ CommitSupersede(c) \/ CommitStatus(c)
      PROVE  Wrote
  BY <1>3, CommitPlainSendWrote, CommitSupersedeWrote, CommitStatusWrote
<1>4. ASSUME NEW i \in DOMAIN mail, Ack(i) \/ \E n \in Names : CancelTask(i, n)
      PROVE  Wrote
  BY <1>4, AckWrote, CancelTaskWrote
<1>5. ASSUME NEW n \in Names, \/ \E r \in ReadCalls : ReadOwned(n, r)
                              \/ ReadPeek(n)
      PROVE  Wrote
  BY <1>5, ReadOwnedWrote, PurgeWrote DEF ReadPeek
<1>6. ASSUME ListThreads PROVE Wrote
  BY <1>6, PurgeWrote DEF ListThreads
<1>7. ASSUME Tick \/ UNCHANGED vars PROVE Wrote
  BY <1>7, UntouchedWrote DEF Tick, vars
<1>8. QED
  BY <1>1, <1>2, <1>3, <1>4, <1>5, <1>6, <1>7 DEF Next

(***************************************************************************)
(* What follows for the table after the trim                               *)
(***************************************************************************)
\* The trim only drops rows.
LEMMA RowsAfter ==
  ASSUME Wrote
  PROVE  /\ \A i \in DOMAIN mail \cap DOMAIN mail' : Continues(mail[i], mail'[i])
         /\ \A i \in DOMAIN mail' \ DOMAIN mail : NewRow(mail', i)
         /\ nextId' \in Nat /\ nextId' >= nextId /\ DOMAIN mail' \subseteq 1..(nextId' - 1)
<1>1. PICK box, names, exempt : Written(box, nextId') /\ Trimmed(box, names, exempt)
  BY DEF Wrote
<1>2. /\ DOMAIN mail' \subseteq DOMAIN box
      /\ \A i \in DOMAIN mail' : mail'[i] = box[i]
  BY <1>1 DEF Trimmed, Capped, Restrict
<1>3. \A i \in DOMAIN mail' \ DOMAIN mail : NewRow(mail', i)
  <2> TAKE i \in DOMAIN mail' \ DOMAIN mail
  <2>1. NewRow(box, i) /\ mail'[i] = box[i]
    BY <1>1, <1>2 DEF Written
  <2>2. ReceiptFor(box, i) => ReceiptFor(mail', i)
    BY <1>2 DEF ReceiptFor
  <2>3. QED
    BY <2>1, <2>2 DEF NewRow
<1>4. QED
  BY <1>1, <1>2, <1>3 DEF Written

\* NoEarlyLoss, of one step.
LEMMA NothingLostEarly ==
  ASSUME Wrote, NEW i \in DOMAIN mail \ DOMAIN mail'
  PROVE  \/ Expired(mail[i])
         \/ Cap > 0 /\ Cardinality({j \in Inbox(mail', mail[i].to) : j > i}) >= Cap
<1>1. PICK box, names, exempt : Written(box, nextId') /\ Trimmed(box, names, exempt)
  BY DEF Wrote
<1>2. CASE i \notin DOMAIN box
  BY <1>1, <1>2 DEF Written
<1>3. CASE i \in DOMAIN box
  <2>1. nextId' \in Nat /\ DOMAIN box \subseteq 1..(nextId' - 1)
        /\ box[i].to = mail[i].to /\ mail' = Capped(box, names, exempt)
    BY <1>1, <1>3 DEF Written, Trimmed, Continues
  <2>2. DOMAIN box \subseteq 1..nextId'
    BY <2>1
  <2>3. LET left == Capped(box, names, exempt) IN
        Cap > 0 /\ Cardinality({j \in Inbox(left, box[i].to) : j > i}) >= Cap
    BY <1>3, <2>1, <2>2, CapKeepsNewest
  <2>4. QED
    BY <2>1, <2>3
<1>4. QED
  BY <1>2, <1>3

\* An inbox that got a row was trimmed, and the others can only have shrunk.
LEMMA BoundedAfter ==
  ASSUME IInv, Wrote, InboxBounded
  PROVE  InboxBounded'
<1> SUFFICES ASSUME Cap > 1, NEW n \in Names
             PROVE  Cardinality(Inbox(mail', n)) <= Cap
  BY DEF InboxBounded
<1>1. PICK box, names, exempt : Written(box, nextId') /\ Trimmed(box, names, exempt)
  BY DEF Wrote
<1>2. nextId' \in Nat /\ DOMAIN box \subseteq 1..nextId'
  BY <1>1 DEF Written
<1>3. CASE n \in names
  BY <1>1, <1>2, <1>3, CapBounds DEF Trimmed
<1>4. CASE n \notin names
  <2>1. Inbox(mail', n) \in SUBSET Inbox(mail, n)
    <3>1. /\ DOMAIN mail' \subseteq DOMAIN box
          /\ \A i \in DOMAIN mail' : mail'[i] = box[i]
      BY <1>1 DEF Trimmed, Capped, Restrict
    <3>2. \A i \in DOMAIN box : box[i].to = n => i \in DOMAIN mail /\ mail[i].to = n
      BY <1>1, <1>4 DEF Written, Trimmed, Continues
    <3>3. QED
      BY <3>1, <3>2 DEF Inbox
  <2>2. nextId \in Nat /\ Inbox(mail, n) \subseteq 1..nextId
    BY DEF IInv, TypeOK, Ids, Inbox
  <2>3. IsFiniteSet(Inbox(mail, n)) /\ Cardinality(Inbox(mail, n)) \in Nat
    BY <2>2, IdsFinite
  <2>4. /\ Cardinality(Inbox(mail', n)) <= Cardinality(Inbox(mail, n))
        /\ IsFiniteSet(Inbox(mail', n))
    BY <2>1, <2>3, FS_Subset
  <2>5. Cardinality(Inbox(mail', n)) \in Nat
    BY <2>4, FS_CardinalityType
  <2>6. Cardinality(Inbox(mail, n)) <= Cap /\ Cap \in Nat
    BY ConstantsAssumption DEF InboxBounded
  <2>7. QED
    BY <2>3, <2>4, <2>5, <2>6
<1>5. QED
  BY <1>3, <1>4

\* Statuses stay in time, and a new row has none.
LEMMA StatusAfter ==
  ASSUME Wrote, StatusInTime
  PROVE  StatusInTime'
<1>1. StatusInTime <=> \A i \in DOMAIN mail : InTime(mail[i])
  BY DEF StatusInTime, InTime
<1>2. StatusInTime' <=> \A i \in DOMAIN mail' : InTime(mail'[i])
  BY DEF StatusInTime, InTime
<1>3. \A i \in DOMAIN mail' : InTime(mail'[i])
  BY <1>1, RowsAfter DEF Continues, NewRow, InTime
<1>4. QED
  BY <1>2, <1>3

\* A new receipt is the first for its task, which was unread until this step;
\* an old one stays true because its task is read and stays so.
LEMMA ReceiptsAfter ==
  ASSUME IInv, Wrote, ReceiptTruthful
  PROVE  ReceiptTruthful'
<1> SUFFICES ASSUME "receipt" \notin SentTypes,
                    NEW r \in DOMAIN mail', mail'[r].kind = "receipt"
             PROVE  LET i == mail'[r].about IN
               /\ i < r
               /\ \A s \in DOMAIN mail' :
                    mail'[s].kind = "receipt" /\ mail'[s].about = i => s = r
               /\ i \in DOMAIN mail' =>
                    /\ mail'[i].read # NoTime /\ mail'[i].read <= mail'[r].sent
                    /\ mail'[i].auth /\ mail'[i].kind = "task"
                    /\ mail'[r].to = mail'[i].from /\ mail'[r].from = mail'[i].to
  BY DEF ReceiptTruthful
<1> DEFINE i == mail'[r].about
<1>1. /\ \A j \in DOMAIN mail \cap DOMAIN mail' : Continues(mail[j], mail'[j])
      /\ \A j \in DOMAIN mail' \ DOMAIN mail : NewRow(mail', j)
  BY RowsAfter
<1>2. DOMAIN mail \subseteq 1..(nextId - 1) /\ nextId \in Nat
  BY DEF IInv, TypeOK, Ids
\* A receipt stored before this step is about a task that was read by then.
<1>3. ASSUME NEW s \in DOMAIN mail \cap DOMAIN mail', mail'[s].kind = "receipt"
      PROVE  LET t == mail'[s].about IN
             /\ mail[s].kind = "receipt" /\ mail[s].about = t /\ t < s
             /\ \A q \in DOMAIN mail :
                  mail[q].kind = "receipt" /\ mail[q].about = t => q = s
             /\ t \in DOMAIN mail => mail[t].read # NoTime
  BY <1>1, <1>3 DEF Continues, ReceiptTruthful
<1>4. ASSUME NEW s \in DOMAIN mail' \ DOMAIN mail, mail'[s].kind = "receipt"
      PROVE  s >= nextId /\ ReceiptFor(mail', s)
  BY <1>1, <1>4 DEF NewRow
<1>5. i < r
  <2>1. CASE r \in DOMAIN mail
    BY <1>3, <2>1
  <2>2. CASE r \notin DOMAIN mail
    <3>1. r >= nextId /\ i \in 1..(nextId - 1)
      BY <1>2, <1>4, <2>2 DEF ReceiptFor
    <3>2. r \in Nat
      BY RowsAfter
    <3>3. QED
      BY <1>2, <3>1, <3>2
  <2>3. QED
    BY <2>1, <2>2
<1>6. ASSUME NEW s \in DOMAIN mail', mail'[s].kind = "receipt", mail'[s].about = i
      PROVE  s = r
  <2>1. CASE r \in DOMAIN mail /\ s \in DOMAIN mail
    BY <1>3, <1>6, <2>1
  <2>2. CASE r \notin DOMAIN mail /\ s \notin DOMAIN mail
    BY <1>4, <1>6, <2>2 DEF ReceiptFor
  <2>3. CASE r \in DOMAIN mail /\ s \notin DOMAIN mail
    BY <1>3, <1>4, <1>6, <2>3 DEF ReceiptFor
  <2>4. CASE r \notin DOMAIN mail /\ s \in DOMAIN mail
    BY <1>3, <1>4, <1>6, <2>4 DEF ReceiptFor
  <2>5. QED
    BY <2>1, <2>2, <2>3, <2>4
<1>7. ASSUME i \in DOMAIN mail'
      PROVE  /\ mail'[i].read # NoTime /\ mail'[i].read <= mail'[r].sent
             /\ mail'[i].auth /\ mail'[i].kind = "task"
             /\ mail'[r].to = mail'[i].from /\ mail'[r].from = mail'[i].to
  <2>1. CASE r \in DOMAIN mail
    <3>1. i \in DOMAIN mail
      <4>1. i < r /\ r \in 1..(nextId - 1) /\ i \in Int
        BY <1>2, <1>3, <1>7, <2>1, RowsAfter
      <4>2. i \notin DOMAIN mail => i >= nextId
        BY <1>1, <1>7 DEF NewRow
      <4> HIDE DEF i
      <4>3. QED
        BY <1>2, <4>1, <4>2
    <3>2. /\ mail[i].read # NoTime /\ mail[i].read <= mail[r].sent
          /\ mail[i].auth /\ mail[i].kind = "task"
          /\ mail[r].to = mail[i].from /\ mail[r].from = mail[i].to
      BY <1>3, <2>1, <3>1 DEF ReceiptTruthful
    <3>3. Continues(mail[i], mail'[i]) /\ Continues(mail[r], mail'[r])
      BY <1>1, <1>7, <2>1, <3>1
    <3> HIDE DEF i
    <3>4. QED
      BY <3>2, <3>3 DEF Continues
  <2>2. CASE r \notin DOMAIN mail
    <3>1. ReceiptFor(mail', r)
      BY <1>4, <2>2
    <3>2. Continues(mail[i], mail'[i])
      BY <1>1, <1>7, <3>1 DEF ReceiptFor
    <3>3. QED
      BY <1>7, <3>1, <3>2 DEF ReceiptFor, Continues
  <2>3. QED
    BY <2>1, <2>2
<1>8. QED
  BY <1>5, <1>6, <1>7

\* What a client's call may become: a new status call has sampled the clock
\* for a stored message.
LEMMA CallAfter ==
  ASSUME IInv, [Next]_vars, NEW d \in Clients
  PROVE  \/ call'[d] = call[d]
         \/ call'[d].op # "status"
         \/ mail' = mail /\ call'[d].id \in DOMAIN mail /\ call'[d].now = clock
<1>0. call \in [Clients -> {Idle} \cup SendCall \cup StatusCall]
  BY DEF IInv, TypeOK
<1>1. ASSUME NEW c \in Clients, BeginSend(c)
      PROVE  call'[d] = call[d] \/ call'[d].op = "send"
  <2>1. \E k : k.op = "send" /\ call' = [call EXCEPT ![c] = k]
    BY <1>1 DEF BeginSend
  <2>2. QED
    BY <1>0, <2>1
<1>2. ASSUME NEW c \in Clients, BeginStatus(c)
      PROVE  \/ call'[d] = call[d]
             \/ mail' = mail /\ call'[d].id \in DOMAIN mail /\ call'[d].now = clock
  <2>1. PICK i \in DOMAIN mail, n \in Names :
          call' = [call EXCEPT ![c] = [op |-> "status", id |-> i, by |-> n, now |-> clock]]
    BY <1>2 DEF BeginStatus
  <2>2. QED
    BY <1>0, <1>2, <2>1 DEF BeginStatus
<1>3. ASSUME NEW c \in Clients,
             \/ CommitPlainSend(c) \/ CommitSupersede(c) \/ AbortSend(c)
             \/ CommitStatus(c) \/ RejectStatus(c)
      PROVE  call'[d] = call[d] \/ call'[d].op = "idle"
  <2>1. call' = [call EXCEPT ![c] = Idle]
    BY <1>3 DEF CommitPlainSend, CommitSupersede, AbortSend, CommitStatus, RejectStatus
  <2>2. QED
    BY <1>0, <2>1 DEF Idle
<1>4. CASE call' = call
  BY <1>4
<1>5. QED
  BY <1>1, <1>2, <1>3, <1>4
     DEF Next, Ack, CancelTask, ReadOwned, ReadPeek, Register, Unregister,
         SetReceipts, ListThreads, Tick, vars

\* A sample stays good: the row keeps its time, and its id is never given to
\* another.
LEMMA SampledAfter ==
  ASSUME IInv, StatusSampled, [Next]_vars, Wrote
  PROVE  StatusSampled'
<1> SUFFICES ASSUME NEW c \in Clients, call'[c].op = "status"
             PROVE  /\ call'[c].id < nextId'
                    /\ call'[c].id \in DOMAIN mail' =>
                         mail'[call'[c].id].sent <= call'[c].now
  BY DEF StatusSampled
<1>1. /\ nextId \in Nat /\ nextId' \in Nat /\ nextId' >= nextId
      /\ DOMAIN mail \subseteq 1..(nextId - 1)
      /\ \A i \in DOMAIN mail : mail[i].sent <= clock
  BY RowsAfter DEF IInv, TypeOK, Ids, Rows
<1>2. CASE call'[c] = call[c]
  <2>1. /\ call[c].id < nextId /\ call[c].id \in Nat
        /\ call[c].id \in DOMAIN mail => mail[call[c].id].sent <= call[c].now
    BY <1>2 DEF StatusSampled, IInv, TypeOK, Ids, SendCall, StatusCall, Idle
  <2>2. call[c].id \in DOMAIN mail' =>
          call[c].id \in DOMAIN mail /\ mail'[call[c].id].sent = mail[call[c].id].sent
    BY <1>1, <2>1, RowsAfter DEF NewRow, Continues
  <2>3. QED
    BY <1>1, <1>2, <2>1, <2>2
<1>3. CASE mail' = mail /\ call'[c].id \in DOMAIN mail /\ call'[c].now = clock
  BY <1>1, <1>3
<1>4. QED
  BY <1>2, <1>3, CallAfter

(***************************************************************************)
(* Theorems about loss, bounds, finality and truth                         *)
(***************************************************************************)
\* The empty store satisfies the invariant.
LEMMA InitSafe == Init => Safe
<1> SUFFICES ASSUME Init PROVE Safe
  OBVIOUS
<1>1. DOMAIN mail = {} /\ \A c \in Clients : call[c].op = "idle"
  BY DEF Init, Idle
<1>2. InboxBounded
  <2>1. \A n \in Names : Inbox(mail, n) = {}
    BY <1>1 DEF Inbox
  <2>2. Cardinality({}) = 0 /\ Cap \in Nat
    BY FS_EmptySet, ConstantsAssumption
  <2>3. QED
    BY <2>1, <2>2 DEF InboxBounded
<1>3. StatusSampled /\ StatusInTime /\ ReceiptTruthful
  BY <1>1 DEF StatusSampled, StatusInTime, ReceiptTruthful
<1>4. QED
  BY <1>2, <1>3, InitInv DEF Safe

\* Every step of the mailbox preserves the invariant.
LEMMA NextSafe == Safe /\ [Next]_vars => Safe'
<1> SUFFICES ASSUME Safe, [Next]_vars PROVE Safe'
  OBVIOUS
<1>1. Wrote
  BY StepWrote DEF Safe
<1>2. IInv'
  BY NextInv DEF Safe
<1>3. StatusSampled'
  BY <1>1, SampledAfter DEF Safe
<1>4. StatusInTime' /\ InboxBounded' /\ ReceiptTruthful'
  BY <1>1, StatusAfter, BoundedAfter, ReceiptsAfter DEF Safe
<1>5. QED
  BY <1>2, <1>3, <1>4 DEF Safe

\* The invariant of part two holds in every reachable state.
THEOREM SafeInvariant == Spec => []Safe
<1>1. Init => Safe
  BY InitSafe
<1>2. Safe /\ [Next]_vars => Safe'
  BY NextSafe
<1>3. QED
  BY <1>1, <1>2, PTL DEF Spec

\* No inbox outgrows a cap of two or more, whoever writes to it: senders,
\* withdrawals with their notices, or the receipts of other agents' reads.
THEOREM InboxBoundedHolds == Spec => []InboxBounded
<1>1. Safe => InboxBounded
  BY DEF Safe
<1>2. QED
  BY <1>1, SafeInvariant, PTL

\* A receipt that the store wrote never lies about its task, and no task gets
\* a second one.
THEOREM ReceiptTruthfulHolds == Spec => []ReceiptTruthful
<1>1. Safe => ReceiptTruthful
  BY DEF Safe
<1>2. QED
  BY <1>1, SafeInvariant, PTL

\* The clock that update_status samples before it asks for the lock is good
\* enough: the status it records is after the send and before the deadline.
THEOREM StatusInTimeHolds == Spec => []StatusInTime
<1>1. Safe => StatusInTime
  BY DEF Safe
<1>2. QED
  BY <1>1, SafeInvariant, PTL

\* The prompt hook counts what a read would show, and so does list_threads, but
\* for what expires between its purge and its count; for every TTL and deadline.
THEOREM UnreadCountsAgreeHolds == Spec => []UnreadCountsAgree
<1>1. IInv => UnreadCountsAgree
  <2> SUFFICES ASSUME IInv, NEW n \in registered, NEW purgedAt \in 0..clock
               PROVE  LET readable == Matching(Purged(mail, {n}), n,
                            [unreadOnly |-> TRUE, inactive |-> FALSE, exclude |-> {"receipt"}])
                          counted == UnreadCounted(n, purgedAt)
                      IN  /\ HookCounted(n) = readable
                          /\ readable \subseteq counted
                          /\ \A i \in counted \ readable :
                               mail[i].sent + TTL \in (purgedAt + 1)..clock
    BY DEF UnreadCountsAgree
  <2> DEFINE Work(i) == /\ mail[i].to = n /\ mail[i].read = NoTime
                        /\ mail[i].kind # "receipt" /\ Active(mail[i])
             live == {i \in DOMAIN mail : Work(i) /\ mail[i].sent + TTL > clock}
  <2>1. \A i \in DOMAIN mail :
          mail[i].sent + TTL \in Int /\ (mail[i].sent + TTL > clock <=> ~Expired(mail[i]))
    BY ConstantsAssumption DEF Expired, IInv, TypeOK, Message
  <2>2. Matching(Purged(mail, {n}), n,
          [unreadOnly |-> TRUE, inactive |-> FALSE, exclude |-> {"receipt"}]) = live
    <3> DEFINE left == Purged(mail, {n})
    <3>1. /\ DOMAIN left = {i \in DOMAIN mail : ~(mail[i].to = n /\ Expired(mail[i]))}
          /\ \A i \in DOMAIN left : left[i] = mail[i]
      BY DEF Purged, Restrict
    <3> HIDE DEF left
    <3>2. Matching(left, n, [unreadOnly |-> TRUE, inactive |-> FALSE, exclude |-> {"receipt"}])
            = {i \in Inbox(left, n) : /\ left[i].read = NoTime /\ Active(left[i])
                                      /\ left[i].kind \notin {"receipt"}}
      BY DEF Matching
    <3>3. QED
      BY <2>1, <3>1, <3>2 DEF Inbox, left
  <2>3. HookCounted(n) = live
    BY DEF HookCounted, Inbox
  <2>4. UnreadCounted(n, purgedAt) =
          {i \in DOMAIN mail : Work(i) /\ mail[i].sent + TTL > purgedAt}
    BY DEF UnreadCounted, Inbox
  <2>5. purgedAt \in Int /\ clock \in Int /\ purgedAt <= clock
    BY DEF IInv, TypeOK
  <2>6. live \subseteq UnreadCounted(n, purgedAt)
    BY <2>1, <2>4, <2>5
  <2>7. \A i \in UnreadCounted(n, purgedAt) \ live :
          mail[i].sent + TTL \in (purgedAt + 1)..clock
    BY <2>1, <2>4, <2>5
  <2>8. QED
    BY <2>2, <2>3, <2>6, <2>7
<1>2. QED
  BY <1>1, Invariant, PTL

\* Mail leaves the store only past its TTL, or under the cap's worth of newer
\* mail that is still there after the step.
THEOREM NoEarlyLossHolds == Spec => NoEarlyLoss
<1> DEFINE Kept == \A i \in DOMAIN mail \ DOMAIN mail' :
             \/ Expired(mail[i])
             \/ Cap > 0 /\ Cardinality({j \in Inbox(mail', mail[i].to) : j > i}) >= Cap
<1>1. Safe /\ [Next]_vars => Kept
  BY StepWrote, NothingLostEarly DEF Safe
<1>2. Safe /\ [Next]_vars => [Kept]_vars
  BY <1>1
<1>3. QED
  BY <1>2, SafeInvariant, PTL DEF Spec, NoEarlyLoss

\* Whoever withdrew a message first has decided it: no later status, cancel or
\* supersede, sampled before or after, changes the row again.
THEOREM WithdrawnIsFinalHolds == Spec => WithdrawnIsFinal
<1> DEFINE Final == \A i \in DOMAIN mail \cap DOMAIN mail' : mail[i].cancelled # NoTime =>
             /\ mail'[i].cancelled = mail[i].cancelled
             /\ mail'[i].supersededBy = mail[i].supersededBy
             /\ mail'[i].statusAt = mail[i].statusAt
<1>1. Safe /\ [Next]_vars => [Final]_vars
  BY StepWrote, RowsAfter DEF Safe, Continues
<1>2. QED
  BY <1>1, SafeInvariant, PTL DEF Spec, WithdrawnIsFinal

\* read_at is written once, and only while the recipient's name is held.
THEOREM ReadOnceHolds == Spec => ReadOnce
<1> DEFINE Once == \A i \in DOMAIN mail \cap DOMAIN mail' : mail'[i].read # mail[i].read =>
             mail[i].read = NoTime /\ mail[i].to \in registered
<1>1. Safe /\ [Next]_vars => [Once]_vars
  BY StepWrote, RowsAfter DEF Safe, Continues
<1>2. QED
  BY <1>1, SafeInvariant, PTL DEF Spec, ReadOnce
=============================================================================
