---------------------------- MODULE PollerProofs ----------------------------
(***************************************************************************)
(* For any number of ids, any filter and any number of errors: the         *)
(* watermark skips nothing, and without errors events are in order of      *)
(* arrival.                                                                *)
(***************************************************************************)
EXTENDS Poller, Extremes, FiniteSetTheorems, SequenceTheorems, TLAPS

\* A sequence's elements, its tail and an append, as the proofs need them.
LEMMA TailOf ==
  ASSUME NEW S, NEW s \in Seq(S), s # <<>>
  PROVE  /\ Len(s) \in Nat \ {0} /\ Head(s) = s[1] /\ Head(s) \in S
         /\ Tail(s) \in Seq(S) /\ Len(Tail(s)) = Len(s) - 1
         /\ (Tail(s) = <<>> <=> Len(s) = 1)
         /\ \A k \in 1..(Len(s) - 1) : Tail(s)[k] = s[k + 1]
<1>1. Len(s) \in Nat \ {0} /\ Head(s) = s[1] /\ Head(s) \in S
  OBVIOUS
<1>2. Tail(s) \in Seq(S) /\ Len(Tail(s)) = Len(s) - 1
  BY <1>1
<1>3. \A k \in 1..(Len(s) - 1) : Tail(s)[k] = s[k + 1]
  BY <1>1
<1>4. Tail(s) = <<>> <=> Len(s) = 1
  <2>1. \A t \in Seq(S) : t # <<>> => Len(t) \in Nat \ {0}
    BY EmptySeq
  <2>2. Len(<<>>) = 0
    BY EmptySeq
  <2>3. Tail(s) = <<>> <=> Len(Tail(s)) = 0
    BY <1>2, <2>1, <2>2
  <2>4. QED
    BY <1>1, <1>2, <2>3
<1>5. QED
  BY <1>1, <1>2, <1>3, <1>4

LEMMA AppendOf ==
  ASSUME NEW S, NEW s \in Seq(S), NEW e \in S
  PROVE  /\ Append(s, e) \in Seq(S) /\ Len(Append(s, e)) = Len(s) + 1
         /\ Append(s, e)[Len(s) + 1] = e
         /\ \A k \in 1..Len(s) : Append(s, e)[k] = s[k]
  OBVIOUS

LEMMA FunctionIsSeq ==
  ASSUME NEW S, NEW n \in Nat, NEW f \in [1..n -> S]
  PROVE  f \in Seq(S) /\ Len(f) = n
<1>1. f \in Seq(S)
  OBVIOUS
<1>2. DOMAIN f = 1..n /\ DOMAIN f = 1..Len(f) /\ Len(f) \in Nat
  BY <1>1, LenProperties
<1>3. QED
  BY <1>1, <1>2

(***************************************************************************)
(* The inductive invariant                                                 *)
(***************************************************************************)
\* A batch is in order, and what is left of it is above what was dealt with.
Batched ==
  phase = "emitting" =>
    /\ mark <= top /\ top < batch[1]
    /\ \A j, k \in 1..Len(batch) : j < k => batch[j] < batch[k]

Emitted(i) == \E k \in 1..Len(events) : events[k] = i
InBatch(i) == \E k \in 1..Len(batch) : batch[k] = i

\* NothingSkipped with the batch in hand: up to its last id, what should be
\* emitted has been or is still in it.
Accounted ==
  phase = "emitting" => \A i \in (inbox \ dead) \ Muted :
    i >= born /\ i <= batch[Len(batch)] => Emitted(i) \/ InBatch(i)

\* Without errors the baseline covers what was there before the run, and the
\* watermark every event so far.
Covered ==
  faults = 0 =>
    /\ Running => \A i \in inbox : i < born => i <= baseline
    /\ phase = "watching" => \A k \in 1..Len(events) : events[k] <= mark
    /\ phase = "emitting" => \A k \in 1..Len(events) : events[k] <= top
    /\ phase = "emitting" => \A k \in 1..Len(batch) : batch[k] >= born

IInv == TypeOK /\ Batched /\ Accounted /\ NothingSkipped /\ Covered /\ ArrivalOrder

LEMMA InitInv == Init => IInv
<1> SUFFICES ASSUME Init
             PROVE  IInv
  OBVIOUS
<1> USE DEF Init
<1>1. batch \in Seq(1..(nextId - 1)) /\ events \in Seq(Ids \ Muted) /\ Len(events) = 0
  BY EmptySeq
<1>2. TypeOK
  <2>1. /\ nextId \in 1..(MaxId + 1) /\ born \in 1..nextId /\ nextId - 1 = 0 /\ born - 1 = 0
        /\ 0 \in 0..0 /\ 0 \in 0..MaxFaults
    BY PollerAssumption
  <2>2. QED
    BY <1>1, <2>1 DEF TypeOK
<1>3. Batched /\ Accounted /\ NothingSkipped /\ Covered /\ ArrivalOrder
  BY <1>1 DEF Batched, Accounted, NothingSkipped, Covered, ArrivalOrder, Running
<1>4. QED
  BY <1>2, <1>3 DEF IInv

(***************************************************************************)
(* The inbox                                                               *)
(***************************************************************************)
\* New mail has an id above everything the monitor knows of.
LEMMA InsertInv ==
  ASSUME IInv, Insert
  PROVE  IInv'
<1> USE DEF IInv, Insert, loop
<1>1. nextId' = nextId + 1 /\ inbox' = inbox \cup {nextId}
      /\ UNCHANGED <<dead, phase, baseline, mark, batch, top, events, born, beating, told, faults>>
  OBVIOUS
<1>2. TypeOK'
  <2>1. batch \in Seq(1..nextId)
    <3>1. 1..(nextId - 1) \subseteq 1..nextId /\ batch \in Seq(1..(nextId - 1))
      BY DEF TypeOK
    <3>2. QED
      BY <3>1, SeqMonotonic
  <2>2. nextId + 1 - 1 = nextId /\ nextId \in 1..MaxId
    BY PollerAssumption DEF TypeOK
  <2>3. batch' \in Seq(1..(nextId' - 1)) /\ (phase' = "emitting" <=> batch' # <<>>)
    BY <1>1, <2>1, <2>2 DEF TypeOK
  <2>4. QED
    BY <1>1, <2>2, <2>3, PollerAssumption DEF TypeOK
<1>3. Batched'
  BY <1>1 DEF Batched
<1>4. Accounted'
  <2>1. phase = "emitting" => batch[Len(batch)] < nextId
    BY TailOf, ElementOfSeq DEF TypeOK
  <2>2. QED
    BY <1>1, <2>1 DEF TypeOK, Accounted, Emitted, InBatch
<1>5. NothingSkipped'
  BY <1>1 DEF TypeOK, NothingSkipped, Running
<1>6. Covered' /\ ArrivalOrder'
  BY <1>1 DEF TypeOK, Covered, ArrivalOrder, Running
<1>7. QED
  BY <1>2, <1>3, <1>4, <1>5, <1>6

\* Mail that dies or is deleted leaves the monitor less to answer for.
LEMMA GoneInv ==
  ASSUME IInv, NEW i \in Ids, Die(i) \/ Delete(i)
  PROVE  IInv'
<1> USE DEF IInv, loop
<1>1. /\ inbox' \subseteq inbox /\ inbox' \ dead' \subseteq inbox \ dead
      /\ UNCHANGED <<nextId, phase, baseline, mark, batch, top, events, born, beating,
                     sending, told, faults>>
  BY DEF Die, Delete
<1>2. TypeOK'
  BY <1>1 DEF TypeOK, Die, Delete
<1>3. Batched' /\ Accounted' /\ NothingSkipped'
  BY <1>1 DEF Batched, Accounted, NothingSkipped, Emitted, InBatch, Running
<1>4. Covered' /\ ArrivalOrder'
  BY <1>1 DEF Covered, ArrivalOrder, Running
<1>5. QED
  BY <1>2, <1>3, <1>4

(***************************************************************************)
(* The monitor                                                             *)
(***************************************************************************)
\* A run that starts has nothing to answer for but what is yet to come.
LEMMA StartInv ==
  ASSUME IInv, Start
  PROVE  IInv'
<1> USE DEF IInv, Start
<1>1. Newest \in 0..(nextId - 1) /\ \A i \in inbox : i <= Newest
  <2>1. inbox \cup {0} \in SUBSET (0..(nextId - 1)) /\ inbox \cup {0} # {} /\ nextId - 1 \in Nat
    BY PollerAssumption DEF TypeOK
  <2>2. QED
    BY <2>1, MaxOf DEF Newest
<1>2. baseline' \in 0..(nextId - 1)
  BY <1>1 DEF TypeOK
<1>3. faults' \in faults..MaxFaults
  BY PollerAssumption DEF TypeOK
<1>4. faults' = 0 => baseline' = Newest
  BY PollerAssumption DEF TypeOK
<1>5. TypeOK'
  BY <1>2, <1>3, EmptySeq DEF TypeOK
<1>6. Batched' /\ Accounted'
  BY DEF Batched, Accounted
<1>7. NothingSkipped'
  BY DEF TypeOK, NothingSkipped
<1>8. Covered' /\ ArrivalOrder'
  BY <1>1, <1>4, EmptySeq DEF Covered, ArrivalOrder
<1>9. QED
  BY <1>5, <1>6, <1>7, <1>8

\* The fetched rows as a sequence.
LEMMA Fetched ==
  ASSUME TypeOK, NEW rows \in [1..Cardinality(Fresh) -> Fresh]
  PROVE  /\ rows \in Seq(1..(nextId - 1)) /\ Len(rows) = Cardinality(Fresh)
         /\ \A k \in 1..Len(rows) : rows[k] \in Fresh
         /\ Range(rows) = {rows[k] : k \in 1..Len(rows)}
<1>1. Fresh \subseteq 1..(nextId - 1)
  <2>1. Fresh \subseteq inbox
    BY DEF Fresh
  <2>2. QED
    BY <2>1 DEF TypeOK
<1>2. Cardinality(Fresh) \in Nat
  <2>1. nextId - 1 \in Int
    BY PollerAssumption DEF TypeOK
  <2>2. IsFiniteSet(1..(nextId - 1))
    BY <2>1, FS_Interval
  <2>3. QED
    BY <1>1, <2>2, FS_Subset, FS_CardinalityType
<1>3. rows \in [1..Cardinality(Fresh) -> 1..(nextId - 1)]
  BY <1>1
<1>4. rows \in Seq(1..(nextId - 1)) /\ Len(rows) = Cardinality(Fresh)
  BY <1>2, <1>3, FunctionIsSeq
<1>5. QED
  BY <1>4 DEF Range

\* A batch holds every live row above the watermark.
LEMMA FetchInv ==
  ASSUME IInv, Fetch
  PROVE  IInv'
<1> USE DEF IInv, Fetch
<1>1. PICK rows \in [1..Cardinality(Fresh) -> Fresh] : InOrder(rows, Fresh) /\ batch' = rows
  OBVIOUS
<1>2. /\ batch' \in Seq(1..(nextId - 1)) /\ batch' # <<>>
      /\ \A k \in 1..Len(batch') : batch'[k] \in Fresh
      /\ \A i \in Fresh : \E k \in 1..Len(batch') : batch'[k] = i
      /\ \A j, k \in 1..Len(batch') : j < k => batch'[j] < batch'[k]
  <2>1. /\ rows \in Seq(1..(nextId - 1)) /\ \A k \in 1..Len(rows) : rows[k] \in Fresh
        /\ Range(rows) = {rows[k] : k \in 1..Len(rows)}
    BY Fetched
  <2>2. DOMAIN rows = 1..Len(rows)
    BY <2>1
  <2>3. \A i \in Fresh : \E k \in 1..Len(rows) : rows[k] = i
    BY <1>1, <2>1 DEF InOrder
  <2>4. rows # <<>>
    BY <2>3, EmptySeq
  <2>5. QED
    BY <1>1, <2>1, <2>2, <2>3, <2>4 DEF InOrder
<1>3. /\ Len(batch') \in Nat \ {0} /\ \A k \in 1..Len(batch') : batch'[k] \in Nat
      /\ \A i \in Fresh : i \in inbox \ dead /\ i > mark
  <2>1. Len(batch') \in Nat \ {0}
    BY <1>2, TailOf
  <2>2. \A k \in 1..Len(batch') : batch'[k] \in 1..(nextId - 1)
    BY <1>2, ElementOfSeq
  <2>3. QED
    BY <2>1, <2>2 DEF Fresh
<1>4. TypeOK'
  BY <1>2 DEF TypeOK
<1>5. Batched'
  BY <1>2, <1>3 DEF Batched, TypeOK
<1>6. Accounted'
  <2> SUFFICES ASSUME NEW i \in (inbox \ dead) \ Muted, i >= born
               PROVE  Emitted(i) \/ \E k \in 1..Len(batch') : batch'[k] = i
    BY DEF Accounted, Emitted, InBatch
  <2>1. CASE i <= mark
    BY <2>1 DEF NothingSkipped, Running, Emitted
  <2>2. CASE i > mark
    BY <1>2, <2>2 DEF Fresh
  <2>3. QED
    BY <2>1, <2>2 DEF TypeOK
<1>7. NothingSkipped'
  BY DEF NothingSkipped, Running
<1>8. Covered' /\ ArrivalOrder'
  BY <1>2, <1>3 DEF Covered, ArrivalOrder, TypeOK, Running
<1>9. QED
  BY <1>4, <1>5, <1>6, <1>7, <1>8

\* What has been dealt with is emitted or filtered; after the last row of the
\* batch the watermark answers for all of it.
LEMMA EmitInv ==
  ASSUME IInv, Emit
  PROVE  IInv'
<1> USE DEF IInv
<1>0. PICK i : i = Head(batch)
  OBVIOUS
<1>1. /\ phase = "emitting" /\ Len(batch) \in Nat \ {0} /\ i = batch[1] /\ i \in 1..(nextId - 1)
      /\ batch' \in Seq(1..(nextId - 1)) /\ Len(batch') = Len(batch) - 1
      /\ (batch' = <<>> <=> Len(batch) = 1)
      /\ \A k \in 1..Len(batch') : batch'[k] = batch[k + 1]
  BY <1>0, TailOf DEF Emit, TypeOK
<1>2. /\ nextId \in 1..(MaxId + 1) /\ mark \in Nat /\ top \in Nat /\ born \in Nat
      /\ mark <= top /\ top < i
      /\ \A k \in 1..Len(batch) : batch[k] \in 1..(nextId - 1)
  BY <1>1, ElementOfSeq DEF TypeOK, Batched
<1>3. /\ top' = i
      /\ IF Len(batch) = 1 THEN phase' = "watching" /\ mark' = i
                           ELSE phase' = "emitting" /\ mark' = mark
      /\ UNCHANGED <<inbox, dead, nextId, baseline, born, beating, sending, told, faults>>
  BY <1>0, <1>1, <1>2 DEF Emit
<1>4. i \in Muted => events' = events
  BY <1>0 DEF Emit
<1>5. i \notin Muted => /\ events' \in Seq(Ids \ Muted) /\ Len(events') = Len(events) + 1
                       /\ events'[Len(events) + 1] = i
                       /\ \A k \in 1..Len(events) : events'[k] = events[k]
  <2>1. i \in Ids
    BY <1>1, <1>2, PollerAssumption DEF Ids
  <2>2. QED
    BY <1>0, <2>1, AppendOf DEF Emit, TypeOK
<1>6. Len(events) \in Nat /\ \A k \in 1..Len(events) : events[k] \in Ids
  BY ElementOfSeq, LenProperties DEF TypeOK
<1>7. /\ events' \in Seq(Ids \ Muted) /\ \A j \in Ids : Emitted(j) => Emitted(j)'
      /\ i \notin Muted => Emitted(i)'
  <2>1. CASE i \in Muted
    BY <1>4, <2>1 DEF TypeOK, Emitted
  <2>2. CASE i \notin Muted
    <3>1. Len(events) + 1 \in 1..Len(events') /\ \A k \in 1..Len(events) : k \in 1..Len(events')
      BY <1>5, <1>6, <2>2
    <3>2. QED
      BY <1>5, <2>2, <3>1 DEF Emitted
  <2>3. QED
    BY <2>1, <2>2
<1>8. TypeOK'
  <2>1. mark' \in baseline..(nextId - 1) /\ top' \in 0..(nextId - 1)
    BY <1>1, <1>2, <1>3 DEF TypeOK
  <2>2. phase' \in {"watching", "emitting"} /\ (phase' = "emitting" <=> batch' # <<>>)
    BY <1>1, <1>3
  <2>3. QED
    BY <1>1, <1>3, <1>7, <2>1, <2>2 DEF TypeOK
<1>9. Batched'
  <2> SUFFICES ASSUME Len(batch) > 1
               PROVE  /\ mark <= i /\ i < batch'[1]
                      /\ \A j, k \in 1..Len(batch') : j < k => batch'[j] < batch'[k]
    BY <1>1, <1>3 DEF Batched
  <2>1. \A k \in 1..Len(batch') : k + 1 \in 1..Len(batch) /\ batch'[k] = batch[k + 1]
    BY <1>1
  <2>2. 1 \in 1..Len(batch') /\ 1 \in 1..Len(batch) /\ mark <= i
    BY <1>1, <1>2
  <2>3. \A j, k \in 1..Len(batch) : j < k => batch[j] < batch[k]
    BY <1>1 DEF Batched
  <2>4. i < batch'[1]
    BY <1>1, <2>1, <2>2, <2>3
  <2>5. ASSUME NEW j \in 1..Len(batch'), NEW k \in 1..Len(batch'), j < k
        PROVE  batch'[j] < batch'[k]
    BY <2>1, <2>3, <2>5
  <2>6. QED
    BY <2>2, <2>4, <2>5
<1>10. inbox \subseteq Ids
  BY PollerAssumption DEF TypeOK, Ids
<1>11. Accounted'
  <2> SUFFICES ASSUME Len(batch) > 1, NEW j \in (inbox \ dead) \ Muted,
                      j >= born, j <= batch'[Len(batch')]
               PROVE  Emitted(j)' \/ InBatch(j)'
    BY <1>1, <1>3 DEF Accounted
  <2>1. batch'[Len(batch')] = batch[Len(batch)]
    BY <1>1
  <2>2. Emitted(j) \/ InBatch(j)
    BY <1>1, <2>1 DEF Accounted
  <2>3. CASE Emitted(j)
    BY <1>7, <1>10, <2>3
  <2>4. ASSUME NEW k \in 1..Len(batch), batch[k] = j
        PROVE  Emitted(j)' \/ InBatch(j)'
    <3>1. CASE k = 1
      BY <1>1, <1>7, <2>4, <3>1
    <3>2. CASE k > 1
      <4>1. k - 1 \in 1..Len(batch') /\ batch'[k - 1] = j
        BY <1>1, <2>4, <3>2
      <4>2. QED
        BY <4>1 DEF InBatch
    <3>3. QED
      BY <1>1, <3>1, <3>2
  <2>5. QED
    BY <2>2, <2>3, <2>4 DEF InBatch
<1>12. NothingSkipped'
  <2> SUFFICES ASSUME NEW j \in (inbox \ dead) \ Muted, j >= born, j <= mark'
               PROVE  Emitted(j)'
    BY <1>3 DEF NothingSkipped, Emitted
  <2>1. CASE Len(batch) = 1
    BY <1>1, <1>3, <1>7, <1>10, <2>1 DEF Accounted, InBatch
  <2>2. CASE Len(batch) # 1
    <3>1. Emitted(j)
      BY <1>1, <1>3, <2>2 DEF NothingSkipped, Running, Emitted
    <3>2. QED
      BY <1>7, <1>10, <3>1
  <2>3. QED
    BY <2>1, <2>2
<1>13. ArrivalOrder'
  <2> SUFFICES ASSUME faults = 0
               PROVE  /\ \A j, k \in 1..Len(events') : j < k => events'[j] < events'[k]
                      /\ \A k \in 1..Len(events') : events'[k] >= born
    BY <1>3 DEF ArrivalOrder
  <2>1. /\ \A k \in 1..Len(events) : events[k] <= top /\ events[k] >= born
        /\ \A j, k \in 1..Len(events) : j < k => events[j] < events[k]
        /\ i >= born
    BY <1>1 DEF Covered, ArrivalOrder
  <2>2. CASE i \in Muted
    BY <1>4, <2>1, <2>2
  <2>3. CASE i \notin Muted
    <3>1. \A k \in 1..Len(events') : k \in 1..Len(events) \/ k = Len(events) + 1
      BY <1>5, <1>6, <2>3
    <3>2. \A k \in 1..Len(events) : events'[k] < i /\ events'[k] >= born
      <4> TAKE k \in 1..Len(events)
      <4>1. events'[k] = events[k] /\ events[k] \in Int /\ events[k] <= top /\ events[k] >= born
        BY <1>5, <1>6, <2>1, <2>3 DEF Ids
      <4>2. i \in Int /\ top < i
        BY <1>1, <1>2
      <4>3. QED
        BY <1>2, <4>1, <4>2
    <3>3. QED
      BY <1>1, <1>2, <1>5, <1>6, <2>1, <2>3, <3>1, <3>2
  <2>4. QED
    BY <2>2, <2>3
<1>14. Covered'
  <2> SUFFICES ASSUME faults = 0
               PROVE  /\ \A j \in inbox : j < born => j <= baseline
                      /\ \A k \in 1..Len(events') : events'[k] <= i
                      /\ \A k \in 1..Len(batch') : batch'[k] >= born
    BY <1>1, <1>3 DEF Covered, Running
  <2>1. /\ \A k \in 1..Len(events) : events[k] <= top
        /\ \A j \in inbox : j < born => j <= baseline
        /\ \A k \in 1..Len(batch) : batch[k] >= born
    BY <1>1 DEF Covered, Running
  <2>2. \A k \in 1..Len(events') : events'[k] <= i
    <3>1. CASE i \in Muted
      BY <1>1, <1>2, <1>4, <1>6, <2>1, <3>1 DEF Ids
    <3>2. CASE i \notin Muted
      <4> TAKE k \in 1..Len(events')
      <4>1. i \in Int /\ top \in Int /\ top < i
        BY <1>1, <1>2
      <4>2. CASE k = Len(events) + 1
        BY <1>5, <3>2, <4>1, <4>2
      <4>3. CASE k \in 1..Len(events)
        <5>1. events'[k] = events[k] /\ events[k] \in Int /\ events[k] <= top
          BY <1>5, <1>6, <2>1, <3>2, <4>3 DEF Ids
        <5>2. QED
          BY <4>1, <5>1
      <4>4. QED
        BY <1>5, <1>6, <3>2, <4>2, <4>3
    <3>3. QED
      BY <3>1, <3>2
  <2>3. \A k \in 1..Len(batch') : batch'[k] >= born
    BY <1>1, <2>1
  <2>4. QED
    BY <2>1, <2>2, <2>3
<1>15. QED
  BY <1>8, <1>9, <1>11, <1>12, <1>13, <1>14

\* After an error the next turn begins at the watermark that still holds.
LEMMA FaultInv ==
  ASSUME IInv, Fault
  PROVE  IInv'
<1> USE DEF IInv, Fault
<1>1. faults' \in 1..MaxFaults
  BY PollerAssumption DEF TypeOK
<1>2. TypeOK'
  BY <1>1, EmptySeq DEF TypeOK
<1>3. Batched' /\ Accounted' /\ NothingSkipped'
  BY DEF Batched, Accounted, NothingSkipped, Running
<1>4. Covered' /\ ArrivalOrder'
  BY <1>1 DEF Covered, ArrivalOrder
<1>5. QED
  BY <1>2, <1>3, <1>4

\* The end of a run, however it comes about.
LEMMA DownInv ==
  ASSUME IInv, Exit \/ Kill
  PROVE  IInv'
<1> USE DEF IInv
<1>1. /\ phase' = "down" /\ batch' = <<>> /\ beating' \in BOOLEAN
      /\ UNCHANGED <<inbox, dead, nextId, baseline, mark, top, events, born, sending, told, faults>>
  BY DEF Exit, Kill, Down, TypeOK
<1>2. TypeOK'
  BY <1>1, EmptySeq DEF TypeOK
<1>3. Batched' /\ Accounted' /\ NothingSkipped' /\ Covered' /\ ArrivalOrder'
  BY <1>1 DEF Batched, Accounted, NothingSkipped, Covered, ArrivalOrder, Running
<1>4. QED
  BY <1>2, <1>3

\* The heartbeat and the sender's reply do not touch the loop.
LEMMA OutsideInv ==
  ASSUME IInv, Assess \/ Beat \/ Lapse \/ UNCHANGED vars
  PROVE  IInv'
<1> USE DEF IInv
<1>1. /\ UNCHANGED <<inbox, dead, nextId, loop, faults>>
      /\ beating' \in BOOLEAN /\ sending' \in {0, sending} /\ told' \in {told, sending}
  BY DEF Assess, Beat, Lapse, vars, TypeOK
<1>2. TypeOK'
  BY <1>1, PollerAssumption DEF TypeOK, loop
<1>3. Batched' /\ Accounted' /\ NothingSkipped'
  BY <1>1 DEF Batched, Accounted, NothingSkipped, Emitted, InBatch, Running, loop
<1>4. Covered' /\ ArrivalOrder'
  BY <1>1 DEF Covered, ArrivalOrder, Running, loop
<1>5. QED
  BY <1>2, <1>3, <1>4

\* Every step preserves the invariant.
LEMMA NextInv == IInv /\ [Next]_vars => IInv'
  BY InsertInv, GoneInv, StartInv, FetchInv, EmitInv, FaultInv, DownInv, OutsideInv DEF Next

\* Watermark, batch and what was emitted stay in step, in every reachable state.
THEOREM Invariant == Spec => []IInv
<1>1. QED
  BY InitInv, NextInv, PTL DEF Spec

(***************************************************************************)
(* The theorems                                                            *)
(***************************************************************************)
\* Every variable keeps its type: among others, the watermark is never below
\* the baseline and never above what has arrived.
THEOREM TypeCorrect == Spec => []TypeOK
<1>1. IInv => TypeOK
  BY DEF IInv
<1>2. QED
  BY <1>1, Invariant, PTL

\* The watermark passes no mail of its run that is stored and live and not
\* filtered before it was emitted, whatever arrives, dies or is deleted in the
\* middle of a batch, and after any errors.
THEOREM SkipsNothing == Spec => []NothingSkipped
<1>1. IInv => NothingSkipped
  BY DEF IInv
<1>2. QED
  BY <1>1, Invariant, PTL

\* While there are no errors a run emits in strict order of arrival and only
\* what arrived since it began.
THEOREM InArrivalOrder == Spec => []ArrivalOrder
<1>1. IInv => ArrivalOrder
  BY DEF IInv
<1>2. QED
  BY <1>1, Invariant, PTL
=============================================================================
