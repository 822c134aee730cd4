--------------------------- MODULE HeartbeatProofs ---------------------------
(***************************************************************************)
(* For any number of monitors and registrations, and any window that       *)
(* leaves room for an interval and its delay: a healthy monitor reads as   *)
(* wakeable, and an exit leaves no heartbeat behind.                       *)
(***************************************************************************)
EXTENDS Heartbeat, TLAPS

(***************************************************************************)
(* The inductive invariant                                                 *)
(***************************************************************************)
\* A beater that is not off belongs to a monitor that authenticated once; a
\* running monitor has one; after the join it is off, unless it outlasted it.
Threads ==
  \A m \in Monitors :
    /\ beater[m] # "off" => credential[m] # Nobody
    /\ main[m] = "running" => beater[m] # "off"
    /\ main[m] = "down" => beater[m] = "off"
    /\ main[m] \in {"clearing", "erasing", "leaving"} /\ m \notin late => beater[m] = "off"
    /\ m \in left => main[m] = "down"

\* The heartbeat is no older than the time since any monitor's last beat: what
\* has gone of its interval.
Timely ==
  /\ hb = NoBeat => fresh = {}
  /\ \A m \in fresh : main[m] = "running" => hb.age + rest[m] <= Interval

\* A heartbeat that carries the owner's credential is of a monitor that still
\* does: a new owner empties the column, and credentials are not reused.
CarriedByWriter ==
  hb # NoBeat /\ hb.credential = owner => credential[hb.by] = owner

\* ExitClears, from the moment the column is erased on.
ClearedAhead ==
  \A m \in Monitors \ late :
    (m \in left \/ main[m] = "leaving") /\ hb # NoBeat /\ hb.by = m => hb.credential # owner

IInv == TypeOK /\ Threads /\ Timely /\ CarriedByWriter /\ ClearedAhead

LEMMA InitInv == Init => IInv
  BY HeartbeatAssumption
  DEF Init, IInv, TypeOK, Threads, Timely, CarriedByWriter, ClearedAhead, Nobody

(***************************************************************************)
(* The heartbeat thread                                                    *)
(***************************************************************************)
\* One step of m's beater preserves the invariant.
LEMMA BeaterInv ==
  ASSUME IInv, NEW m \in Monitors,
         BeatAuth(m) \/ BeatSkipped(m) \/ BeatWrite(m) \/ BeaterEnds(m)
  PROVE  IInv'
<1> USE HeartbeatAssumption DEF IInv, Nobody
<1>1. CASE BeatAuth(m)
  <2> USE <1>1 DEF BeatAuth, Authorized, Stopped
  <2>1. TypeOK'
    BY DEF TypeOK
  <2>2. Threads'
    BY DEF TypeOK, Threads
  <2>3. Timely' /\ CarriedByWriter' /\ ClearedAhead'
    BY DEF TypeOK, Timely, CarriedByWriter, ClearedAhead
  <2>4. QED
    BY <2>1, <2>2, <2>3
<1>2. CASE BeatSkipped(m)
  <2> USE <1>2 DEF BeatSkipped, Rest, Stopped
  <2>1. TypeOK'
    BY DEF TypeOK
  <2>2. Threads'
    BY DEF TypeOK, Threads
  <2>3. Timely'
    BY DEF TypeOK, Timely
  <2>4. CarriedByWriter' /\ ClearedAhead'
    BY DEF TypeOK, CarriedByWriter, ClearedAhead
  <2>5. QED
    BY <2>1, <2>2, <2>3, <2>4
<1>3. CASE BeatWrite(m) /\ owner = Nobody
  <2>1. hb = NoBeat /\ fresh = {}
    BY <1>3 DEF TypeOK, Timely
  <2> USE <1>3, <2>1 DEF BeatWrite, Rest, Stopped
  <2>2. TypeOK'
    BY DEF TypeOK
  <2>3. Threads'
    BY DEF TypeOK, Threads
  <2>4. Timely' /\ CarriedByWriter' /\ ClearedAhead'
    BY DEF TypeOK, Timely, CarriedByWriter, ClearedAhead
  <2>5. QED
    BY <2>2, <2>3, <2>4
<1>4. CASE BeatWrite(m) /\ owner # Nobody
  <2> USE <1>4 DEF BeatWrite, Rest, Stopped
  <2>1. credential[m] \in 1..owners
    BY DEF TypeOK, Threads
  <2>2. hb' = [age |-> 0, by |-> m, credential |-> credential[m]] /\ hb' # NoBeat
    BY <2>1
  <2>3. TypeOK'
    BY <2>1, <2>2 DEF TypeOK
  <2>4. Threads'
    BY DEF TypeOK, Threads
  <2>5. Timely'
    <3> SUFFICES ASSUME NEW w \in fresh', main[w] = "running"
                 PROVE  rest'[w] <= Interval
      BY <2>2 DEF Timely, TypeOK
    <3>1. w \in Monitors
      BY DEF TypeOK
    <3>2. QED
      BY <3>1, <2>3 DEF TypeOK
  <2>6. CarriedByWriter'
    BY <2>2 DEF CarriedByWriter
  <2>7. ClearedAhead'
    BY <2>2 DEF Threads, ClearedAhead
  <2>8. QED
    BY <2>3, <2>4, <2>5, <2>6, <2>7
<1>5. CASE BeaterEnds(m)
  <2> USE <1>5 DEF BeaterEnds, Stopped
  <2>1. TypeOK'
    BY DEF TypeOK
  <2>2. Threads'
    BY DEF TypeOK, Threads
  <2>3. Timely' /\ CarriedByWriter' /\ ClearedAhead'
    BY DEF TypeOK, Timely, CarriedByWriter, ClearedAhead
  <2>4. QED
    BY <2>1, <2>2, <2>3
<1>6. QED
  BY <1>1, <1>2, <1>3, <1>4, <1>5

(***************************************************************************)
(* The main thread                                                         *)
(***************************************************************************)
\* A step of m's main thread that leaves the column alone and starts no run.
LEMMA QuietMainInv ==
  ASSUME IInv, NEW m \in Monitors,
         Stop(m) \/ Joined(m) \/ JoinTimedOut(m) \/ ClearAuth(m) \/ ClearRefused(m)
           \/ Leave(m) \/ Kill(m)
  PROVE  IInv'
<1> USE DEF IInv, Nobody
<1>1. UNCHANGED <<owner, owners, hb, credential, rest, fresh>>
  BY DEF Stop, Joined, JoinTimedOut, ClearAuth, ClearRefused, Leave, Kill
<1>2. \A n \in Monitors : main'[n] = "running" => main[n] = "running"
  BY DEF TypeOK, Stop, Joined, JoinTimedOut, ClearAuth, ClearRefused, Leave, Kill, Gone
<1>3. TypeOK'
  BY DEF TypeOK, Stop, Joined, JoinTimedOut, ClearAuth, ClearRefused, Leave, Kill, Gone
<1>4. Threads'
  <2> USE DEF TypeOK, Threads
  <2>1. CASE Stop(m)
    BY <2>1 DEF Stop
  <2>2. CASE Joined(m) \/ JoinTimedOut(m)
    BY <2>2 DEF Joined, JoinTimedOut
  <2>3. CASE ClearAuth(m) \/ ClearRefused(m)
    BY <2>3 DEF ClearAuth, ClearRefused
  <2>4. CASE Leave(m) \/ Kill(m)
    BY <2>4 DEF Leave, Kill, Gone
  <2>5. QED
    BY <2>1, <2>2, <2>3, <2>4
<1>5. Timely'
  BY <1>1, <1>2 DEF TypeOK, Timely
<1>6. CarriedByWriter'
  BY <1>1 DEF CarriedByWriter
<1>7. ClearedAhead'
  <2> USE DEF TypeOK, ClearedAhead
  <2>1. CASE Stop(m) \/ Joined(m) \/ JoinTimedOut(m) \/ ClearAuth(m)
    BY <2>1 DEF Stop, Joined, JoinTimedOut, ClearAuth
  <2>2. CASE ClearRefused(m)
    <3>1. hb # NoBeat /\ hb.by = m => hb.credential # owner
      BY <2>2 DEF ClearRefused, Authorized, CarriedByWriter
    <3>2. QED
      BY <2>2, <3>1 DEF ClearRefused
  <2>3. CASE Leave(m) \/ Kill(m)
    BY <2>3 DEF Leave, Kill, Gone
  <2>4. QED
    BY <2>1, <2>2, <2>3
<1>8. QED
  BY <1>3, <1>4, <1>5, <1>6, <1>7

\* A new run authenticates with the owner's credential.
LEMMA StartInv ==
  ASSUME IInv, NEW m \in Monitors, Start(m)
  PROVE  IInv'
<1> USE HeartbeatAssumption DEF IInv, Start, Nobody
<1>1. TypeOK'
  BY DEF TypeOK
<1>2. Threads'
  BY DEF TypeOK, Threads
<1>3. Timely'
  BY DEF TypeOK, Timely
<1>4. CarriedByWriter'
  BY DEF TypeOK, CarriedByWriter
<1>5. ClearedAhead'
  BY DEF TypeOK, ClearedAhead
<1>6. QED
  BY <1>1, <1>2, <1>3, <1>4, <1>5

\* Emptying the column makes every promise about it hold.
LEMMA EraseInv ==
  ASSUME IInv, NEW m \in Monitors, Erase(m)
  PROVE  IInv'
<1> USE DEF IInv, Erase
<1>1. TypeOK'
  BY DEF TypeOK
<1>2. Threads'
  BY DEF TypeOK, Threads
<1>3. Timely' /\ CarriedByWriter' /\ ClearedAhead'
  BY DEF Timely, CarriedByWriter, ClearedAhead
<1>4. QED
  BY <1>1, <1>2, <1>3

(***************************************************************************)
(* The name, and time                                                      *)
(***************************************************************************)
\* Whoever takes the name or gives it up leaves an empty column.
LEMMA NameInv ==
  ASSUME IInv, Register \/ Unregister
  PROVE  IInv'
<1> USE HeartbeatAssumption DEF IInv, Nobody
<1>1. hb' = NoBeat /\ fresh' = {} /\ UNCHANGED <<credential, main, beater, rest, left, late>>
  BY DEF Register, Unregister
<1>2. owner' \in 0..owners' /\ owners' \in owners..MaxOwner
  BY DEF TypeOK, Register, Unregister
<1>3. TypeOK'
  <2>1. credential \in [Monitors -> 0..owners']
    BY <1>2 DEF TypeOK
  <2>2. QED
    BY <1>1, <1>2, <2>1 DEF TypeOK
<1>4. Threads' /\ Timely' /\ CarriedByWriter' /\ ClearedAhead'
  BY <1>1 DEF Threads, Timely, CarriedByWriter, ClearedAhead
<1>5. QED
  BY <1>3, <1>4

\* As the heartbeat ages, what is left of every running monitor's interval
\* shrinks by as much.
LEMMA TickInv ==
  ASSUME IInv, Tick
  PROVE  IInv'
<1> USE HeartbeatAssumption DEF IInv, Tick
<1>1. UNCHANGED <<owner, owners, credential, main, beater, fresh, left, late>>
  OBVIOUS
<1>2. CASE hb = NoBeat \/ hb.age > Window
  <2>1. hb' = hb
    BY <1>2
  <2>2. TypeOK'
    BY <1>1, <2>1 DEF TypeOK
  <2>3. Timely'
    BY <1>1, <2>1 DEF TypeOK, Timely
  <2>4. Threads' /\ CarriedByWriter' /\ ClearedAhead'
    BY <1>1, <2>1 DEF Threads, CarriedByWriter, ClearedAhead
  <2>5. QED
    BY <2>2, <2>3, <2>4
<1>3. CASE hb # NoBeat /\ hb.age <= Window
  <2>1. /\ hb' = [age |-> hb.age + 1, by |-> hb.by, credential |-> hb.credential]
        /\ hb' \in [age : 0..(Window + 1), by : Monitors, credential : 1..owners]
    BY <1>3 DEF TypeOK
  <2>2. hb' # NoBeat /\ hb'.age = hb.age + 1 /\ hb'.by = hb.by /\ hb'.credential = hb.credential
    BY <2>1 DEF TypeOK
  <2>3. TypeOK'
    BY <1>1, <1>3, <2>1 DEF TypeOK
  <2>4. Timely'
    <3> SUFFICES ASSUME NEW m \in fresh, main[m] = "running"
                 PROVE  hb'.age + rest'[m] <= Interval
      BY <1>1, <2>2 DEF Timely
    <3>1. m \in Monitors
      BY DEF TypeOK
    <3>2. rest'[m] = rest[m] - 1
      BY <3>1 DEF Threads, Beating
    <3>3. QED
      BY <1>3, <2>2, <3>1, <3>2 DEF TypeOK, Timely
  <2>5. Threads' /\ CarriedByWriter' /\ ClearedAhead'
    BY <1>1, <1>3, <2>2 DEF Threads, CarriedByWriter, ClearedAhead
  <2>6. QED
    BY <2>3, <2>4, <2>5
<1>4. hb = NoBeat \/ hb.age > Window \/ hb.age <= Window
  BY DEF TypeOK
<1>5. QED
  BY <1>2, <1>3, <1>4

\* Every step preserves the invariant.
LEMMA NextInv == IInv /\ [Next]_vars => IInv'
<1> SUFFICES ASSUME IInv, [Next]_vars
             PROVE  IInv'
  OBVIOUS
<1>1. ASSUME NEW m \in Monitors, BeatAuth(m) \/ BeatSkipped(m) \/ BeatWrite(m) \/ BeaterEnds(m)
      PROVE  IInv'
  BY <1>1, BeaterInv
<1>2. ASSUME NEW m \in Monitors,
             Stop(m) \/ Joined(m) \/ JoinTimedOut(m) \/ ClearAuth(m) \/ ClearRefused(m)
               \/ Leave(m) \/ Kill(m)
      PROVE  IInv'
  BY <1>2, QuietMainInv
<1>3. ASSUME NEW m \in Monitors, Start(m)
      PROVE  IInv'
  BY <1>3, StartInv
<1>4. ASSUME NEW m \in Monitors, Erase(m)
      PROVE  IInv'
  BY <1>4, EraseInv
<1>5. CASE Register \/ Unregister
  BY <1>5, NameInv
<1>6. CASE Tick
  BY <1>6, TickInv
<1>7. CASE UNCHANGED vars
  BY <1>7 DEF vars, IInv, TypeOK, Threads, Timely, CarriedByWriter, ClearedAhead
<1>8. QED
  BY <1>1, <1>2, <1>3, <1>4, <1>5, <1>6, <1>7 DEF Next

\* Beats, exits and the heartbeat column stay in step, in every reachable state.
THEOREM Invariant == Spec => []IInv
<1>1. QED
  BY InitInv, NextInv, PTL DEF Spec

(***************************************************************************)
(* The theorems                                                            *)
(***************************************************************************)
\* Every variable keeps its type; in particular no beat of a running monitor is
\* more than Delay late, and no heartbeat is left on an unregistered name.
THEOREM TypeCorrect == Spec => []TypeOK
<1>1. IInv => TypeOK
  BY DEF IInv
<1>2. QED
  BY <1>1, Invariant, PTL

\* A running monitor of the owner whose last beat went through reads as
\* wakeable to the server and is no concern of the prompt hook, between any two
\* beats, whatever other monitors do.
THEOREM HealthyReadsWakeable == Spec => []HealthyWakeable
<1>1. IInv => HealthyWakeable
  <2> SUFFICES ASSUME IInv, NEW m \in fresh, main[m] = "running"
               PROVE  Wakeable /\ ~Unmonitored
    BY DEF HealthyWakeable
  <2>1. m \in Monitors /\ hb # NoBeat
    BY DEF IInv, TypeOK, Timely
  <2>2. rest[m] \in (-Delay)..Interval /\ hb.age \in Nat /\ hb.age + rest[m] <= Interval
    BY <2>1 DEF IInv, TypeOK, Timely
  <2>3. hb.age <= Window
    BY <2>2, HeartbeatAssumption
  <2>4. QED
    BY <2>1, <2>2, <2>3, HeartbeatAssumption DEF Wakeable, Unmonitored
<1>2. QED
  BY <1>1, Invariant, PTL

\* A monitor that ended by itself leaves no heartbeat under its owner's
\* credential, unless a beat outlasted its join.
THEOREM ExitsClear == Spec => []ExitClears
<1>1. IInv => ExitClears
  BY DEF IInv, TypeOK, ClearedAhead, ExitClears
<1>2. QED
  BY <1>1, Invariant, PTL
=============================================================================
