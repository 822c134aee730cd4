------------------------------ MODULE Heartbeat ------------------------------
(***************************************************************************)
(* The heartbeat column of one name and the monitors that keep it.  Each   *)
(* monitor process has a thread that beats on a timer and a main thread    *)
(* that, on the way out, stops the beater, waits for it and clears the     *)
(* column.  Both a beat and a clear are two statements in autocommit mode: *)
(* _heartbeat_auth's SELECT, then an UPDATE that checks only the name.     *)
(*                                                                         *)
(* A registration is known by its number.  A monitor authenticates with    *)
(* the credential of the registration it was started under: the session    *)
(* id, which a later registration from the same session still carries, or  *)
(* the token.                                                              *)
(***************************************************************************)
EXTENDS Integers

CONSTANTS
  Monitors,       \* monitor processes watching the name
  NoBeat,         \* NULL in monitor_heartbeat_ms
  Window,         \* wake_window_seconds(), in clock units
  Interval,       \* HEARTBEAT_INTERVAL_SECONDS
  Delay,          \* the longest a running beater is late
  MaxOwner        \* bound on registrations by new owners

Nobody == 0       \* the name is not registered

ASSUME HeartbeatAssumption ==
  /\ NoBeat \notin [age : Nat, by : Monitors, credential : Nat]
  /\ Window \in Nat /\ Interval \in Nat \ {0} /\ Delay \in Nat
  /\ Interval + Delay <= Window
  /\ MaxOwner \in Nat

VARIABLES
  owner,       \* the credential the row in agents carries, or Nobody
  owners,      \* credentials handed out so far
  hb,          \* NoBeat, or the age of the heartbeat; history: who wrote it
  credential,  \* per monitor: what it authenticates with
  main,        \* per monitor: where its main thread is
  beater,      \* per monitor: "off", "resting", or "authorized" to write
  rest,        \* per monitor: time until its next beat is due
  fresh,       \* history: monitors whose last beat was written, since the
               \* column was last emptied
  left,        \* history: monitors whose last run ended by itself
  late         \* history: monitors whose last join gave up on the beater

vars == <<owner, owners, hb, credential, main, beater, rest, fresh, left, late>>

TypeOK ==
  /\ owner \in 0..owners /\ owners \in 0..MaxOwner
  /\ hb \in [age : 0..(Window + 1), by : Monitors, credential : 1..owners] \cup {NoBeat}
  /\ hb # NoBeat => owner # Nobody
  /\ credential \in [Monitors -> 0..owners]
  /\ main \in [Monitors -> {"down", "running", "stopping", "clearing", "erasing", "leaving"}]
  /\ beater \in [Monitors -> {"off", "resting", "authorized"}]
  /\ rest \in [Monitors -> (-Delay)..Interval]
  /\ {fresh, left, late} \subseteq SUBSET Monitors

\* Mutants of Wakeable: the last unit of the window does not count; any
\* heartbeat counts.
WakeableEarlyEnd == hb # NoBeat /\ hb.age < Window
WakeableForever == hb # NoBeat

\* _is_wakeable.
Wakeable == hb # NoBeat /\ hb.age <= Window

\* unmonitored_names: what the prompt hook tells the owner to mend.
Unmonitored == owner # Nobody /\ (hb = NoBeat \/ hb.age > Window)

\* _heartbeat_auth.
Authorized(m) == owner # Nobody /\ credential[m] = owner

(***************************************************************************)
(* The heartbeat thread                                                    *)
(***************************************************************************)
Stopped(m) == main[m] # "running"
Rest(m) ==
  /\ beater' = [beater EXCEPT ![m] = IF Stopped(m) THEN "off" ELSE "resting"]
  /\ rest' = [rest EXCEPT ![m] = Interval]

\* The timer has run out; the SELECT.
BeatAuth(m) ==
  /\ beater[m] = "resting" /\ rest[m] <= 0 /\ ~Stopped(m)
  /\ Authorized(m)
  /\ beater' = [beater EXCEPT ![m] = "authorized"]
  /\ UNCHANGED <<owner, owners, hb, credential, main, rest, fresh, left, late>>

\* The SELECT refuses, or the store raises (it is locked): the beat is
\* skipped and the failure only logged.
BeatSkipped(m) ==
  /\ beater[m] = "resting" /\ rest[m] <= 0 /\ ~Stopped(m)
  /\ Rest(m)
  /\ fresh' = fresh \ {m}
  /\ UNCHANGED <<owner, owners, hb, credential, main, left, late>>

\* The UPDATE; WHERE name = ? matches whoever holds the name by now.
BeatWrite(m) ==
  /\ beater[m] = "authorized"
  /\ IF owner = Nobody
     THEN UNCHANGED <<hb, fresh>>
     ELSE /\ hb' = [age |-> 0, by |-> m, credential |-> credential[m]]
          /\ fresh' = fresh \cup {m}
  /\ Rest(m)
  /\ UNCHANGED <<owner, owners, credential, main, left, late>>

\* stop is set: the timer's wait returns and the thread ends.
BeaterEnds(m) ==
  /\ beater[m] = "resting" /\ Stopped(m)
  /\ beater' = [beater EXCEPT ![m] = "off"]
  /\ UNCHANGED <<owner, owners, hb, credential, main, rest, fresh, left, late>>

(***************************************************************************)
(* The main thread                                                         *)
(***************************************************************************)
Start(m) ==
  /\ main[m] = "down" /\ owner # Nobody
  /\ credential' = [credential EXCEPT ![m] = owner]
  /\ main' = [main EXCEPT ![m] = "running"]
  /\ beater' = [beater EXCEPT ![m] = "resting"]
  /\ rest' = [rest EXCEPT ![m] = 0]
  /\ fresh' = fresh \ {m} /\ left' = left \ {m} /\ late' = late \ {m}
  /\ UNCHANGED <<owner, owners, hb>>

\* The finally block: stop.set, join, clear.
Stop(m) ==
  /\ main[m] = "running"
  /\ main' = [main EXCEPT ![m] = "stopping"]
  /\ UNCHANGED <<owner, owners, hb, credential, beater, rest, fresh, left, late>>

\* Mutant of Joined: the main thread does not wait for the beater.
JoinedAtOnce(m) ==
  /\ main[m] = "stopping"
  /\ main' = [main EXCEPT ![m] = "clearing"]
  /\ UNCHANGED <<owner, owners, hb, credential, beater, rest, fresh, left, late>>

Joined(m) ==
  /\ main[m] = "stopping"
  /\ beater[m] = "off"
  /\ main' = [main EXCEPT ![m] = "clearing"]
  /\ UNCHANGED <<owner, owners, hb, credential, beater, rest, fresh, left, late>>

\* A beat waits for the store longer than join's five seconds.
JoinTimedOut(m) ==
  /\ main[m] = "stopping" /\ beater[m] = "authorized"
  /\ main' = [main EXCEPT ![m] = "clearing"]
  /\ late' = late \cup {m}
  /\ UNCHANGED <<owner, owners, hb, credential, beater, rest, fresh, left>>

ClearAuth(m) ==
  /\ main[m] = "clearing"
  /\ Authorized(m)
  /\ main' = [main EXCEPT ![m] = "erasing"]
  /\ UNCHANGED <<owner, owners, hb, credential, beater, rest, fresh, left, late>>

ClearRefused(m) ==
  /\ main[m] = "clearing"
  /\ ~Authorized(m)
  /\ main' = [main EXCEPT ![m] = "leaving"]
  /\ UNCHANGED <<owner, owners, hb, credential, beater, rest, fresh, left, late>>

\* The UPDATE empties the column, whoever wrote it.
Erase(m) ==
  /\ main[m] = "erasing"
  /\ hb' = NoBeat
  /\ fresh' = {}
  /\ main' = [main EXCEPT ![m] = "leaving"]
  /\ UNCHANGED <<owner, owners, credential, beater, rest, left, late>>

\* The interpreter ends; the daemon thread ends with it.
Gone(m) ==
  /\ main' = [main EXCEPT ![m] = "down"]
  /\ beater' = [beater EXCEPT ![m] = "off"]

Leave(m) ==
  /\ main[m] = "leaving"
  /\ Gone(m)
  /\ left' = left \cup {m}
  /\ UNCHANGED <<owner, owners, hb, credential, rest, fresh, late>>

\* SIGKILL, or a clear that raised and was only logged.
Kill(m) ==
  /\ main[m] # "down"
  /\ Gone(m)
  /\ UNCHANGED <<owner, owners, hb, credential, rest, fresh, left, late>>

(***************************************************************************)
(* The name, and time                                                      *)
(***************************************************************************)
\* register, first or by force: the heartbeat is NULL.  A re-registration
\* from the same session keeps the credential session monitors use.
Register ==
  /\ \/ owner # Nobody /\ UNCHANGED <<owner, owners>>
     \/ /\ owners < MaxOwner
        /\ owners' = owners + 1 /\ owner' = owners + 1
  /\ hb' = NoBeat
  /\ fresh' = {}
  /\ UNCHANGED <<credential, main, beater, rest, left, late>>

\* Mutant of Unregister: the heartbeat outlives the name.
UnregisterKeepsBeat ==
  /\ owner # Nobody
  /\ owner' = Nobody
  /\ fresh' = {}
  /\ UNCHANGED <<owners, hb, credential, main, beater, rest, left, late>>

Unregister ==
  /\ owner # Nobody
  /\ owner' = Nobody
  /\ hb' = NoBeat
  /\ fresh' = {}
  /\ UNCHANGED <<owners, credential, main, beater, rest, left, late>>

\* A running beater is at most Delay late with its beat.
Beating(m) == main[m] = "running" /\ beater[m] # "off"
Tick ==
  /\ \A m \in Monitors : Beating(m) => rest[m] > -Delay
  /\ hb' = IF hb = NoBeat \/ hb.age > Window THEN hb ELSE [hb EXCEPT !.age = @ + 1]
  /\ rest' = [m \in Monitors |-> IF Beating(m) THEN rest[m] - 1 ELSE rest[m]]
  /\ UNCHANGED <<owner, owners, credential, main, beater, fresh, left, late>>

Init ==
  /\ owner = Nobody /\ owners = 0
  /\ hb = NoBeat
  /\ credential = [m \in Monitors |-> Nobody]
  /\ main = [m \in Monitors |-> "down"]
  /\ beater = [m \in Monitors |-> "off"]
  /\ rest = [m \in Monitors |-> 0]
  /\ fresh = {} /\ left = {} /\ late = {}

Next ==
  \/ \E m \in Monitors :
       \/ BeatAuth(m) \/ BeatSkipped(m) \/ BeatWrite(m) \/ BeaterEnds(m)
       \/ Start(m) \/ Stop(m) \/ Joined(m) \/ JoinTimedOut(m) \/ ClearAuth(m) \/ ClearRefused(m)
       \/ Erase(m) \/ Leave(m) \/ Kill(m)
  \/ Register \/ Unregister \/ Tick

Spec == Init /\ [][Next]_vars

\* Time passes; no monitor is obliged to do anything.
FairSpec == Spec /\ WF_vars(Tick)

(***************************************************************************)
(* Properties                                                              *)
(***************************************************************************)
\* HEARTBEAT_INTERVAL_SECONDS: "must stay well under store.wake_window_seconds()
\* ... so a healthy monitor never reads as stale between beats".  Healthy: it
\* is running for the name's owner and its last beat went through, since a
\* registration or an exiting monitor last emptied the column.  The servers
\* and the prompt hook agree about it.
HealthyWakeable ==
  \A m \in fresh : main[m] = "running" /\ Authorized(m) => Wakeable /\ ~Unmonitored

\* run: "Every exit clears this monitor's heartbeat".  A monitor that ended by
\* itself has left no heartbeat of its own with the owner it beat for, unless
\* a beat outlasted its join and was written after the clear.
ExitClears ==
  \A m \in left \ late : hb # NoBeat /\ hb.by = m => hb.credential # owner

\* _clear_heartbeat: "Drop this monitor's heartbeat on exit".  What an exit
\* erases is its own monitor's beat.
ClearsOwnBeat ==
  [][\A m \in Monitors :
       main[m] = "erasing" /\ main'[m] = "leaving" => hb = NoBeat \/ hb.by = m]_vars

\* _heartbeat_auth: a heartbeat "must come from the session that owns the
\* name"; a takeover never inherits a predecessor's.
HeartbeatOfOwner == hb # NoBeat => hb.credential = owner

\* A name nobody watches stops reading as wakeable by itself, however its
\* monitors ended: killed ones leave a heartbeat that only its age withdraws.
UnwatchedLapses ==
  (\A m \in Monitors : main[m] = "down")
    ~> (~Wakeable \/ \E m \in Monitors : main[m] # "down")
=============================================================================
