------------------------------- MODULE Poller -------------------------------
(***************************************************************************)
(* dlb-monitor's poll loop.  The monitor takes the highest id of one inbox *)
(* as its baseline, starts to beat, and then fetches what is above its     *)
(* watermark and emits it line by line.  It holds no lock: mail arrives,   *)
(* is withdrawn and is deleted between any two of its steps.               *)
(*                                                                         *)
(* beating is what senders see (a heartbeat inside the wake window); how   *)
(* that column is kept is the subject of module Heartbeat.  A fetch that   *)
(* fails returns no rows and changes nothing, so it has no action.         *)
(***************************************************************************)
EXTENDS Integers, SequencesExt

CONSTANTS
  MaxId,           \* bound on message ids
  Muted,           \* ids of receipts and of mail from filtered senders
  MaxFaults        \* bound on the errors that a run of the system meets

ASSUME PollerAssumption ==
  /\ MaxId \in Nat /\ MaxFaults \in Nat
  /\ Muted \subseteq 1..MaxId

VARIABLES
  inbox,       \* ids of the recipient's stored messages
  dead,        \* ids withdrawn or past their deadline
  nextId,      \* the next id; ids are never reused
  phase,       \* "down", "watching" between two polls, or "emitting" a batch
  baseline,    \* ids up to here are not this run's business
  mark,        \* the run's seen_max_id
  batch,       \* ids fetched and not yet dealt with
  top,         \* the seen_max_id of the turn that deals with the batch
  events,      \* the ids this run has emitted, in order
  born,        \* history: the first id that could arrive after the run began
  beating,     \* the inbox's owner reads as wakeable
  sending,     \* the id a sender waits for the reply about, or 0
  told,        \* history: the id it was last told would wake its recipient, or 0
  faults       \* errors so far

loop == <<phase, baseline, mark, batch, top, events, born>>
vars == <<inbox, dead, nextId, loop, beating, sending, told, faults>>

Ids == 1..MaxId
Running == phase # "down"

TypeOK ==
  /\ nextId \in 1..(MaxId + 1) /\ born \in 1..nextId
  /\ inbox \subseteq 1..(nextId - 1) /\ dead \subseteq 1..(nextId - 1)
  /\ phase \in {"down", "watching", "emitting"}
  /\ baseline \in 0..(born - 1) /\ mark \in baseline..(nextId - 1)
  /\ top \in 0..(nextId - 1)
  /\ batch \in Seq(1..(nextId - 1)) /\ (phase = "emitting" <=> batch # <<>>)
  /\ events \in Seq(Ids \ Muted)
  /\ beating \in BOOLEAN
  /\ sending \in 0..(nextId - 1) /\ told \in 0..(nextId - 1)
  /\ faults \in 0..MaxFaults

(***************************************************************************)
(* The inbox                                                               *)
(***************************************************************************)
\* send's transaction, for the sender in view or for somebody else; of a
\* receipt or a stop notice nobody waits for the reply.
Insert ==
  /\ nextId <= MaxId
  /\ inbox' = inbox \cup {nextId}
  /\ nextId' = nextId + 1
  /\ \/ sending = 0 /\ sending' = nextId
     \/ UNCHANGED sending
  /\ UNCHANGED <<dead, loop, beating, told, faults>>

\* The rest of the tool `send`, after the commit: dispatch_assessment reads
\* the heartbeat and the sender gets its reply.
Assess ==
  /\ sending # 0
  /\ sending' = 0
  /\ told' = IF beating THEN sending ELSE told
  /\ UNCHANGED <<inbox, dead, nextId, loop, beating, faults>>

\* The sender withdraws the message, or its deadline passes.
Die(i) ==
  /\ i \in inbox \ dead
  /\ dead' = dead \cup {i}
  /\ UNCHANGED <<inbox, nextId, loop, beating, sending, told, faults>>

\* The TTL or the inbox cap deletes the row.
Delete(i) ==
  /\ i \in inbox
  /\ inbox' = inbox \ {i}
  /\ UNCHANGED <<dead, nextId, loop, beating, sending, told, faults>>

(***************************************************************************)
(* The monitor                                                             *)
(***************************************************************************)
\* Mutant of Newest: the id the next message will get.
NewestAhead == nextId

\* _baseline_max_id: MAX(id) of the inbox, 0 if it is empty.
Newest == Max(inbox \cup {0})

\* The run begins; a baseline query that hits an sqlite error is answered
\* with 0.
Start ==
  /\ ~Running
  /\ \/ baseline' = Newest /\ UNCHANGED faults
     \/ baseline' = 0 /\ faults < MaxFaults /\ faults' = faults + 1
  /\ mark' = baseline'
  /\ phase' = "watching"
  /\ batch' = <<>> /\ top' = 0 /\ events' = <<>>
  /\ born' = nextId
  /\ UNCHANGED <<inbox, dead, nextId, beating, sending, told>>

\* The heartbeat thread, started after the baseline was taken.
Beat ==
  /\ Running
  /\ ~beating /\ beating' = TRUE
  /\ UNCHANGED <<inbox, dead, nextId, loop, sending, told, faults>>

\* Mutants of Fresh: the row at the watermark comes again; the row after it
\* is left out.
FreshAgain == {i \in inbox \ dead : i >= mark}
FreshLate == {i \in inbox \ dead : i > mark + 1}

\* _fetch_new: the live rows above the watermark, ORDER BY id ASC.
Fresh == {i \in inbox \ dead : i > mark}
InOrder(rows, ids) ==
  /\ Range(rows) = ids
  /\ \A j, k \in DOMAIN rows : j < k => rows[j] < rows[k]

Fetch ==
  /\ phase = "watching"
  /\ Fresh # {}
  /\ \E rows \in [1..Cardinality(Fresh) -> Fresh] :
       InOrder(rows, Fresh) /\ batch' = rows
  /\ top' = mark
  /\ phase' = "emitting"
  /\ UNCHANGED <<inbox, dead, nextId, baseline, mark, events, born,
                 beating, sending, told, faults>>

\* One turn of _poll_iteration's loop.  What has become of the row since it
\* was fetched is not looked at; the watermark that outlives an error moves
\* only when the whole batch is done.
Emit ==
  /\ phase = "emitting"
  /\ events' = IF Head(batch) \in Muted THEN events ELSE Append(events, Head(batch))
  /\ batch' = Tail(batch)
  /\ top' = IF Head(batch) > top THEN Head(batch) ELSE top
  /\ IF Len(batch) = 1 THEN phase' = "watching" /\ mark' = top'
                       ELSE UNCHANGED <<phase, mark>>
  /\ UNCHANGED <<inbox, dead, nextId, baseline, born, beating, sending, told,
                 faults>>

\* Mutant of Fault: the rest of the batch is given up.
FaultAdvances ==
  /\ phase = "emitting"
  /\ faults < MaxFaults
  /\ faults' = faults + 1
  /\ phase' = "watching" /\ batch' = <<>> /\ mark' = batch[Len(batch)]
  /\ UNCHANGED <<inbox, dead, nextId, baseline, top, events, born,
                 beating, sending, told>>

\* Formatting or printing raises something other than BrokenPipeError: the
\* loop logs it, backs off and polls again from the watermark it had.
Fault ==
  /\ phase = "emitting"
  /\ faults < MaxFaults
  /\ faults' = faults + 1
  /\ phase' = "watching" /\ batch' = <<>>
  /\ UNCHANGED <<inbox, dead, nextId, baseline, mark, top, events, born,
                 beating, sending, told>>

Down == phase' = "down" /\ batch' = <<>>

\* Stop, Ctrl-C, closed stdout, parent gone, upgrade: the heartbeat is
\* cleared on the way out.
Exit ==
  /\ Running
  /\ Down
  /\ beating' = FALSE
  /\ UNCHANGED <<inbox, dead, nextId, baseline, mark, top, events, born,
                 sending, told, faults>>

\* SIGKILL: the heartbeat stays until the wake window has passed.
Kill ==
  /\ Running
  /\ Down
  /\ UNCHANGED <<inbox, dead, nextId, baseline, mark, top, events, born,
                 beating, sending, told, faults>>

Lapse ==
  /\ ~Running /\ beating
  /\ beating' = FALSE
  /\ UNCHANGED <<inbox, dead, nextId, loop, sending, told, faults>>

Init ==
  /\ inbox = {} /\ dead = {} /\ nextId = 1
  /\ phase = "down" /\ baseline = 0 /\ mark = 0
  /\ batch = <<>> /\ top = 0 /\ events = <<>> /\ born = 1
  /\ beating = FALSE
  /\ sending = 0 /\ told = 0
  /\ faults = 0

Next ==
  \/ Insert
  \/ Assess
  \/ \E i \in Ids : Die(i) \/ Delete(i)
  \/ Start \/ Beat \/ Fetch \/ Emit \/ Fault \/ Exit \/ Kill \/ Lapse

Spec == Init /\ [][Next]_vars

\* A running monitor keeps polling and emitting.
FairSpec == Spec /\ WF_vars(Fetch) /\ WF_vars(Emit)

(***************************************************************************)
(* Properties                                                              *)
(***************************************************************************)
\* The watermark never steps over mail: whatever arrived in this run, is
\* still stored and live and is not filtered has been emitted before the
\* watermark passed its id, errors in the middle of a batch included.  This
\* rests on ids being handed out in commit order and never reused.
NothingSkipped ==
  Running => \A i \in (inbox \ dead) \ Muted :
    i >= born /\ i <= mark => \E k \in 1..Len(events) : events[k] = i

\* _fetch_new: "oldest first so events fire in arrival order".  While there
\* are no errors the events of a run are in strictly increasing order of
\* arrival, so none is repeated, and none is of mail that was there before the
\* run began.
ArrivalOrder ==
  faults = 0 =>
    /\ \A j, k \in 1..Len(events) : j < k => events[j] < events[k]
    /\ \A k \in 1..Len(events) : events[k] >= born

\* "wakeable (a live dlb-monitor heartbeat)": mail whose sender was told so
\* wakes its recipient.  It is emitted unless it is withdrawn, expires or is
\* deleted first, the monitor ends, or the monitor that vouched for it began
\* between the commit and the assessment and so counts it as old.  Errors
\* that stop recurring only delay it.
ToldMailWakes ==
  \A i \in Ids \ Muted :
    (told = i /\ i >= born) ~>
      (~Running \/ i \notin inbox \ dead \/ \E k \in 1..Len(events) : events[k] = i)
=============================================================================
