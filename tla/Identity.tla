------------------------------ MODULE Identity ------------------------------
(***************************************************************************)
(* Who owns a name: register, the takeover gate, recover_token, the        *)
(* credentials they rotate and the sidecar file that holds the reclaim     *)
(* secret.  Names do not interact, so this is the story of one name.       *)
(*                                                                         *)
(* A server process runs one call at a time.  Inside a call the database   *)
(* transaction, the write of the sidecar and the update of the process's   *)
(* cache are separate steps: other processes act, and the process may die, *)
(* between any two of them.                                                *)
(*                                                                         *)
(* Every registration or rotation mints one token and one reclaim secret;  *)
(* the n-th pair minted is the number n.  Knowing n as a token and knowing *)
(* n as a secret are different things and are kept in different variables. *)
(* A call that is refused, or that raises, changes nothing and has no      *)
(* action.                                                                 *)
(***************************************************************************)
EXTENDS Integers

CONSTANTS
  Procs,        \* server processes, each serving one agent
  NoSession,    \* no DLB_SESSION_ID in the environment
  SessionOf,    \* process -> the harness session id it carries
  NoRow,        \* the name is not registered
  Window,       \* takeover_after_seconds(), in clock units
  MaxMinted,    \* bound on the pairs of credentials minted
  Crashing,     \* processes that may die
  DiskFails,    \* TRUE if the sidecar write may fail
  CallsArePrompt \* TRUE if no call lasts as long as the takeover window

Session == {SessionOf[p] : p \in Procs} \cup {NoSession}
Pair == Nat \ {0}
Nothing == 0     \* no credential

Row == [token : Pair, secret : Pair, session : Session, silent : 0..Window]

ASSUME IdentityAssumption ==
  /\ NoRow \notin Row
  /\ Window \in Nat \ {0} /\ MaxMinted \in Nat
  /\ Crashing \subseteq Procs
  /\ DiskFails \in BOOLEAN /\ CallsArePrompt \in BOOLEAN

VARIABLES
  row,       \* the row in agents: NoRow, or the hashes of the valid token and
             \* secret, the bound session and the time since last_seen
  sidecar,   \* the secret in the sidecar file, or Nothing
  minted,    \* pairs minted so far
  cache,     \* per process: its entry in _owned_tokens, or Nothing
  call,      \* per process: where its running call stands
  token,     \* per process: the token in its agent's context, or Nothing
  noted,     \* per process: the secret its agent read from the sidecar
  spent      \* history: secrets that have won a takeover

vars == <<row, sidecar, minted, cache, call, token, noted, spent>>

Idle == [step |-> "idle"]
Checked == [step |-> "checked"]   \* recover_token found the holder silent
Calls == {Idle, Checked} \cup [step : {"stored", "returning"}, pair : Pair]

TypeOK ==
  /\ row \in Row \cup {NoRow}
  /\ sidecar \in Nat /\ minted \in Nat
  /\ cache \in [Procs -> Nat] /\ token \in [Procs -> Nat] /\ noted \in [Procs -> Nat]
  /\ call \in [Procs -> Calls]
  /\ spent \subseteq Pair

Registered == row # NoRow
TokenOk(p) == Registered /\ token[p] = row.token
SecretOk(p) == Registered /\ noted[p] = row.secret
Stale == Registered /\ row.silent = Window

(***************************************************************************)
(* register                                                                *)
(***************************************************************************)
\* Mutant of Store: a takeover leaves the reclaim secret as it was.
StoreKeepsSecret(p) ==
  /\ minted < MaxMinted
  /\ minted' = minted + 1
  /\ row' = [token |-> minted + 1,
             secret |-> IF Registered THEN row.secret ELSE minted + 1,
             session |-> SessionOf[p], silent |-> 0]
  /\ call' = [call EXCEPT ![p] = [step |-> "stored", pair |-> minted + 1]]

\* The UPDATE or INSERT: both hashes, the session binding and last_seen.
Store(p) ==
  /\ minted < MaxMinted
  /\ minted' = minted + 1
  /\ row' = [token |-> minted + 1, secret |-> minted + 1,
             session |-> SessionOf[p], silent |-> 0]
  /\ call' = [call EXCEPT ![p] = [step |-> "stored", pair |-> minted + 1]]

Register(p) ==
  /\ call[p] = Idle
  /\ ~Registered
  /\ Store(p)
  /\ UNCHANGED <<sidecar, cache, token, noted, spent>>

\* Mutant of TakeOver: the stale gate is missing.
TakeOverUngated(p) ==
  /\ call[p] = Idle
  /\ Registered
  /\ Store(p)
  /\ UNCHANGED <<sidecar, cache, token, noted, spent>>

\* force=True with the token, or with the holder silent for the window.
TakeOver(p) ==
  /\ call[p] = Idle
  /\ TokenOk(p) \/ Stale
  /\ Store(p)
  /\ UNCHANGED <<sidecar, cache, token, noted, spent>>

\* force=True with the reclaim secret from the sidecar.
Reclaim(p) ==
  /\ call[p] = Idle
  /\ SecretOk(p)
  /\ Store(p)
  /\ spent' = spent \cup {noted[p]}
  /\ UNCHANGED <<sidecar, cache, token, noted>>

\* _write_reclaim_sidecar, outside the transaction and best-effort.
WriteSidecar(p) ==
  /\ call[p].step = "stored"
  /\ \/ sidecar' = call[p].pair
     \/ DiskFails /\ UNCHANGED sidecar
  /\ call' = [call EXCEPT ![p].step = "returning"]
  /\ UNCHANGED <<row, minted, cache, token, noted, spent>>

\* _mark_owned, and the token reaches the agent.
Return(p) ==
  /\ call[p].step = "returning"
  /\ cache' = [cache EXCEPT ![p] = call[p].pair]
  /\ token' = [token EXCEPT ![p] = call[p].pair]
  /\ call' = [call EXCEPT ![p] = Idle]
  /\ UNCHANGED <<row, sidecar, minted, noted, spent>>

(***************************************************************************)
(* recover_token                                                           *)
(***************************************************************************)
\* The process owns the name: the cached token is returned as it is.
RecoverOwned(p) ==
  /\ call[p] = Idle
  /\ cache[p] # Nothing
  /\ token' = [token EXCEPT ![p] = cache[p]]
  /\ UNCHANGED <<row, sidecar, minted, cache, call, noted, spent>>

\* The agent_meta read and the checks made on it.
RecoverCheck(p) ==
  /\ call[p] = Idle
  /\ cache[p] = Nothing
  /\ Stale /\ SessionOf[p] # NoSession /\ row.session = SessionOf[p]
  /\ call' = [call EXCEPT ![p] = Checked]
  /\ UNCHANGED <<row, sidecar, minted, cache, token, noted, spent>>

\* Mutant of Rotate: recovery hands out the token that is valid already.
RotateReissues(p) ==
  /\ call[p] = Checked
  /\ Registered
  /\ row' = [row EXCEPT !.session = SessionOf[p], !.silent = 0]
  /\ call' = [call EXCEPT ![p] = [step |-> "stored", pair |-> row.token]]
  /\ UNCHANGED <<sidecar, minted, cache, token, noted, spent>>

\* rotate_token, a transaction of its own that checks only that the row is
\* there.
Rotate(p) ==
  /\ call[p] = Checked
  /\ Registered
  /\ Store(p)
  /\ UNCHANGED <<sidecar, cache, token, noted, spent>>

\* rotate_token returns False; recover_token does not look.
RotateNothing(p) ==
  /\ call[p] = Checked
  /\ ~Registered
  /\ minted < MaxMinted
  /\ minted' = minted + 1
  /\ call' = [call EXCEPT ![p] = [step |-> "returning", pair |-> minted + 1]]
  /\ UNCHANGED <<row, sidecar, cache, token, noted, spent>>

(***************************************************************************)
(* unregister, and every call that refreshes last_seen                     *)
(***************************************************************************)
Unregister(p) ==
  /\ call[p] = Idle
  /\ TokenOk(p)
  /\ row' = NoRow
  /\ cache' = [cache EXCEPT ![p] = Nothing]
  /\ UNCHANGED <<sidecar, minted, call, token, noted, spent>>

\* Mutants of Act: last_seen moves for whoever calls, valid token or not;
\* last_seen is written ahead of the clock.
ActUnchecked(p) ==
  /\ call[p] = Idle
  /\ Registered /\ token[p] # Nothing
  /\ row' = [row EXCEPT !.silent = 0]
  /\ UNCHANGED <<sidecar, minted, cache, call, token, noted, spent>>
ActAhead(p) ==
  /\ call[p] = Idle
  /\ TokenOk(p)
  /\ row' = [row EXCEPT !.silent = -1]
  /\ UNCHANGED <<sidecar, minted, cache, call, token, noted, spent>>

\* set_status and the other calls that authenticate.
Act(p) ==
  /\ call[p] = Idle
  /\ TokenOk(p)
  /\ row' = [row EXCEPT !.silent = 0]
  /\ UNCHANGED <<sidecar, minted, cache, call, token, noted, spent>>

(***************************************************************************)
(* Agents, crashes, time                                                   *)
(***************************************************************************)
\* An agent opens the sidecar the SessionStart hook names.
ReadSidecar(p) ==
  /\ sidecar # Nothing
  /\ noted' = [noted EXCEPT ![p] = sidecar]
  /\ UNCHANGED <<row, sidecar, minted, cache, call, token, spent>>

\* Context compaction: the agent forgets; its server process does not.
Compact(p) ==
  /\ token' = [token EXCEPT ![p] = Nothing]
  /\ noted' = [noted EXCEPT ![p] = Nothing]
  /\ UNCHANGED <<row, sidecar, minted, cache, call, spent>>

\* The server process dies and is respawned in the same session.
Crash(p) ==
  /\ p \in Crashing
  /\ cache' = [cache EXCEPT ![p] = Nothing]
  /\ call' = [call EXCEPT ![p] = Idle]
  /\ UNCHANGED <<row, sidecar, minted, token, noted, spent>>

Tick ==
  /\ Registered /\ row.silent < Window
  /\ CallsArePrompt => row.silent + 1 < Window \/ \A p \in Procs : call[p] = Idle
  /\ row' = [row EXCEPT !.silent = @ + 1]
  /\ UNCHANGED <<sidecar, minted, cache, call, token, noted, spent>>

Init ==
  /\ row = NoRow /\ sidecar = Nothing /\ minted = 0
  /\ cache = [p \in Procs |-> Nothing]
  /\ call = [p \in Procs |-> Idle]
  /\ token = [p \in Procs |-> Nothing]
  /\ noted = [p \in Procs |-> Nothing]
  /\ spent = {}

Next ==
  \/ \E p \in Procs :
       \/ Register(p) \/ TakeOver(p) \/ Reclaim(p) \/ WriteSidecar(p) \/ Return(p)
       \/ RecoverOwned(p) \/ RecoverCheck(p) \/ Rotate(p) \/ RotateNothing(p)
       \/ Unregister(p) \/ Act(p) \/ ReadSidecar(p) \/ Compact(p) \/ Crash(p)
  \/ Tick

Spec == Init /\ [][Next]_vars

\* Time passes; no agent or process is obliged to do anything.
FairSpec == Spec /\ WF_vars(Tick)

(***************************************************************************)
(* Properties                                                              *)
(***************************************************************************)
\* The pairs a process has in its cache, its agent's context or a reply on
\* its way to the agent.
Owned(p) ==
  {cache[p], token[p]} \cup (IF call[p] \in {Idle, Checked} THEN {} ELSE {call[p].pair})

\* However registrations, reclaims and recoveries race, the valid token is in
\* the hands of at most one process and its agent: register and rotate_token
\* always mint, recover_token hands a cached token only to the process that
\* was given it.
AtMostOneHolder ==
  \A p, q \in Procs : Registered /\ row.token \in Owned(p) \cap Owned(q) => p = q

\* sidecar_path: "the secret is single-use", so a copied sidecar works at most
\* once: a secret that has won a takeover is never valid again, whoever else
\* read it and whenever they present it.
SecretSingleUse == Registered => row.secret \notin spent

\* The stale gate: the valid token is replaced or removed only by somebody
\* who could present the valid token or secret, when the holder had been
\* silent for the whole window, or by a recover_token that had found it so.
EvictionGated ==
  [][Registered /\ (row' = NoRow \/ row'.token # row.token) =>
       \/ Stale
       \/ \E p \in Procs :
            \/ TokenOk(p) /\ (row' = NoRow \/ row'.session = SessionOf[p])
            \/ SecretOk(p) /\ row' # NoRow /\ row'.session = SessionOf[p]
            \/ call[p] = Checked /\ row' # NoRow /\ row'.session = SessionOf[p]]_vars

\* recover_token: "a live holder (recent last_seen) is never evictable this
\* way".
LiveHolderKept ==
  [][\A p \in Procs :
       call[p] = Checked /\ call'[p] # Idle /\ call'[p] # Checked /\ Registered
         => Stale]_vars

\* sidecar_path: the file holds "the current RECLAIM SECRET".
SidecarCurrent ==
  Registered /\ (\A p \in Procs : call[p] = Idle) => sidecar = row.secret

\* A name whose valid token nobody has any more (its process died before the
\* reply, or agent and process both lost it) becomes free for takeover by
\* itself: no evicted holder, whatever dead token it keeps presenting, can
\* keep the name looking alive.
OrphanLapses ==
  (Registered /\ \A p \in Procs : row.token \notin Owned(p))
    ~> (~Registered \/ Stale \/ \E p \in Procs : row.token \in Owned(p))
=============================================================================
