-------------------------------- MODULE Setup --------------------------------
(***************************************************************************)
(* `dlb-mcp setup`: wire_session_hook on the user's settings file.  It     *)
(* reads the file, adds the hooks that are missing, copies the file to     *)
(* .dlb-bak and writes it anew, with no lock and with a write in place: a  *)
(* file that is being copied or written is first cut to nothing.  The user *)
(* and the harness edit the file too, and a run may die anywhere.          *)
(*                                                                         *)
(* Parsing and quoting are abstracted to the form in which a hook is       *)
(* wired: by its script, through uvx, or as somebody typed it.             *)
(***************************************************************************)
EXTENDS Integers, Sequences

CONSTANTS
  Setups,   \* runs of the command, one after the other or at once
  Hooks,    \* REQUIRED_HOOKS
  Entries   \* what users and other tools keep in their settings

NoFile == [kind |-> "absent"]
Broken == [kind |-> "broken"]   \* cut short, or not JSON
Forms == {"script", "uvx", "typed"}

\* A file with settings: for each hook its occurrences, and the rest.
Settings == [kind : {"settings"}, wired : [Hooks -> Seq(Forms)], own : SUBSET Entries]
Blank == [kind |-> "settings", wired |-> [h \in Hooks |-> <<>>], own |-> {}]

VARIABLES
  file,    \* ~/.claude/settings.json
  backup,  \* settings.json.dlb-bak
  pc,      \* per run: "idle", "planned", "copying", "copied" or "cut"
  plan,    \* per run: the settings it is about to write
  owned,   \* history: the entries that were ever put into the file
  mixed    \* history: some run was not alone with the file, from its read to
           \* its end

vars == <<file, backup, pc, plan, owned, mixed>>

TypeOK ==
  /\ {file, backup} \subseteq {NoFile, Broken} \cup Settings
  /\ pc \in [Setups -> {"idle", "planned", "copying", "copied", "cut"}]
  /\ plan \in [Setups -> Settings]
  /\ owned \subseteq Entries
  /\ mixed \in BOOLEAN

Sound(f) == f.kind = "settings"
Working(s) == pc[s] # "idle"

(***************************************************************************)
(* A run of setup                                                          *)
(***************************************************************************)
\* Mutant of HasCommand: only the form that setup itself writes is known.
HasCommandAsWritten(f, h) == \E i \in DOMAIN f.wired[h] : f.wired[h][i] = "script"

\* _has_command: every form counts.
HasCommand(f, h) == f.wired[h] # <<>>

Missing(f) == {h \in Hooks : ~HasCommand(f, h)}

\* Mutant of Runnable: no command when neither program is on PATH.
RunnableOrNothing == {"script", "uvx", "none"}

\* _runnable: by what is on PATH just now, the script or the uvx form; with
\* neither of them the script again.
Runnable == {"script", "uvx"}

\* Mutant of Contents: a file that is no JSON counts as an empty one.
ContentsAnyway(f) == IF Sound(f) THEN f ELSE Blank

\* The settings a run starts from, NoFile standing for {}; for a file that
\* is not a JSON object the run ends (see Refuse).
Contents(f) == IF f = NoFile THEN Blank ELSE f

\* "nothing to do", or a file that is no settings: the run is over.
Refuse(s) ==
  LET now == Contents(file)
  IN  /\ pc[s] = "idle"
      /\ Sound(now) => Missing(now) = {}
      /\ UNCHANGED vars

\* Read, parse, and plan the missing hooks.
ReadSettings(s) ==
  LET now == Contents(file)
  IN  /\ pc[s] = "idle"
      /\ Sound(now) /\ Missing(now) # {}
      /\ \E form \in Runnable :
           plan' = [plan EXCEPT ![s] =
                     [now EXCEPT !.wired = [h \in Hooks |->
                        IF h \in Missing(now) THEN Append(now.wired[h], form)
                                              ELSE now.wired[h]]]]
      /\ pc' = [pc EXCEPT ![s] = "planned"]
      /\ mixed' = (mixed \/ \E t \in Setups : Working(t))
      /\ UNCHANGED <<file, backup, owned>>

\* Mutant of CopyBegin: no backup if there is one already.
CopyBeginOnce(s) ==
  /\ pc[s] = "planned"
  /\ IF file = NoFile \/ backup # NoFile
     THEN pc' = [pc EXCEPT ![s] = "copied"] /\ UNCHANGED backup
     ELSE pc' = [pc EXCEPT ![s] = "copying"] /\ backup' = Broken
  /\ UNCHANGED <<file, plan, owned, mixed>>

\* shutil.copy2 of a file that exists: the old backup is cut ...
CopyBegin(s) ==
  /\ pc[s] = "planned"
  /\ IF file = NoFile
     THEN pc' = [pc EXCEPT ![s] = "copied"] /\ UNCHANGED backup
     ELSE pc' = [pc EXCEPT ![s] = "copying"] /\ backup' = Broken
  /\ UNCHANGED <<file, plan, owned, mixed>>

\* ... and filled with what the file holds by now.
CopyEnd(s) ==
  /\ pc[s] = "copying"
  /\ backup' = file
  /\ pc' = [pc EXCEPT ![s] = "copied"]
  /\ UNCHANGED <<file, plan, owned, mixed>>

\* write_text: open for writing cuts the file ...
WriteBegin(s) ==
  /\ pc[s] = "copied"
  /\ file' = Broken
  /\ pc' = [pc EXCEPT ![s] = "cut"]
  /\ UNCHANGED <<backup, plan, owned, mixed>>

\* ... and the planned text goes in.
WriteEnd(s) ==
  /\ pc[s] = "cut"
  /\ file' = plan[s]
  /\ pc' = [pc EXCEPT ![s] = "idle"]
  /\ UNCHANGED <<backup, plan, owned, mixed>>

\* The process dies or an OSError ends the run: the files stay as they are.
Die(s) ==
  /\ Working(s)
  /\ pc' = [pc EXCEPT ![s] = "idle"]
  /\ UNCHANGED <<file, backup, plan, owned, mixed>>

(***************************************************************************)
(* The user, the harness and other tools                                   *)
(***************************************************************************)
Disturbed == mixed' = (mixed \/ \E s \in Setups : Working(s))

\* An entry is added, or a hook is wired by hand where it was not.
Edit ==
  /\ file # Broken
  /\ \/ \E e \in Entries \ owned :
          file' = [Contents(file) EXCEPT !.own = @ \cup {e}] /\ owned' = owned \cup {e}
     \/ \E h \in Hooks :
          /\ ~HasCommand(Contents(file), h)
          /\ file' = [Contents(file) EXCEPT !.wired[h] = <<"typed">>]
          /\ UNCHANGED owned
  /\ Disturbed
  /\ UNCHANGED <<backup, pc, plan>>

\* A broken file is replaced by its backup, or begun anew if there is none.
Restore ==
  /\ file = Broken
  /\ file' = IF Sound(backup) THEN backup ELSE Blank
  /\ Disturbed
  /\ UNCHANGED <<backup, pc, plan, owned>>

Init ==
  /\ file = NoFile /\ backup = NoFile
  /\ pc = [s \in Setups |-> "idle"]
  /\ plan = [s \in Setups |-> Blank]
  /\ owned = {} /\ mixed = FALSE

Next ==
  \/ \E s \in Setups :
       \/ Refuse(s) \/ ReadSettings(s) \/ CopyBegin(s) \/ CopyEnd(s)
       \/ WriteBegin(s) \/ WriteEnd(s) \/ Die(s)
  \/ Edit \/ Restore

Spec == Init /\ [][Next]_vars

(***************************************************************************)
(* Properties                                                              *)
(***************************************************************************)
\* "Idempotent: hooks already present are left alone": however often setup is
\* run, alone or several at once, with whatever is on PATH at the time, and
\* whoever else has wired a hook, no hook is ever wired twice.
WiredOnce ==
  \A f \in {file, backup} : Sound(f) => \A h \in Hooks : Len(f.wired[h]) <= 1

\* "Never clobber ... Back up before any write": as long as no run had to share
\* the file, everything its user ever put there is in the file, or in the
\* backup, after any number of runs that died anywhere, and restores.
Recoverable ==
  ~mixed => owned = {} \/ \E f \in {file, backup} : Sound(f) /\ owned \subseteq f.own
=============================================================================
