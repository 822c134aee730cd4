---------------------------- MODULE SetupProofs ----------------------------
(***************************************************************************)
(* For any number of runs, hooks and entries: no hook is wired twice, and  *)
(* a run that was alone with the file loses nothing of its user's.         *)
(***************************************************************************)
EXTENDS Setup, SequenceTheorems, TLAPS

(***************************************************************************)
(* The inductive invariant                                                 *)
(***************************************************************************)
\* WiredOnce of what a run is about to write.
PlansWireOnce == \A s \in Setups, h \in Hooks : Len(plan[s].wired[h]) <= 1

\* Nothing was ever put into a file that was never there.
AbsentIsNew == file = NoFile => owned = {}

\* The backup makes up for the file.
Backed == owned = {} \/ (Sound(backup) /\ owned \subseteq backup.own)

\* A run alone with the file: what it knows and has done by the time it is where
\* it is.  A broken file is one that such a run left, after it copied it.
Alone ==
  ~mixed =>
    /\ \A s, t \in Setups : Working(s) /\ Working(t) => s = t
    /\ Sound(file) => owned \subseteq file.own
    /\ file = Broken => Backed
    /\ \A s \in Setups :
         /\ Working(s) => owned \subseteq plan[s].own
         /\ pc[s] \in {"planned", "copying", "copied"} => file # Broken
         /\ pc[s] = "copied" => Backed

IInv == TypeOK /\ WiredOnce /\ PlansWireOnce /\ AbsentIsNew /\ Alone

Files == {NoFile, Broken} \cup Settings

(***************************************************************************)
(* Files and settings                                                      *)
(***************************************************************************)
LEMMA BlankSettings ==
  Blank \in Settings /\ Blank.own = {} /\ \A h \in Hooks : Len(Blank.wired[h]) <= 1
<1>1. <<>> \in Seq(Forms) /\ Len(<<>>) = 0
  BY EmptySeq
<1>2. [h \in Hooks |-> <<>>] \in [Hooks -> Seq(Forms)]
  BY <1>1
<1>3. QED
  BY <1>1, <1>2 DEF Blank, Settings

\* A file is absent, broken or sound, and only settings are sound.
LEMMA FileKinds ==
  ASSUME NEW f \in Files
  PROVE  /\ Sound(f) <=> f \in Settings
         /\ f \notin {NoFile, Broken} <=> Sound(f)
         /\ NoFile # Broken
  BY DEF Files, Sound, Settings, NoFile, Broken

\* Settings that differ in what is wired, or in the rest.
LEMMA Rewired ==
  ASSUME NEW f \in Settings, NEW w \in [Hooks -> Seq(Forms)]
  PROVE  LET g == [f EXCEPT !.wired = w]
         IN  g \in Settings /\ g.wired = w /\ g.own = f.own
  BY DEF Settings

LEMMA OwnMore ==
  ASSUME NEW f \in Settings, NEW e \in Entries
  PROVE  LET g == [f EXCEPT !.own = @ \cup {e}]
         IN  g \in Settings /\ g.wired = f.wired /\ g.own = f.own \cup {e}
  BY DEF Settings

LEMMA WiredByHand ==
  ASSUME NEW f \in Settings, NEW h \in Hooks
  PROVE  LET g == [f EXCEPT !.wired[h] = <<"typed">>]
         IN  /\ g \in Settings /\ g.own = f.own
             /\ g.wired = [f.wired EXCEPT ![h] = <<"typed">>]
<1>1. <<"typed">> \in Seq(Forms)
  BY DEF Forms
<1>2. [f.wired EXCEPT ![h] = <<"typed">>] \in [Hooks -> Seq(Forms)]
  BY <1>1 DEF Settings
<1>3. QED
  BY <1>2 DEF Settings

LEMMA InitInv == Init => IInv
<1> SUFFICES ASSUME Init
             PROVE  IInv
  OBVIOUS
<1> USE DEF Init
<1>1. TypeOK
  BY BlankSettings DEF TypeOK
<1>2. WiredOnce /\ PlansWireOnce
  BY BlankSettings DEF WiredOnce, PlansWireOnce, Sound, NoFile
<1>3. AbsentIsNew /\ Alone
  BY DEF AbsentIsNew, Alone, Working, Sound, NoFile, Broken
<1>4. QED
  BY <1>1, <1>2, <1>3 DEF IInv

(***************************************************************************)
(* A run of setup                                                          *)
(***************************************************************************)
\* A plan holds all that the file held; a hook is added only where there was
\* none.
LEMMA ReadInv ==
  ASSUME IInv, NEW s \in Setups, ReadSettings(s)
  PROVE  IInv'
<1> DEFINE now == Contents(file)
<1> USE DEF IInv
<1>1. /\ file \in Files /\ now \in Settings /\ file # Broken
      /\ \A h \in Hooks : Len(now.wired[h]) <= 1
      /\ ~mixed => owned \subseteq now.own
  <2>1. file \in Files /\ Sound(now)
    BY DEF ReadSettings, TypeOK, Files
  <2>2. CASE file = NoFile
    BY <2>1, <2>2, BlankSettings, FileKinds DEF Contents, AbsentIsNew
  <2>3. CASE file # NoFile
    BY <2>1, <2>3, FileKinds DEF Contents, WiredOnce, Alone
  <2>4. QED
    BY <2>2, <2>3
<1>2. PICK form \in Runnable :
        plan' = [plan EXCEPT ![s] =
                  [now EXCEPT !.wired = [h \in Hooks |->
                     IF h \in Missing(now) THEN Append(now.wired[h], form)
                                           ELSE now.wired[h]]]]
  BY DEF ReadSettings
<1> DEFINE more == [h \in Hooks |-> IF h \in Missing(now) THEN Append(now.wired[h], form)
                                                          ELSE now.wired[h]]
           next == [now EXCEPT !.wired = more]
<1>3. /\ pc[s] = "idle" /\ pc' = [pc EXCEPT ![s] = "planned"]
      /\ mixed' = (mixed \/ \E t \in Setups : Working(t))
      /\ UNCHANGED <<file, backup, owned>>
      /\ plan' = [plan EXCEPT ![s] = next]
  BY <1>2 DEF ReadSettings
<1>4. more \in [Hooks -> Seq(Forms)] /\ \A h \in Hooks : Len(more[h]) <= 1
  <2> SUFFICES ASSUME NEW h \in Hooks
               PROVE  more[h] \in Seq(Forms) /\ Len(more[h]) <= 1
    OBVIOUS
  <2> HIDE DEF now
  <2>1. now.wired[h] \in Seq(Forms) /\ form \in Forms
    BY <1>1 DEF Settings, Runnable, Forms
  <2>2. CASE h \in Missing(now)
    <3>1. now.wired[h] = <<>> /\ Len(<<>>) = 0
      BY <2>2, EmptySeq DEF Missing, HasCommand
    <3>2. more[h] = Append(now.wired[h], form)
      BY <2>2
    <3> HIDE DEF more
    <3>3. more[h] \in Seq(Forms) /\ Len(more[h]) = Len(now.wired[h]) + 1
      BY <2>1, <3>2, AppendProperties
    <3>4. QED
      BY <3>1, <3>3
  <2>3. CASE h \notin Missing(now)
    BY <1>1, <2>1, <2>3
  <2>4. QED
    BY <2>2, <2>3
<1> HIDE DEF now, more
<1>5. next \in Settings /\ next.wired = more /\ next.own = now.own
  BY <1>1, <1>4, Rewired
<1> HIDE DEF next
<1>6. TypeOK'
  BY <1>3, <1>5 DEF TypeOK
<1>7. WiredOnce' /\ PlansWireOnce' /\ AbsentIsNew'
  BY <1>3, <1>4, <1>5 DEF TypeOK, WiredOnce, PlansWireOnce, AbsentIsNew
<1>8. Alone'
  <2> SUFFICES ASSUME ~mixed'
               PROVE  Alone'
    BY DEF Alone
  <2>1. ~mixed /\ (\A t \in Setups : ~Working(t)) /\ plan'[s] = next
        /\ \A t \in Setups : t # s => pc'[t] = "idle"
    BY <1>3 DEF TypeOK, Working
  <2>2. QED
    BY <1>1, <1>3, <1>5, <2>1 DEF TypeOK, Alone, Working, Backed
<1>9. QED
  BY <1>6, <1>7, <1>8

\* The backup is cut and filled again while the file is still whole.
LEMMA CopyInv ==
  ASSUME IInv, NEW s \in Setups, CopyBegin(s) \/ CopyEnd(s)
  PROVE  IInv'
<1> USE DEF IInv
<1>1. /\ UNCHANGED <<file, plan, owned, mixed>> /\ backup' \in {backup, Broken, file}
      /\ Working(s) /\ pc' \in {[pc EXCEPT ![s] = "copying"], [pc EXCEPT ![s] = "copied"]}
      /\ pc[s] \in {"planned", "copying"}
  BY DEF CopyBegin, CopyEnd, Working
<1>2. TypeOK'
  BY <1>1 DEF TypeOK
<1>3. WiredOnce' /\ PlansWireOnce' /\ AbsentIsNew'
  BY <1>1 DEF WiredOnce, PlansWireOnce, AbsentIsNew, Sound, Broken
<1>4. Alone'
  <2> SUFFICES ASSUME ~mixed
               PROVE  Alone'
    BY <1>1 DEF Alone
  <2>1. /\ \A t \in Setups : t # s => ~Working(t) /\ pc'[t] = "idle"
        /\ owned \subseteq plan[s].own /\ file # Broken
        /\ file \in Files
    BY <1>1 DEF Alone, Working, TypeOK, Files
  <2>2. CASE CopyBegin(s) /\ file = NoFile
    BY <1>1, <2>1, <2>2 DEF CopyBegin, Alone, AbsentIsNew, Backed, Working, TypeOK
  <2>3. CASE CopyBegin(s) /\ file # NoFile
    BY <1>1, <2>1, <2>3 DEF CopyBegin, Alone, Working, TypeOK
  <2>4. CASE CopyEnd(s)
    <3>1. Backed'
      BY <2>1, <2>4, FileKinds DEF CopyEnd, Alone, AbsentIsNew, Backed
    <3>2. QED
      BY <1>1, <2>1, <2>4, <3>1 DEF CopyEnd, Alone, Working, TypeOK
  <2>5. QED
    BY <2>2, <2>3, <2>4
<1>5. QED
  BY <1>2, <1>3, <1>4

\* The file is cut when the backup makes up for it, and filled with all that
\* its user put there.
LEMMA WriteInv ==
  ASSUME IInv, NEW s \in Setups, WriteBegin(s) \/ WriteEnd(s) \/ Die(s)
  PROVE  IInv'
<1> USE DEF IInv
<1>1. /\ UNCHANGED <<backup, plan, owned, mixed>> /\ file' \in {file, Broken, plan[s]}
      /\ Working(s) /\ pc' \in {[pc EXCEPT ![s] = "cut"], [pc EXCEPT ![s] = "idle"]}
      /\ file' = file \/ file' # NoFile
  <2>1. plan[s] # NoFile /\ Broken # NoFile
    BY DEF TypeOK, Settings, NoFile, Broken
  <2>2. QED
    BY <2>1 DEF WriteBegin, WriteEnd, Die, Working
<1>2. TypeOK'
  BY <1>1 DEF TypeOK
<1>3. WiredOnce'
  BY <1>1 DEF WiredOnce, PlansWireOnce, Sound, Broken
<1>4. PlansWireOnce' /\ AbsentIsNew'
  BY <1>1 DEF PlansWireOnce, AbsentIsNew
<1>5. Alone'
  <2> SUFFICES ASSUME ~mixed
               PROVE  Alone'
    BY <1>1 DEF Alone
  <2>1. /\ \A t \in Setups : t # s => ~Working(t) /\ pc'[t] = "idle"
        /\ owned \subseteq plan[s].own
    BY <1>1 DEF Alone, Working, TypeOK
  <2>2. CASE WriteBegin(s)
    BY <1>1, <2>1, <2>2 DEF WriteBegin, Alone, Backed, Working, TypeOK, Sound, Broken
  <2>3. CASE WriteEnd(s)
    <3>1. plan[s] \in Settings /\ plan[s] # Broken
      BY DEF TypeOK, Settings, Broken
    <3>2. QED
      BY <1>1, <2>1, <2>3, <3>1 DEF WriteEnd, Alone, Working, TypeOK
  <2>4. CASE Die(s)
    BY <1>1, <2>1, <2>4 DEF Die, Alone, Backed, Working, TypeOK
  <2>5. QED
    BY <2>2, <2>3, <2>4
<1>6. QED
  BY <1>2, <1>3, <1>4, <1>5

(***************************************************************************)
(* The user, the harness and other tools                                   *)
(***************************************************************************)
\* A file that a run has in hand is not edited without mixed becoming TRUE.
LEMMA EditInv ==
  ASSUME IInv, Edit
  PROVE  IInv'
<1> DEFINE now == Contents(file)
<1> USE DEF IInv
<1>1. /\ file \in Files /\ now \in Settings /\ \A h \in Hooks : Len(now.wired[h]) <= 1
      /\ ~mixed => owned \subseteq now.own
  <2>1. file \in Files /\ file # Broken
    BY DEF Edit, TypeOK, Files
  <2>2. CASE file = NoFile
    BY <2>1, <2>2, BlankSettings DEF Contents, AbsentIsNew
  <2>3. CASE file # NoFile
    BY <2>1, <2>3, FileKinds DEF Contents, WiredOnce, Alone
  <2>4. QED
    BY <2>2, <2>3
<1>2. /\ UNCHANGED <<backup, pc, plan>>
      /\ mixed' = (mixed \/ \E s \in Setups : Working(s))
      /\ \/ \E e \in Entries \ owned :
              file' = [now EXCEPT !.own = @ \cup {e}] /\ owned' = owned \cup {e}
         \/ \E h \in Hooks :
              file' = [now EXCEPT !.wired[h] = <<"typed">>] /\ UNCHANGED owned
  BY DEF Edit, Disturbed
<1> HIDE DEF now
<1>3. /\ file' \in Settings /\ \A h \in Hooks : Len(file'.wired[h]) <= 1
      /\ owned' \subseteq Entries /\ (~mixed => owned' \subseteq file'.own)
  <2>1. ASSUME NEW e \in Entries \ owned,
               file' = [now EXCEPT !.own = @ \cup {e}] /\ owned' = owned \cup {e}
        PROVE  <1>3
    <3>1. file' \in Settings /\ file'.wired = now.wired /\ file'.own = now.own \cup {e}
      BY <1>1, <2>1, OwnMore
    <3>2. QED
      BY <1>1, <2>1, <3>1 DEF TypeOK
  <2>2. ASSUME NEW h \in Hooks,
               file' = [now EXCEPT !.wired[h] = <<"typed">>] /\ UNCHANGED owned
        PROVE  <1>3
    <3>1. /\ file' \in Settings /\ file'.own = now.own
          /\ file'.wired = [now.wired EXCEPT ![h] = <<"typed">>]
      BY <1>1, <2>2, WiredByHand
    <3>2. now.wired \in [Hooks -> Seq(Forms)]
      BY <1>1 DEF Settings
    <3>3. \A g \in Hooks : file'.wired[g] = IF g = h THEN <<"typed">> ELSE now.wired[g]
      BY <3>1, <3>2
    <3>4. \A g \in Hooks : Len(file'.wired[g]) <= 1
      <4> TAKE g \in Hooks
      <4>1. CASE g = h
        <5>1. file'.wired[g] = <<"typed">>
          BY <3>3, <4>1
        <5>2. QED
          BY <5>1
      <4>2. CASE g # h
        BY <1>1, <3>3, <4>2
      <4>3. QED
        BY <4>1, <4>2
    <3>5. QED
      BY <1>1, <2>2, <3>1, <3>4 DEF TypeOK
  <2>3. QED
    BY <1>2, <2>1, <2>2
<1>4. file' # NoFile /\ file' # Broken /\ mixed' \in BOOLEAN
  BY <1>2, <1>3 DEF Settings, NoFile, Broken, TypeOK
<1>5. TypeOK'
  BY <1>2, <1>3, <1>4 DEF TypeOK
<1>6. WiredOnce' /\ PlansWireOnce' /\ AbsentIsNew'
  BY <1>2, <1>3, <1>4 DEF WiredOnce, PlansWireOnce, AbsentIsNew
<1>7. Alone'
  BY <1>2, <1>3, <1>4 DEF Alone, Working
<1>8. QED
  BY <1>5, <1>6, <1>7

\* What a broken file is replaced by is all there was, if its run was alone.
LEMMA RestoreInv ==
  ASSUME IInv, Restore
  PROVE  IInv'
<1> USE DEF IInv
<1>1. /\ file = Broken /\ file' = IF Sound(backup) THEN backup ELSE Blank
      /\ mixed' = (mixed \/ \E s \in Setups : Working(s))
      /\ UNCHANGED <<backup, pc, plan, owned>>
  BY DEF Restore, Disturbed
<1>2. backup \in Files
  BY DEF TypeOK, Files
<1>3. /\ file' \in Settings /\ \A h \in Hooks : Len(file'.wired[h]) <= 1
      /\ ~mixed => owned \subseteq file'.own
  <2>1. CASE Sound(backup)
    BY <1>1, <1>2, <2>1, FileKinds DEF WiredOnce, Alone, Backed
  <2>2. CASE ~Sound(backup)
    BY <1>1, <2>2, BlankSettings DEF Alone, Backed
  <2>3. QED
    BY <2>1, <2>2
<1>4. file' # NoFile /\ file' # Broken /\ mixed' \in BOOLEAN
  BY <1>1, <1>3 DEF Settings, NoFile, Broken, TypeOK
<1>5. TypeOK'
  BY <1>1, <1>3, <1>4 DEF TypeOK
<1>6. WiredOnce' /\ PlansWireOnce' /\ AbsentIsNew'
  BY <1>1, <1>3, <1>4 DEF WiredOnce, PlansWireOnce, AbsentIsNew
<1>7. Alone'
  BY <1>1, <1>3, <1>4 DEF Alone, Working
<1>8. QED
  BY <1>5, <1>6, <1>7

\* Every step preserves the invariant.
LEMMA NextInv == IInv /\ [Next]_vars => IInv'
<1> SUFFICES ASSUME IInv, [Next]_vars
             PROVE  IInv'
  OBVIOUS
<1>1. ASSUME NEW s \in Setups, ReadSettings(s)
      PROVE  IInv'
  BY <1>1, ReadInv
<1>2. ASSUME NEW s \in Setups, CopyBegin(s) \/ CopyEnd(s)
      PROVE  IInv'
  BY <1>2, CopyInv
<1>3. ASSUME NEW s \in Setups, WriteBegin(s) \/ WriteEnd(s) \/ Die(s)
      PROVE  IInv'
  BY <1>3, WriteInv
<1>4. CASE Edit
  BY <1>4, EditInv
<1>5. CASE Restore
  BY <1>5, RestoreInv
<1>6. ASSUME UNCHANGED vars \/ \E s \in Setups : Refuse(s)
      PROVE  IInv'
  <2>1. UNCHANGED <<file, backup, pc, plan, owned, mixed>>
    BY <1>6 DEF Refuse, vars
  <2>2. TypeOK' /\ WiredOnce' /\ PlansWireOnce' /\ AbsentIsNew'
    BY <2>1 DEF IInv, TypeOK, WiredOnce, PlansWireOnce, AbsentIsNew
  <2>3. Alone'
    BY <2>1 DEF IInv, Alone, Backed, Working
  <2>4. QED
    BY <2>2, <2>3 DEF IInv
<1>7. QED
  BY <1>1, <1>2, <1>3, <1>4, <1>5, <1>6 DEF Next

\* Runs, file and backup stay in step, in every reachable state.
THEOREM Invariant == Spec => []IInv
<1>1. QED
  BY InitInv, NextInv, PTL DEF Spec

(***************************************************************************)
(* The theorems                                                            *)
(***************************************************************************)
\* Every variable keeps its type: what setup writes are settings.
THEOREM TypeCorrect == Spec => []TypeOK
<1>1. IInv => TypeOK
  BY DEF IInv
<1>2. QED
  BY <1>1, Invariant, PTL

\* However many runs there are, in turn or at once, whatever is on PATH and
\* whoever edits the file, neither the file nor its backup has a hook twice.
THEOREM NeverWiredTwice == Spec => []WiredOnce
<1>1. IInv => WiredOnce
  BY DEF IInv
<1>2. QED
  BY <1>1, Invariant, PTL

\* As long as every run is alone with the file, what its user put there is in
\* the file or in the backup, wherever runs die.
THEOREM NothingClobbered == Spec => []Recoverable
<1>1. IInv => Recoverable
  <2> SUFFICES ASSUME IInv, ~mixed, owned # {}
               PROVE  \E f \in {file, backup} : Sound(f) /\ owned \subseteq f.own
    BY DEF Recoverable
  <2>1. file \in Files /\ file # NoFile
    BY DEF IInv, TypeOK, Files, AbsentIsNew
  <2>2. CASE file = Broken
    BY <2>2 DEF IInv, Alone, Backed
  <2>3. CASE file # Broken
    BY <2>1, <2>3, FileKinds DEF IInv, Alone
  <2>4. QED
    BY <2>2, <2>3
<1>2. QED
  BY <1>1, Invariant, PTL
=============================================================================
