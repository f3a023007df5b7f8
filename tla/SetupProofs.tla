----------------------------- MODULE SetupProofs -----------------------------
(***************************************************************************)
(* Theorems about Setup beside ProxyCa, for every number of processes, of  *)
(* commands they run and of passwords: types, the keys of vaults, and what *)
(* a command that runs alone relies on, that what it reports ready stays,  *)
(* that a reset is never blocked, and that a proxy signs with the          *)
(* authority the system trusts.                                            *)
(***************************************************************************)
EXTENDS ProxyCa, SequenceTheorems, TLAPS

-----------------------------------------------------------------------------
(* Types.                                                                  *)

File == Nat \cup {Nothing}
Dir == [key: File, vault: VaultDoc \cup {Nothing}, ca: File, tmp: File, cert: File]

SetupSteps == {"reset", "legacy", "retire", "choose", "password", "ensureKey", "createKey",
               "writeKey", "vault", "check", "save", "open", "saveAgent", "ready", "failed"}
InstallSteps == {"findCa", "openTmp", "writeTmp", "rename", "openCert", "writeCert",
                 "openAnchor", "writeAnchor", "update", "installed", "failed"}

SetupRun == [cmd: Command, password: Generated \cup Password \cup {Nothing}, open: File,
             vault: VaultDoc \cup {Nothing}, step: SetupSteps, alone: BOOLEAN, moved: BOOLEAN]
InstallRun == [cmd: {InstallCa}, step: InstallSteps, alone: BOOLEAN, moved: BOOLEAN,
               ca: File, open: File, file: {Nothing, "tmp", "ca", "gone"}]

Run == SetupRun \cup InstallRun \cup {Nothing}

Opened == {"writeKey", "writeTmp", "writeCert", "writeAnchor"}
Keyed == {"vault", "check", "save", "open", "saveAgent"}

\* What a command has by the time it is at its step.
Dirs == 1..Len(dirs)
Has(r) ==
  /\ r.step \in Opened => r.open \in Dirs
  /\ r.step \in Keyed => r.password # Nothing
  /\ r.step \in {"saveAgent", "ready"} => r.vault # Nothing

HomeTypeOK ==
  /\ dirs \in Seq(Dir)
  /\ home \in Dirs \cup {Nothing}
  /\ run \in [Process -> Run]
  /\ \A p \in Process : run[p] # Nothing => Has(run[p])
  /\ made \in Nat

\* An agent that is saved leaves the rest of the vault as it is.
LEMMA AgentSaved ==
  ASSUME NEW doc \in VaultDoc, NEW cmd \in Command
  PROVE  LET saved == [doc EXCEPT !.agents = @ \cup {cmd.op}] IN
         saved \in VaultDoc /\ saved.password = doc.password /\ saved.issuer = doc.issuer
<1>1. cmd.op \in {"setup", "init"}
  BY DEF Command
<1>2. doc.agents \cup {cmd.op} \in SUBSET {"setup", "init"}
  BY <1>1 DEF VaultDoc
<1> DEFINE agents == doc.agents \cup {cmd.op}
<1> HIDE DEF agents
<1>3. [doc EXCEPT !.agents = agents] \in VaultDoc
  BY <1>2 DEF VaultDoc, agents
<1> QED
  BY <1>3 DEF agents, VaultDoc

\* What the files of the home become when one of them is made or replaced: the others,
\* and those of the homes before, stay as they are.
LEMMA InHomeEffect ==
  ASSUME HomeTypeOK, NEW dir \in Dir, InHome(dir)
  PROVE  /\ dirs' \in Seq(Dir) /\ home' \in Dirs' /\ Dirs \subseteq Dirs'
         /\ dirs'[home'] = dir
         /\ \A d \in Dirs' : d # home' => d \in Dirs /\ dirs'[d] = dirs[d]
         /\ \/ home = Nothing /\ home' \notin Dirs
            \/ home \in Dirs /\ home' = home
<1>1. CASE home = Nothing
  <2>1. home' = Len(dirs) + 1 /\ dirs' = Append(dirs, dir)
    BY <1>1 DEF InHome
  <2>2. /\ dirs' \in Seq(Dir) /\ Len(dirs') = Len(dirs) + 1
        /\ dirs'[Len(dirs) + 1] = dir
        /\ \A d \in 1..Len(dirs) : dirs'[d] = dirs[d]
    BY <2>1, AppendProperties DEF HomeTypeOK
  <2>3. Len(dirs) \in Nat
    BY DEF HomeTypeOK
  <2> QED
    BY <1>1, <2>1, <2>2, <2>3 DEF Dirs
<1>2. CASE home \in Dirs
  <2>1. home' = home /\ dirs' = [dirs EXCEPT ![home] = dir]
    BY <1>2, SetupAssumption DEF InHome, Dirs
  <2>2. /\ dirs' \in Seq(Dir) /\ Len(dirs') = Len(dirs)
        /\ \A d \in 1..Len(dirs) : dirs'[d] = IF d = home THEN dir ELSE dirs[d]
    BY <1>2, <2>1, ExceptSeq DEF HomeTypeOK, Dirs
  <2> QED
    BY <1>2, <2>1, <2>2 DEF Dirs
<1> QED
  BY <1>1, <1>2 DEF HomeTypeOK

\* The same of a file written through an open handle.
LEMMA WriteEffect ==
  ASSUME HomeTypeOK, NEW d \in Dirs, NEW dir \in Dir, dirs' = [dirs EXCEPT ![d] = dir]
  PROVE  /\ dirs' \in Seq(Dir) /\ Dirs' = Dirs
         /\ dirs'[d] = dir
         /\ \A e \in Dirs : e # d => dirs'[e] = dirs[e]
<1>1. /\ dirs' \in Seq(Dir) /\ Len(dirs') = Len(dirs)
      /\ \A e \in 1..Len(dirs) : dirs'[e] = IF e = d THEN dir ELSE dirs[e]
  BY ExceptSeq DEF HomeTypeOK, Dirs
<1> QED
  BY <1>1 DEF Dirs

\* What the paths show is a directory's files, or none.
LEMMA HereIsDir ==
  ASSUME HomeTypeOK
  PROVE  /\ Here \in Dir
         /\ home = Nothing => Here = NoDir
         /\ home \in Dirs => home # Nothing /\ Here = dirs[home]
<1>1. NoDir \in Dir
  BY DEF NoDir, Dir, File
<1>2. \A d \in Dirs : dirs[d] \in Dir /\ d # Nothing
  BY SetupAssumption DEF HomeTypeOK, Dirs
<1> QED
  BY <1>1, <1>2 DEF Here, HomeTypeOK

\* The record of a process that is at a step of its own kind.
LEMMA KindOfRun ==
  ASSUME HomeTypeOK, NEW p \in Process, run[p] # Nothing
  PROVE  /\ run[p].step \in SetupSteps \ {"failed"} => run[p] \in SetupRun
         /\ run[p].step \in InstallSteps \ {"failed"} => run[p] \in InstallRun
         /\ run[p] \in SetupRun \cup InstallRun
         /\ run[p] \in SetupRun <=> run[p] \notin InstallRun
         /\ p \in Installing <=> run[p] \in InstallRun
<1>1. run[p] \in SetupRun \cup InstallRun
  BY DEF HomeTypeOK, Run
<1>2. SetupSteps \cap InstallSteps = {"failed"}
  BY DEF SetupSteps, InstallSteps
<1>3. \A r \in SetupRun : r.step \in SetupSteps /\ r.cmd \in Command
  BY DEF SetupRun
<1>4. \A r \in InstallRun : r.step \in InstallSteps /\ r.cmd = InstallCa
  BY DEF InstallRun
<1>5. InstallCa \notin Command
  BY DEF InstallCa, Command
<1> QED
  BY <1>1, <1>2, <1>3, <1>4, <1>5 DEF Installing, Busy

\* What a process keeps while others begin and archive.
Steady(q) ==
  /\ run'[q].cmd = run[q].cmd /\ run'[q].step = run[q].step /\ run'[q].open = run[q].open
  /\ run[q] \in SetupRun => /\ run'[q] \in SetupRun
                            /\ run'[q].password = run[q].password
                            /\ run'[q].vault = run[q].vault
  /\ run[q] \in InstallRun => /\ run'[q] \in InstallRun
                              /\ run'[q].ca = run[q].ca

Others(p) ==
  \A q \in Process \ {p} :
    \/ run'[q] = run[q]
    \/ run[q] = Nothing /\ run'[q] = Nothing
    \/ /\ q \in Busy /\ Steady(q)
       /\ run'[q].moved \/ run'[q].moved = run[q].moved
       /\ ~run'[q].alone \/ run'[q].alone = run[q].alone

LEMMA AloneMarked ==
  ASSUME HomeTypeOK, NEW q \in Busy, run'[q] = [run[q] EXCEPT !.alone = FALSE]
  PROVE  Steady(q) /\ run'[q] \in Run /\ ~run'[q].alone /\ run'[q].moved = run[q].moved
<1>1. CASE run[q] \in SetupRun
  <2>1. run[q] \notin InstallRun
    BY <1>1, KindOfRun DEF Busy
  <2> QED
    BY <1>1, <2>1 DEF SetupRun, Steady, Run
<1>2. CASE run[q] \in InstallRun
  <2>1. run[q] \notin SetupRun
    BY <1>2, KindOfRun DEF Busy
  <2> QED
    BY <1>2, <2>1 DEF InstallRun, Steady, Run
<1> QED
  BY <1>1, <1>2 DEF HomeTypeOK, Busy, Run

LEMMA MovedMarked ==
  ASSUME HomeTypeOK, NEW q \in Busy, run'[q] = [run[q] EXCEPT !.moved = TRUE]
  PROVE  Steady(q) /\ run'[q] \in Run /\ run'[q].moved /\ run'[q].alone = run[q].alone
<1>1. CASE run[q] \in SetupRun
  <2>1. run[q] \notin InstallRun
    BY <1>1, KindOfRun DEF Busy
  <2> QED
    BY <1>1, <2>1 DEF SetupRun, Steady, Run
<1>2. CASE run[q] \in InstallRun
  <2>1. run[q] \notin SetupRun
    BY <1>2, KindOfRun DEF Busy
  <2> QED
    BY <1>2, <2>1 DEF InstallRun, Steady, Run
<1> QED
  BY <1>1, <1>2 DEF HomeTypeOK, Busy, Run

\* A command begins: it is the only one at its first step, the others are not alone now.
LEMMA StartsEffect ==
  ASSUME HomeTypeOK, NEW p \in Process, NEW r \in SetupRun \cup InstallRun, Starts(p, r)
  PROVE  /\ run[p] = Nothing /\ run'[p] = r /\ run' \in [Process -> Run]
         /\ Others(p) /\ \A q \in Process \ {p} : run'[q] # Nothing => ~run'[q].alone
<1>1. /\ run[p] = Nothing /\ run'[p] = r
      /\ \A q \in Process \ {p} : run'[q] = IF q \in Busy THEN [run[q] EXCEPT !.alone = FALSE]
                                                         ELSE run[q]
      /\ run' = [q \in Process |-> run'[q]]
  BY DEF Starts
<1>2. \A q \in Process \ {p} :
        \/ run[q] = Nothing /\ run'[q] = Nothing
        \/ /\ q \in Busy /\ Steady(q) /\ ~run'[q].alone /\ run'[q].moved = run[q].moved
           /\ run'[q] \in Run
  BY <1>1, AloneMarked DEF Busy
<1>3. \A q \in Process : run'[q] \in Run
  BY <1>1, <1>2 DEF Run
<1> QED
  BY <1>1, <1>2, <1>3 DEF Others, Busy

\* The home is archived: the others are moved from under.
LEMMA ArchiveEffect ==
  ASSUME HomeTypeOK, NEW p \in Process, run[p] \in SetupRun, Archive(p, "choose")
  PROVE  /\ home' = Nothing /\ UNCHANGED <<dirs, made, strayed, ready>>
         /\ run'[p] = [run[p] EXCEPT !.step = "choose"] /\ run'[p] \in SetupRun
         /\ run'[p].step = "choose" /\ run' \in [Process -> Run]
         /\ Others(p) /\ \A q \in Process \ {p} : run'[q] # Nothing => run'[q].moved
<1>1. /\ home' = Nothing /\ UNCHANGED <<dirs, made, strayed, ready>>
      /\ run'[p] = [run[p] EXCEPT !.step = "choose"]
      /\ \A q \in Process \ {p} : run'[q] = IF q \in Busy THEN [run[q] EXCEPT !.moved = TRUE]
                                                         ELSE run[q]
      /\ run' = [q \in Process |-> run'[q]]
  BY DEF Archive, Renamed
<1>2. run'[p] \in SetupRun /\ run'[p].step = "choose"
  BY <1>1 DEF SetupRun, SetupSteps
<1>3. \A q \in Process \ {p} :
        \/ run[q] = Nothing /\ run'[q] = Nothing
        \/ /\ q \in Busy /\ Steady(q) /\ run'[q].moved /\ run'[q].alone = run[q].alone
           /\ run'[q] \in Run
  BY <1>1, MovedMarked DEF Busy
<1>4. \A q \in Process : run'[q] \in Run
  BY <1>2, <1>3 DEF Run
<1> QED
  BY <1>1, <1>2, <1>3, <1>4 DEF Others

\* One process goes on.
LEMMA MoveEffect ==
  ASSUME HomeTypeOK, NEW p \in Process, NEW r \in Run, run' = [run EXCEPT ![p] = r]
  PROVE  /\ run' \in [Process -> Run] /\ run'[p] = r /\ Others(p)
BY DEF HomeTypeOK, Run, Others

\* A process at its next step has the record of its command.
LEMMA GotoEffect ==
  ASSUME HomeTypeOK, NEW p \in Process, NEW step, Goto(p, step),
         \/ run[p] \in SetupRun /\ step \in SetupSteps
         \/ run[p] \in InstallRun /\ step \in InstallSteps
  PROVE  /\ run' \in [Process -> Run] /\ run'[p] = [run[p] EXCEPT !.step = step]
         /\ run'[p].step = step
         /\ run[p] \in SetupRun /\ step \in SetupSteps => run'[p] \in SetupRun
         /\ run[p] \in InstallRun /\ step \in InstallSteps => run'[p] \in InstallRun
         /\ Others(p)
<1> DEFINE r == [run[p] EXCEPT !.step = step]
<1>1. /\ r \in Run /\ r.step = step
      /\ run[p] \in SetupRun /\ step \in SetupSteps => r \in SetupRun
      /\ run[p] \in InstallRun /\ step \in InstallSteps => r \in InstallRun
  <2>1. CASE run[p] \in SetupRun /\ step \in SetupSteps
    <3>1. r \in SetupRun /\ r.step = step
      BY <2>1 DEF SetupRun
    <3>2. run[p] \in InstallRun /\ step \in InstallSteps => r \in InstallRun
      BY DEF InstallRun
    <3> QED
      BY <3>1, <3>2 DEF Run
  <2>2. CASE run[p] \in InstallRun /\ step \in InstallSteps
    <3>1. r \in InstallRun /\ r.step = step
      BY <2>2 DEF InstallRun
    <3>2. run[p] \in SetupRun /\ step \in SetupSteps => r \in SetupRun
      BY DEF SetupRun
    <3> QED
      BY <3>1, <3>2 DEF Run
  <2> QED
    BY <2>1, <2>2
<1>2. run' = [run EXCEPT ![p] = r]
  BY DEF Goto
<1> HIDE DEF r
<1>3. run' \in [Process -> Run] /\ run'[p] = r /\ Others(p)
  BY <1>1, <1>2, MoveEffect
<1> QED
  BY <1>1, <1>3 DEF r

LEMMA TypeOfStep ==
  ASSUME HomeTypeOK, dirs' \in Seq(Dir), Dirs \subseteq Dirs', home' \in Dirs' \cup {Nothing},
         made' \in Nat, run' \in [Process -> Run],
         NEW p \in Process,
         Others(p),
         run'[p] # Nothing => Has(run[p])'
  PROVE  HomeTypeOK'
<1>1. ASSUME NEW q \in Process \ {p}, run'[q] # Nothing PROVE Has(run[q])'
  <2>1. run[q] # Nothing /\ Has(run[q])
    BY <1>1 DEF HomeTypeOK, Busy, Others
  <2>2. CASE run'[q] = run[q]
    BY <2>1, <2>2 DEF Has
  <2>3. CASE Steady(q)
    <3>1. run[q].step \in Keyed \cup {"saveAgent", "ready"} => run[q] \in SetupRun
      BY <2>1, KindOfRun DEF Keyed, SetupSteps
    <3> QED
      BY <2>1, <2>3, <3>1 DEF Has, Steady
  <2> QED
    BY <1>1, <2>2, <2>3 DEF Others
<1> QED
  BY <1>1 DEF HomeTypeOK

\* The same when no file is touched.
LEMMA TypeOfLook ==
  ASSUME HomeTypeOK, home' \in {home, Nothing}, UNCHANGED <<dirs, made>>,
         run' \in [Process -> Run],
         NEW p \in Process,
         Others(p),
         run'[p] # Nothing => Has(run'[p])
  PROVE  HomeTypeOK'
<1>1. /\ dirs' \in Seq(Dir) /\ Dirs' = Dirs /\ made' \in Nat
      /\ home' \in Dirs' \cup {Nothing}
  BY DEF HomeTypeOK, Dirs
<1>2. run'[p] # Nothing => Has(run[p])'
  BY <1>1 DEF Has
<1> QED
  BY <1>1, <1>2, TypeOfStep

LEMMA TypeOfGoto ==
  ASSUME HomeTypeOK, UNCHANGED <<home, dirs, made>>, NEW p \in Process, NEW step, Goto(p, step),
         \/ run[p] \in SetupRun /\ step \in SetupSteps
         \/ run[p] \in InstallRun /\ step \in InstallSteps,
         run'[p] # Nothing => Has(run'[p])
  PROVE  HomeTypeOK'
BY GotoEffect, TypeOfLook

\* A save, or a file made or written, and one process goes on.
LEMMA TypeOfSave ==
  ASSUME HomeTypeOK, NEW dir \in Dir, InHome(dir), made' \in Nat,
         NEW p \in Process, NEW r \in Run, run' = [run EXCEPT ![p] = r],
         r # Nothing => /\ r.step \in Opened => r.open = home'
                        /\ r.step \in Keyed => r.password # Nothing
                        /\ r.step \in {"saveAgent", "ready"} => r.vault # Nothing
  PROVE  HomeTypeOK'
<1>1. run'[p] = r /\ home' \in Dirs'
  BY InHomeEffect, MoveEffect
<1>2. run'[p] # Nothing => Has(run[p])'
  BY <1>1 DEF Has
<1> QED
  BY <1>2, InHomeEffect, MoveEffect, TypeOfStep

LEMMA TypeOfWrite ==
  ASSUME HomeTypeOK, NEW d \in Dirs, NEW dir \in Dir, dirs' = [dirs EXCEPT ![d] = dir],
         UNCHANGED home, made' \in Nat,
         NEW p \in Process, NEW r \in Run, run' = [run EXCEPT ![p] = r],
         r # Nothing => Has(r)
  PROVE  HomeTypeOK'
<1>1. dirs' \in Seq(Dir) /\ Dirs' = Dirs
  BY WriteEffect
<1>2. home' \in Dirs' \cup {Nothing}
  BY <1>1 DEF HomeTypeOK
<1>3. run'[p] = r
  BY MoveEffect
<1>4. run'[p] # Nothing => Has(run[p])'
  BY <1>1, <1>3 DEF Has
<1> QED
  BY <1>1, <1>2, <1>4, MoveEffect, TypeOfStep

LEMMA SetupStepType ==
  ASSUME HomeTypeOK, NEW p \in Process, Step(p)
  PROVE  HomeTypeOK'
<1> USE SetupAssumption
<1>a. /\ run[p] # Nothing
      /\ run[p].step \in SetupSteps \ {"failed"} /\ run[p] \in SetupRun
  <2>1. run[p] # Nothing /\ run[p].step \in SetupSteps \ {"failed"}
    BY DEF Step, Reset, Legacy, Retire, Choose, ReadPassword, EnsureKey, CreateKey, WriteKey,
           FindVault, Check, SaveNew, Open, SaveAgent, Report, At, SetupSteps
  <2> QED
    BY <2>1, KindOfRun
<1>b. Here \in Dir
  BY HereIsDir
<1>c. run[p].cmd \in Command
  BY <1>a DEF SetupRun
<1>d. Has(run[p])
  BY <1>a DEF HomeTypeOK
<1>1. ASSUME NEW step \in SetupSteps, Goto(p, step), Same,
             step \in Opened \cup Keyed \cup {"saveAgent", "ready"} =>
               step \in Keyed /\ run[p].password # Nothing /\ step # "saveAgent"
      PROVE  HomeTypeOK'
  <2>1. run'[p] = [run[p] EXCEPT !.step = step]
    BY <1>a, <1>1, GotoEffect
  <2>2. Has(run'[p])
    BY <1>a, <1>1, <2>1 DEF SetupRun, Has, Opened, Keyed
  <2> QED
    BY <1>a, <1>1, <2>2, TypeOfGoto DEF Same, Disk
<1>2. CASE Archive(p, "choose")
  <2>1. Has(run'[p])
    BY <1>a, <1>2, ArchiveEffect DEF Has, Opened, Keyed
  <2> QED
    BY <1>a, <1>2, <2>1, ArchiveEffect, TypeOfLook
<1>3. ASSUME NEW step \in {"vault", "open"}, NEW password \in Generated \cup Password,
             GotoWith(p, step, password), Same
      PROVE  HomeTypeOK'
  <2> DEFINE r == [run[p] EXCEPT !.step = step, !.password = password]
  <2>1. r \in SetupRun /\ r.step = step /\ r.password = password
    BY <1>a DEF SetupRun, SetupSteps
  <2>2. run' = [run EXCEPT ![p] = r]
    BY <1>3 DEF GotoWith
  <2>3. home' \in {home, Nothing} /\ UNCHANGED <<dirs, made>>
    BY <1>3 DEF Same, Disk
  <2>4. Has(r)
    BY <2>1 DEF Has, Opened, Keyed, Generated
  <2> HIDE DEF r
  <2> QED
    BY <2>1, <2>2, <2>3, <2>4, MoveEffect, TypeOfLook DEF Run
<1>4. CASE Reset(p)
  BY <1>1, <1>2, <1>4 DEF Reset, SetupSteps, Opened, Keyed
<1>5. CASE Legacy(p)
  BY <1>1, <1>5 DEF Legacy, SetupSteps, Opened, Keyed
<1>6. CASE Retire(p)
  BY <1>1, <1>2, <1>6 DEF Retire, SetupSteps, Opened, Keyed
<1>7. CASE Choose(p)
  BY <1>1, <1>7 DEF Choose, SetupSteps, Opened, Keyed
<1>8. CASE ReadPassword(p)
  <2>1. run[p].cmd.given # Nothing => run[p].cmd.given \in Password
    BY <1>c DEF Command
  <2>2. Here.key \notin {Nothing, Empty} => Here.key \in Generated
    BY <1>b DEF Dir, File, Generated, Empty
  <2> QED
    BY <1>1, <1>3, <1>8, <2>1, <2>2 DEF ReadPassword, SetupSteps, Opened, Keyed
<1>9. CASE EnsureKey(p)
  <2>1. run[p].cmd.given # Nothing => run[p].cmd.given \in Password
    BY <1>c DEF Command
  <2>2. Here.key \notin {Nothing, Empty} => Here.key \in Generated
    BY <1>b DEF Dir, File, Generated, Empty
  <2> QED
    BY <1>1, <1>3, <1>9, <2>1, <2>2 DEF EnsureKey, SetupSteps, Opened, Keyed
<1>10. CASE CreateKey(p)
  <2>1. CASE Goto(p, "failed") /\ UNCHANGED <<home, dirs>>
    BY <1>1, <1>10, <2>1 DEF CreateKey, Same, Disk, SetupSteps, Opened, Keyed
  <2>2. CASE InHome([Here EXCEPT !.key = Empty])
             /\ run' = [run EXCEPT ![p].step = "writeKey", ![p].open = home']
    <3> DEFINE r == [run[p] EXCEPT !.step = "writeKey", !.open = home']
    <3>1. [Here EXCEPT !.key = Empty] \in Dir
      BY <1>b DEF Dir, File, Empty
    <3>2. home' \in Nat
      BY <2>2, <3>1, InHomeEffect DEF Dirs
    <3>3. r \in SetupRun /\ r.open = home' /\ r.step = "writeKey"
      BY <1>a, <3>2 DEF SetupRun, SetupSteps, File
    <3>4. run' = [run EXCEPT ![p] = r]
      BY <2>2
    <3>5. made' \in Nat
      BY <1>10 DEF CreateKey, HomeTypeOK
    <3> HIDE DEF r
    <3> QED
      BY <2>2, <3>1, <3>3, <3>4, <3>5, TypeOfSave DEF Run, Keyed
  <2> QED
    BY <1>10, <2>1, <2>2 DEF CreateKey
<1>11. CASE WriteKey(p)
  <2> DEFINE key == made + 1
             r == [run[p] EXCEPT !.step = "vault", !.password = key]
             d == run[p].open
             dir == [dirs[d] EXCEPT !.key = key]
  <2>1. key \in Generated /\ key \in Nat /\ made' = key
    BY <1>11 DEF WriteKey, HomeTypeOK, Generated, Empty
  <2>2. dirs' = [dirs EXCEPT ![d] = dir] /\ run' = [run EXCEPT ![p] = r] /\ UNCHANGED home
    BY <1>11 DEF WriteKey, GotoWith
  <2> HIDE DEF key
  <2>3. d \in Dirs
    BY <1>d, <1>11 DEF WriteKey, At, Has, Opened
  <2>4. dir \in Dir
    <3>1. dirs[d] \in Dir
      BY <2>3 DEF HomeTypeOK, Dirs
    <3> QED
      BY <2>1, <3>1 DEF Dir, File
  <2>5. r \in SetupRun /\ r.step = "vault" /\ r.password = key
    BY <1>a, <2>1 DEF SetupRun, SetupSteps
  <2>6. Has(r)
    BY <2>1, <2>5 DEF Has, Opened, Keyed
  <2>7. r \in Run
    BY <2>5 DEF Run
  <2> HIDE DEF r, d, dir
  <2> QED
    BY <2>1, <2>2, <2>3, <2>4, <2>6, <2>7, TypeOfWrite
<1>12. CASE FindVault(p)
  <2>1. run[p].password # Nothing
    BY <1>d, <1>12 DEF FindVault, At, Has, Keyed
  <2> QED
    BY <1>1, <1>12, <2>1 DEF FindVault, SetupSteps, Opened, Keyed
<1>13. CASE Check(p)
  <2>1. run[p].password # Nothing
    BY <1>d, <1>13 DEF Check, At, Has, Keyed
  <2> QED
    BY <1>1, <1>13, <2>1 DEF Check, SetupSteps, Opened, Keyed
<1>14. CASE SaveNew(p)
  <2> DEFINE vault == [password |-> run[p].password, issuer |-> made', agents |-> {}]
             step == IF run[p].cmd.op = "setup" THEN "open" ELSE "password"
             r == [run[p] EXCEPT !.step = step]
             dir == [Here EXCEPT !.vault = vault]
  <2>1. made' \in Nat /\ run' = [run EXCEPT ![p] = r] /\ InHome(dir)
    BY <1>14 DEF SaveNew, Save, Goto, HomeTypeOK
  <2>2. run[p].password # Nothing
    BY <1>d, <1>14 DEF SaveNew, At, Has, Keyed
  <2>3. vault \in VaultDoc
    BY <1>a, <2>1, <2>2 DEF SetupRun, VaultDoc
  <2>4. dir \in Dir
    BY <1>b, <2>3 DEF Dir
  <2>5. r \in Run /\ r.step \in {"open", "password"} /\ r.password # Nothing
    BY <1>a, <2>2 DEF SetupRun, SetupSteps, Run
  <2> HIDE DEF r, dir
  <2> QED
    BY <2>1, <2>4, <2>5, TypeOfSave DEF Opened
<1>15. CASE Open(p)
  <2>1. run[p].password # Nothing
    BY <1>d, <1>15 DEF Open, At, Has, Keyed
  <2>2. CASE Opens(p)
    <3> DEFINE step == IF HasAgent(run[p].cmd.op, Here.vault) THEN "ready" ELSE "saveAgent"
               r == [run[p] EXCEPT !.vault = Here.vault, !.step = step]
    <3>1. Here.vault # Nothing /\ Here.vault \in VaultDoc
      BY <1>b, <2>2 DEF Opens, VaultExists, Dir
    <3>2. r \in Run /\ r.step \in {"ready", "saveAgent"} /\ r.password # Nothing /\ r.vault # Nothing
      BY <1>a, <2>1, <3>1 DEF SetupRun, SetupSteps, Run
    <3>3. run' = [run EXCEPT ![p] = r] /\ home' \in {home, Nothing} /\ UNCHANGED <<dirs, made>>
      BY <1>15, <2>2 DEF Open, Same, Disk
    <3>4. Has(r)
      BY <3>2 DEF Has, Opened, Keyed
    <3> HIDE DEF r
    <3> QED
      BY <3>2, <3>3, <3>4, MoveEffect, TypeOfLook
  <2>3. CASE ~Opens(p)
    BY <1>1, <1>15, <2>3 DEF Open, SetupSteps, Opened, Keyed
  <2> QED
    BY <2>2, <2>3
<1>16. CASE SaveAgent(p)
  <2> DEFINE dir == [Here EXCEPT !.vault = [run[p].vault EXCEPT !.agents = @ \cup {run[p].cmd.op}]]
             r == [run[p] EXCEPT !.step = "ready"]
  <2>1. made' \in Nat /\ run' = [run EXCEPT ![p] = r] /\ InHome(dir)
    BY <1>16 DEF SaveAgent, Save, Goto, HomeTypeOK
  <2>2. run[p].vault # Nothing
    BY <1>d, <1>16 DEF SaveAgent, At, Has
  <2>3. run[p].vault \in VaultDoc /\ run[p].cmd \in Command
    BY <1>a, <2>2 DEF SetupRun
  <2>4. dir \in Dir
    BY <1>b, <2>3, AgentSaved DEF Dir
  <2>5. r \in Run /\ r.step = "ready" /\ r.vault # Nothing
    BY <1>a, <2>2 DEF SetupRun, SetupSteps, Run
  <2> HIDE DEF r, dir
  <2> QED
    BY <2>1, <2>4, <2>5, TypeOfSave DEF Opened, Keyed
<1>17. CASE Report(p)
  <2>1. run' = [run EXCEPT ![p] = Nothing] /\ home' \in {home, Nothing} /\ UNCHANGED <<dirs, made>>
    BY <1>17 DEF Report, Disk
  <2>2. Nothing \in Run
    BY DEF Run
  <2> QED
    BY <2>1, <2>2, MoveEffect, TypeOfLook
<1> QED
  BY <1>4, <1>5, <1>6, <1>7, <1>8, <1>9, <1>10, <1>11, <1>12, <1>13, <1>14, <1>15, <1>16, <1>17
     DEF Step

LEMMA InstallStepType ==
  ASSUME HomeTypeOK, NEW p \in Process, InstallStep(p)
  PROVE  HomeTypeOK'
<1> USE SetupAssumption
<1>a. /\ run[p] # Nothing
      /\ run[p].step \in InstallSteps \ {"failed"} /\ run[p] \in InstallRun
  <2>1. run[p] # Nothing /\ run[p].step \in InstallSteps \ {"failed"}
    BY DEF InstallStep, FindCa, OpenTmp, WriteTmp, RenameTmp, OpenCert, WriteCert, OpenAnchor,
           WriteAnchor, Update, Installed, At, InstallSteps
  <2> QED
    BY <2>1, KindOfRun
<1>b. Here \in Dir
  BY HereIsDir
<1>d. Has(run[p])
  BY <1>a DEF HomeTypeOK
<1>e. made \in Nat /\ made + 1 \in Nat
  BY DEF HomeTypeOK
<1>f. ASSUME NEW old, NEW new \in File, NEW c \in Written(old, new) PROVE c \in File
  BY <1>f DEF Written, File, Torn, Empty
<1>1. ASSUME NEW step \in InstallSteps \ Opened, Goto(p, step), UNCHANGED <<home, dirs, made>>
      PROVE  HomeTypeOK'
  <2>1. run'[p] = [run[p] EXCEPT !.step = step]
    BY <1>a, <1>1, GotoEffect
  <2>2. Has(run'[p])
    BY <1>a, <1>1, <2>1 DEF InstallRun, InstallSteps, Has, Opened, Keyed
  <2> QED
    BY <1>a, <1>1, <2>2, TypeOfGoto
<1>2. ASSUME NEW d \in Dirs, NEW dir \in Dir, dirs' = [dirs EXCEPT ![d] = dir],
             NEW step \in {"rename", "openAnchor"}, Goto(p, step), UNCHANGED <<home, made>>
      PROVE  HomeTypeOK'
  <2> DEFINE r == [run[p] EXCEPT !.step = step]
  <2>1. r \in Run /\ r.step = step
    BY <1>a DEF InstallRun, InstallSteps, Run
  <2>2. run' = [run EXCEPT ![p] = r]
    BY <1>2 DEF Goto
  <2>3. Has(r)
    BY <2>1 DEF Has, Opened, Keyed
  <2>4. made' \in Nat
    BY <1>2, <1>e
  <2> HIDE DEF r
  <2> QED
    BY <1>2, <2>1, <2>2, <2>3, <2>4, TypeOfWrite
<1>3. ASSUME NEW ca \in File, NEW open \in File, NEW step \in InstallSteps,
             run' = [run EXCEPT ![p].ca = ca, ![p].open = open, ![p].step = step],
             UNCHANGED <<home, dirs, made>>,
             step \in Opened => open \in Dirs
      PROVE  HomeTypeOK'
  <2> DEFINE r == [run[p] EXCEPT !.ca = ca, !.open = open, !.step = step]
  <2>1. r \in Run /\ r.step = step /\ r.open = open
    BY <1>a DEF InstallRun, Run
  <2>2. run' = [run EXCEPT ![p] = r] /\ home' \in {home, Nothing} /\ UNCHANGED <<dirs, made>>
    BY <1>3
  <2>3. Has(r)
    BY <1>3, <2>1 DEF Has, Keyed, InstallSteps
  <2> HIDE DEF r
  <2> QED
    BY <2>1, <2>2, <2>3, MoveEffect, TypeOfLook
<1>4. CASE FindCa(p)
  <2>1. CASE \E step \in {"openTmp", "failed"} : Goto(p, step)
    BY <1>1, <1>4, <2>1 DEF FindCa, Disk, InstallSteps, Opened
  <2>2. CASE run' = [run EXCEPT ![p].ca = Here.ca, ![p].step = "openCert"]
    <3>1. run' = [run EXCEPT ![p].ca = Here.ca, ![p].open = run[p].open, ![p].step = "openCert"]
      BY <1>a, <2>2 DEF HomeTypeOK, InstallRun
    <3>2. Here.ca \in File /\ run[p].open \in File
      BY <1>a, <1>b DEF Dir, InstallRun
    <3> QED
      BY <1>3, <1>4, <3>1, <3>2 DEF FindCa, Disk, InstallSteps, Opened
  <2> QED
    BY <1>4, <2>1, <2>2 DEF FindCa
<1>5. CASE OpenTmp(p)
  <2> DEFINE ca == made + 1
             r == [run[p] EXCEPT !.ca = ca, !.open = home', !.file = "tmp", !.step = "writeTmp"]
             dir == [Here EXCEPT !.tmp = Torn]
  <2>1. made' = ca /\ made' \in Nat /\ run' = [run EXCEPT ![p] = r] /\ InHome(dir)
    BY <1>5, <1>e DEF OpenTmp
  <2>2. dir \in Dir
    BY <1>b DEF Dir, File, Torn, Empty
  <2> HIDE DEF dir
  <2>3. home' \in Nat
    BY <2>1, <2>2, InHomeEffect DEF Dirs
  <2>4. r \in Run /\ r.step = "writeTmp" /\ r.open = home'
    BY <1>a, <1>e, <2>3 DEF InstallRun, InstallSteps, Run, File
  <2> HIDE DEF r
  <2> QED
    BY <2>1, <2>2, <2>4, TypeOfSave DEF Keyed
<1>6. CASE WriteTmp(p)
  <2>1. Goto(p, "rename") /\ UNCHANGED <<home, made>>
    BY <1>6 DEF WriteTmp
  <2>2. run[p].open \in Dirs /\ dirs[run[p].open] \in Dir
    BY <1>6, <1>d DEF WriteTmp, At, Has, Opened, HomeTypeOK, Dirs
  <2>3. run[p].ca \in File /\ run[p].file \in {Nothing, "tmp", "ca", "gone"}
    BY <1>a DEF InstallRun
  <2>4. CASE \E c \in Written(dirs[run[p].open].tmp, run[p].ca) :
               dirs' = [dirs EXCEPT ![run[p].open].tmp = c]
    <3>1. PICK c \in File : dirs' = [dirs EXCEPT ![run[p].open].tmp = c]
      BY <1>f, <2>3, <2>4
    <3>2. [dirs[run[p].open] EXCEPT !.tmp = c] \in Dir
      BY <2>2 DEF Dir
    <3>3. dirs' = [dirs EXCEPT ![run[p].open] = [dirs[run[p].open] EXCEPT !.tmp = c]]
      BY <3>1
    <3> QED
      BY <1>2, <2>1, <2>2, <3>2, <3>3
  <2>5. CASE \E c \in Written(dirs[run[p].open].ca, run[p].ca) :
               dirs' = [dirs EXCEPT ![run[p].open].ca = c]
    <3>1. PICK c \in File : dirs' = [dirs EXCEPT ![run[p].open].ca = c]
      BY <1>f, <2>3, <2>5
    <3>2. [dirs[run[p].open] EXCEPT !.ca = c] \in Dir
      BY <2>2 DEF Dir
    <3>3. dirs' = [dirs EXCEPT ![run[p].open] = [dirs[run[p].open] EXCEPT !.ca = c]]
      BY <3>1
    <3> QED
      BY <1>2, <2>1, <2>2, <3>2, <3>3
  <2>6. CASE UNCHANGED dirs
    BY <1>1, <2>1, <2>6 DEF InstallSteps, Opened
  <2> QED
    BY <1>6, <2>3, <2>4, <2>5, <2>6 DEF WriteTmp
<1>7. CASE RenameTmp(p)
  <2>1. CASE Goto(p, "failed") /\ UNCHANGED dirs
    BY <1>1, <1>7, <2>1 DEF RenameTmp, InstallSteps, Opened
  <2>2. CASE /\ Here.tmp # Nothing
             /\ dirs' = [dirs EXCEPT ![home].ca = Here.tmp, ![home].tmp = Nothing]
             /\ run' = [q \in Process |-> IF q = p THEN [run[p] EXCEPT !.step = "openCert"]
                                          ELSE IF q \in Installing THEN Renames(q) ELSE run[q]]
    <3> DEFINE dir == [dirs[home] EXCEPT !.ca = Here.tmp, !.tmp = Nothing]
    <3>1. home \in Dirs
      BY <2>2 DEF HomeTypeOK, Here, NoDir
    <3>2. dirs[home] \in Dir
      BY <3>1 DEF HomeTypeOK, Dirs
    <3>3. dir \in Dir
      BY <1>b, <3>2 DEF Dir, File
    <3>4. dirs' = [dirs EXCEPT ![home] = dir]
      BY <2>2, <3>1 DEF HomeTypeOK, Dirs
    <3>5. dirs' \in Seq(Dir) /\ Dirs' = Dirs
      BY <3>1, <3>3, <3>4, WriteEffect
    <3>6. ASSUME NEW q \in Process \ {p}, run'[q] # run[q]
          PROVE  /\ q \in Busy /\ Steady(q) /\ run'[q] \in Run
                 /\ run'[q].moved = run[q].moved /\ run'[q].alone = run[q].alone
      <4>1. q \in Busy /\ run[q] \in InstallRun /\ run'[q] = Renames(q)
        BY <2>2, <3>6, KindOfRun DEF Installing, Busy
      <4>2. run[q] \notin SetupRun
        BY <4>1, KindOfRun DEF Busy
      <4> QED
        BY <4>1, <4>2 DEF Renames, Steady, InstallRun, Run
    <3>7. run'[p] = [run[p] EXCEPT !.step = "openCert"]
      BY <2>2
    <3>8. run'[p] \in InstallRun /\ run'[p].step = "openCert"
      BY <1>a, <3>7 DEF InstallRun, InstallSteps
    <3>9. run' \in [Process -> Run]
      <4>1. \A q \in Process : run'[q] \in Run
        BY <3>6, <3>8 DEF HomeTypeOK, Run
      <4> QED
        BY <2>2, <4>1
    <3>10. Has(run[p])'
      BY <3>8 DEF Has, Opened, Keyed
    <3>11. home' \in Dirs' \cup {Nothing} /\ made' \in Nat
      BY <1>7, <1>e, <3>1, <3>5 DEF RenameTmp
    <3>12. Others(p)
      BY <3>6 DEF Others
    <3> QED
      BY <3>5, <3>9, <3>10, <3>11, <3>12, TypeOfStep
  <2> QED
    BY <1>7, <2>1, <2>2 DEF RenameTmp
<1>8. CASE OpenCert(p)
  <2>1. CASE Goto(p, "failed") /\ UNCHANGED dirs
    BY <1>1, <1>8, <2>1 DEF OpenCert, InstallSteps, Opened
  <2>2. CASE /\ home # Nothing
             /\ dirs' = [dirs EXCEPT ![home].cert = Torn]
             /\ run' = [run EXCEPT ![p].open = home, ![p].step = "writeCert"]
    <3> DEFINE dir == [dirs[home] EXCEPT !.cert = Torn]
               r == [run[p] EXCEPT !.open = home, !.step = "writeCert"]
    <3>1. home \in Dirs
      BY <2>2 DEF HomeTypeOK
    <3>2. dirs[home] \in Dir /\ home \in Nat
      BY <3>1 DEF HomeTypeOK, Dirs
    <3>3. dir \in Dir
      BY <3>2 DEF Dir, File, Torn, Empty
    <3>4. dirs' = [dirs EXCEPT ![home] = dir] /\ run' = [run EXCEPT ![p] = r]
      BY <2>2
    <3>5. r \in Run /\ r.step = "writeCert" /\ r.open = home
      BY <1>a, <3>2 DEF InstallRun, InstallSteps, Run, File
    <3>6. Has(r)
      BY <3>1, <3>5 DEF Has, Keyed
    <3>7. UNCHANGED home /\ made' \in Nat
      BY <1>8, <1>e DEF OpenCert
    <3> HIDE DEF r, dir
    <3> QED
      BY <3>1, <3>3, <3>4, <3>5, <3>6, <3>7, TypeOfWrite
  <2> QED
    BY <1>8, <2>1, <2>2 DEF OpenCert
<1>9. CASE WriteCert(p)
  <2>1. run[p].open \in Dirs /\ dirs[run[p].open] \in Dir
    BY <1>9, <1>d DEF WriteCert, At, Has, Opened, HomeTypeOK, Dirs
  <2>2. run[p].ca \in File
    BY <1>a DEF InstallRun
  <2>3. PICK c \in File : dirs' = [dirs EXCEPT ![run[p].open].cert = c]
    BY <1>f, <1>9, <2>2 DEF WriteCert
  <2>4. [dirs[run[p].open] EXCEPT !.cert = c] \in Dir
    BY <2>1 DEF Dir
  <2>5. dirs' = [dirs EXCEPT ![run[p].open] = [dirs[run[p].open] EXCEPT !.cert = c]]
    BY <2>3
  <2>6. Goto(p, "openAnchor") /\ UNCHANGED <<home, made>>
    BY <1>9 DEF WriteCert
  <2> QED
    BY <1>2, <2>1, <2>4, <2>5, <2>6
<1>10. CASE OpenAnchor(p)
  <2>1. CASE Goto(p, "failed")
    BY <1>1, <1>10, <2>1 DEF OpenAnchor, Disk, InstallSteps, Opened
  <2>2. CASE Here.cert # Nothing /\ run' = [run EXCEPT ![p].open = home, ![p].step = "writeAnchor"]
    <3>1. home \in Dirs
      BY <2>2 DEF HomeTypeOK, Here, NoDir
    <3>2. run[p].ca \in File /\ home \in File
      BY <1>a, <3>1 DEF InstallRun, Dirs, File
    <3>3. run' = [run EXCEPT ![p].ca = run[p].ca, ![p].open = home, ![p].step = "writeAnchor"]
      BY <1>a, <2>2 DEF HomeTypeOK, InstallRun
    <3> QED
      BY <1>3, <1>10, <3>1, <3>2, <3>3 DEF OpenAnchor, Disk, InstallSteps
  <2> QED
    BY <1>10, <2>1, <2>2 DEF OpenAnchor
<1>11. CASE WriteAnchor(p)
  BY <1>1, <1>11 DEF WriteAnchor, Disk, InstallSteps, Opened
<1>12. CASE Update(p)
  BY <1>1, <1>12 DEF Update, Disk, InstallSteps, Opened
<1>13. CASE Installed(p)
  <2>1. run' = [run EXCEPT ![p] = Nothing] /\ home' \in {home, Nothing} /\ UNCHANGED <<dirs, made>>
    BY <1>13 DEF Installed, Disk
  <2>2. Nothing \in Run
    BY DEF Run
  <2> QED
    BY <2>1, <2>2, MoveEffect, TypeOfLook
<1> QED
  BY <1>4, <1>5, <1>6, <1>7, <1>8, <1>9, <1>10, <1>11, <1>12, <1>13 DEF InstallStep

LEMMA TypeStep ==
  ASSUME HomeTypeOK, [Next]_vars
  PROVE  HomeTypeOK'
<1> USE SetupAssumption
<1>1. CASE UNCHANGED vars
  BY <1>1 DEF vars, setupVars, caVars, HomeTypeOK, Dirs, Has
<1>2. ASSUME NEW p \in Process, NEW cmd \in Command, Begin(p, cmd) PROVE HomeTypeOK'
  <2> DEFINE r == [cmd |-> cmd, password |-> Nothing, open |-> Nothing, vault |-> Nothing,
                   step |-> CASE cmd.reset -> "reset"
                              [] cmd.op = "setup" /\ ~cmd.reset -> "legacy"
                              [] cmd.op = "init" -> "ensureKey",
                   alone |-> Busy = {}, moved |-> FALSE]
  <2>1. r.step \in {"reset", "legacy", "ensureKey"}
    BY DEF Command
  <2>2. r \in SetupRun
    BY <2>1 DEF SetupRun, SetupSteps, File
  <2>3. Starts(p, r) /\ home' \in {home, Nothing} /\ UNCHANGED <<dirs, made>>
    BY <1>2 DEF Begin, Disk
  <2>4. Has(r)
    BY <2>1 DEF Has, Opened, Keyed
  <2> HIDE DEF r
  <2> QED
    BY <2>2, <2>3, <2>4, StartsEffect, TypeOfLook
<1>3. ASSUME NEW p \in Process, InstallBegins(p) PROVE HomeTypeOK'
  <2> DEFINE r == [cmd |-> InstallCa, step |-> "findCa", alone |-> Busy = {}, moved |-> FALSE,
                   ca |-> Nothing, open |-> Nothing, file |-> Nothing]
  <2>2. r \in InstallRun
    BY DEF InstallRun, InstallSteps, File
  <2>3. Starts(p, r) /\ home' \in {home, Nothing} /\ UNCHANGED <<dirs, made>>
    BY <1>3 DEF InstallBegins, Disk
  <2>4. Has(r)
    BY DEF Has, Opened, Keyed
  <2> HIDE DEF r
  <2> QED
    BY <2>2, <2>3, <2>4, StartsEffect, TypeOfLook
<1>4. ASSUME NEW p \in Process, Stops(p) PROVE HomeTypeOK'
  <2>1. run' = [run EXCEPT ![p] = Nothing] /\ home' \in {home, Nothing} /\ UNCHANGED <<dirs, made>>
    BY <1>4 DEF Stops, Same, Disk
  <2>2. Nothing \in Run
    BY DEF Run
  <2> QED
    BY <2>1, <2>2, MoveEffect, TypeOfLook
<1> QED
  BY <1>1, <1>2, <1>3, <1>4, SetupStepType, InstallStepType DEF Next, SetupNext, SetupAssumption

\* Every state of the homes and of the commands is of its type: what a command goes on to
\* write to was opened, what it encrypts with was read or generated.
THEOREM HomeTypeCorrect == Spec => []HomeTypeOK
<1>1. Init => HomeTypeOK
  BY SetupAssumption DEF Init, SetupInit, HomeTypeOK, Run, Dirs
<1>2. HomeTypeOK /\ [Next]_vars => HomeTypeOK'
  BY TypeStep
<1> QED
  BY <1>1, <1>2, PTL DEF Spec

-----------------------------------------------------------------------------
(* A vault stands beside its key.  VaultKeepsItsKey is about files; who is *)
(* about to write one, with what, must be known too.                       *)

\* Whose home has not been archived and who has no password of the user: has that key
\* of the home.
KeyOf(r) ==
  /\ r.step = "writeKey" => dirs[r.open].key = Empty /\ (~r.moved => home = r.open)
  /\ r.step \in Keyed /\ r.password \notin Password /\ ~r.moved =>
       home # Nothing /\ Here.key = r.password
  /\ r.step = "saveAgent" => r.vault.password = r.password

KeyInv ==
  /\ VaultKeepsItsKey
  /\ \A p \in Process : run[p] # Nothing => KeyOf(run[p])
  /\ \A p, q \in Process :
       p # q /\ At(p, "writeKey") /\ At(q, "writeKey") => run[p].open # run[q].open

\* A vault that the invariant asks nothing of, or that stands beside its key.
KeptBy(d) ==
  \/ dirs[d].vault = Nothing \/ dirs[d].vault.password \in Password \/ d \in strayed
  \/ dirs[d].key = dirs[d].vault.password

\* The others keep what they have when keys are made where there is none or none is
\* written, when vaults are saved beside their keys, and when their home is archived.
LEMMA KeysStay ==
  ASSUME HomeTypeOK, KeyInv, Dirs \subseteq Dirs', strayed \subseteq strayed',
         NEW p \in Process, Others(p),
         \A d \in Dirs :
           \/ dirs'[d].key = dirs[d].key
           \/ dirs[d].key = Nothing
           \/ dirs[d].key = Empty /\ \A q \in Process \ {p} : At(q, "writeKey") => run[q].open # d,
         \A d \in Dirs' : (d \in Dirs /\ dirs'[d].vault = dirs[d].vault) \/ KeptBy(d)',
         \/ home' = home
         \/ home = Nothing
         \/ home' = Nothing /\ \A q \in Process \ {p} : run'[q] # Nothing => run'[q].moved,
         run'[p] # Nothing => KeyOf(run[p])',
         At(p, "writeKey")' => \A q \in Process \ {p} : At(q, "writeKey") => run[q].open # run'[p].open
  PROVE  KeyInv'
<1> USE SetupAssumption
<1>1. VaultKeepsItsKey'
  <2>1. SUFFICES ASSUME NEW d \in Dirs', dirs'[d].vault # Nothing,
                        dirs'[d].vault.password \notin Password, d \notin strayed'
                 PROVE  dirs'[d].key = dirs'[d].vault.password
    BY DEF VaultKeepsItsKey, Dirs
  <2>2. CASE d \in Dirs /\ dirs'[d].vault = dirs[d].vault
    <3>1. dirs[d].key = dirs[d].vault.password
      BY <2>1, <2>2 DEF KeyInv, VaultKeepsItsKey, Dirs
    <3>2. dirs[d].vault.password \in Generated
      <4>1. dirs[d] \in Dir
        BY <2>2 DEF HomeTypeOK, Dirs
      <4>2. dirs[d].vault \in VaultDoc
        BY <2>1, <2>2, <4>1 DEF Dir
      <4> QED
        BY <2>1, <2>2, <4>2 DEF VaultDoc
    <3>3. dirs[d].key # Nothing /\ dirs[d].key # Empty
      BY <3>1, <3>2 DEF Generated, Empty
    <3> QED
      BY <2>2, <3>1, <3>3
  <2>3. CASE KeptBy(d)'
    BY <2>1, <2>3 DEF KeptBy
  <2> QED
    BY <2>2, <2>3
<1>2. ASSUME NEW q \in Process \ {p}, run'[q] # Nothing
      PROVE  /\ run[q] # Nothing /\ run'[q].step = run[q].step /\ run'[q].open = run[q].open
             /\ run'[q].moved \/ run'[q].moved = run[q].moved
             /\ run'[q].step \in Keyed => /\ run'[q].password = run[q].password
                                          /\ run'[q].vault = run[q].vault
  <2>1. CASE run'[q] = run[q]
    BY <1>2, <2>1
  <2>2. CASE run'[q] # run[q]
    <3>1. q \in Busy /\ Steady(q) /\ (run'[q].moved \/ run'[q].moved = run[q].moved)
      BY <1>2, <2>2 DEF Others
    <3>2. run'[q].step \in Keyed => run[q] \in SetupRun
      BY <3>1, KindOfRun DEF Keyed, SetupSteps, Steady, Busy
    <3> QED
      BY <3>1, <3>2 DEF Steady, Busy
  <2> QED
    BY <2>1, <2>2
<1>3. ASSUME NEW q \in Process \ {p}, run'[q] # Nothing PROVE KeyOf(run[q])'
  <2>1. KeyOf(run[q]) /\ Has(run[q])
    BY <1>2, <1>3 DEF KeyInv, HomeTypeOK
  <2>2. run'[q].step = "writeKey" => run'[q].open \in Dirs /\ run'[q].open # Nothing
    BY <1>2, <1>3, <2>1 DEF Has, Opened, Dirs
  <2>3. run'[q].step = "writeKey" => /\ dirs'[run'[q].open].key = Empty
                                     /\ ~run'[q].moved => home' = run'[q].open
    BY <1>2, <1>3, <2>1, <2>2 DEF KeyOf, At, Empty
  <2>4. run'[q].step \in Keyed /\ run'[q].password \notin Password /\ ~run'[q].moved =>
          home' # Nothing /\ Here'.key = run'[q].password
    <3>1. SUFFICES ASSUME run'[q].step \in Keyed, run'[q].password \notin Password, ~run'[q].moved
                   PROVE  home' # Nothing /\ Here'.key = run'[q].password
      OBVIOUS
    <3>2. home # Nothing /\ Here.key = run[q].password /\ run'[q].password = run[q].password
      BY <1>2, <1>3, <2>1, <3>1 DEF KeyOf
    <3>3. home' = home /\ home \in Dirs
      BY <1>3, <3>1, <3>2 DEF HomeTypeOK
    <3>4. run[q].password \in Generated
      <4>1. run[q] \in SetupRun
        BY <1>2, <1>3, <3>1, KindOfRun DEF Keyed, SetupSteps
      <4>2. run[q].password # Nothing
        BY <1>2, <1>3, <2>1, <3>1 DEF Has
      <4> QED
        BY <3>1, <3>2, <4>1, <4>2 DEF SetupRun
    <3>5. dirs[home].key \in Generated
      BY <3>2, <3>3, <3>4 DEF Here
    <3>6. dirs'[home].key = dirs[home].key
      BY <3>3, <3>5 DEF Generated, Empty
    <3> QED
      BY <3>2, <3>3, <3>6 DEF Here
  <2>5. run'[q].step = "saveAgent" => run'[q].vault.password = run'[q].password
    BY <1>2, <1>3, <2>1 DEF KeyOf, Keyed
  <2> QED
    BY <2>3, <2>4, <2>5 DEF KeyOf
<1>4. \A q, s \in Process : q # s /\ At(q, "writeKey")' /\ At(s, "writeKey")' =>
                              run'[q].open # run'[s].open
  <2>1. \A q \in Process \ {p} : At(q, "writeKey")' => At(q, "writeKey") /\ run'[q].open = run[q].open
    BY <1>2 DEF At
  <2> QED
    BY <2>1 DEF KeyInv
<1> QED
  BY <1>1, <1>3, <1>4 DEF KeyInv

\* Nor does a step that looks only.
LEMMA KeysOfLook ==
  ASSUME HomeTypeOK, KeyInv, UNCHANGED <<home, dirs, strayed>>,
         NEW p \in Process, Others(p),
         run'[p] # Nothing => KeyOf(run'[p]) /\ run'[p].step # "writeKey"
  PROVE  KeyInv'
<1>1. Dirs' = Dirs /\ Here' = Here
  BY DEF Dirs, Here
<1>2. run'[p] # Nothing => KeyOf(run[p])'
  BY <1>1 DEF KeyOf
<1>3. /\ \A d \in Dirs : dirs'[d].key = dirs[d].key
      /\ \A d \in Dirs' : d \in Dirs /\ dirs'[d].vault = dirs[d].vault
      /\ strayed \subseteq strayed' /\ home' = home
  BY <1>1
<1>4. ~At(p, "writeKey")'
  BY DEF At
<1> QED
  BY <1>1, <1>2, <1>3, <1>4, KeysStay

LEMMA SetupStepKeys ==
  ASSUME HomeTypeOK, KeyInv, NEW p \in Process, Step(p)
  PROVE  KeyInv'
<1> USE SetupAssumption
<1>a. /\ run[p] # Nothing
      /\ run[p].step \in SetupSteps \ {"failed"} /\ run[p] \in SetupRun
      /\ Has(run[p]) /\ KeyOf(run[p])
  <2>1. run[p] # Nothing /\ run[p].step \in SetupSteps \ {"failed"}
    BY DEF Step, Reset, Legacy, Retire, Choose, ReadPassword, EnsureKey, CreateKey, WriteKey,
           FindVault, Check, SaveNew, Open, SaveAgent, Report, At, SetupSteps
  <2> QED
    BY <2>1, KindOfRun DEF HomeTypeOK, KeyInv
<1>b. Here \in Dir /\ (home = Nothing => Here = NoDir) /\ (home \in Dirs => Here = dirs[home])
  BY HereIsDir
<1>c. run[p].cmd \in Command
  BY <1>a DEF SetupRun
<1>1. ASSUME NEW step \in SetupSteps, Goto(p, step), Same,
             step \notin {"writeKey", "saveAgent"},
             step \in Keyed => run[p].step \in Keyed
      PROVE  KeyInv'
  <2>1. run'[p] = [run[p] EXCEPT !.step = step] /\ Others(p)
    BY <1>a, <1>1, GotoEffect
  <2>2. /\ run'[p].step = step /\ run'[p].password = run[p].password
        /\ run'[p].moved = run[p].moved
    BY <1>a, <2>1 DEF SetupRun
  <2>3. KeyOf(run'[p])
    BY <1>a, <1>1, <2>2 DEF KeyOf
  <2> QED
    BY <1>1, <2>1, <2>2, <2>3, KeysOfLook DEF Same, Disk
<1>2. CASE Archive(p, "choose")
  <2>1. KeyOf(run[p])'
    BY <1>2, <1>a, ArchiveEffect DEF KeyOf, Keyed
  <2>2. /\ Dirs' = Dirs /\ strayed' = strayed /\ home' = Nothing
        /\ \A d \in Dirs : dirs'[d].key = dirs[d].key
        /\ \A d \in Dirs' : d \in Dirs /\ dirs'[d].vault = dirs[d].vault
        /\ Others(p) /\ \A q \in Process \ {p} : run'[q] # Nothing => run'[q].moved
        /\ ~At(p, "writeKey")'
    BY <1>2, <1>a, ArchiveEffect DEF Dirs, At
  <2> QED
    BY <2>1, <2>2, KeysStay
<1>3. ASSUME NEW step \in {"vault", "open"}, NEW password \in Generated \cup Password,
             GotoWith(p, step, password), Same,
             password \in Password \/ (password = Here.key /\ Here.key # Nothing)
      PROVE  KeyInv'
  <2> DEFINE r == [run[p] EXCEPT !.step = step, !.password = password]
  <2>1. r \in Run /\ r.step = step /\ r.password = password
    BY <1>a DEF SetupRun, SetupSteps, Run
  <2>2. run' = [run EXCEPT ![p] = r]
    BY <1>3 DEF GotoWith
  <2>3. UNCHANGED <<home, dirs, strayed>>
    BY <1>3 DEF Same, Disk
  <2>4. password \notin Password => home # Nothing /\ Here.key = password
    BY <1>3, <1>b DEF NoDir
  <2> HIDE DEF r
  <2>5. KeyOf(r)
    BY <2>1, <2>4 DEF KeyOf
  <2> QED
    BY <2>1, <2>2, <2>3, <2>5, MoveEffect, KeysOfLook
<1>3a. ASSUME NEW vault \in VaultDoc, vault.password = run[p].password, run[p].step \in Keyed,
              NEW dir \in Dir, dir.key = Here.key, dir.vault = vault, InHome(dir),
              strayed' = IF run[p].moved THEN strayed \cup {home'} ELSE strayed,
              NEW r \in Run, run' = [run EXCEPT ![p] = r],
              r.step \in {"open", "password", "ready"},
              r.moved = run[p].moved, r.password = run[p].password
       PROVE  KeyInv'
  <2>1. run'[p] = r /\ Others(p)
    BY <1>3a, MoveEffect
  <2>2. /\ Dirs \subseteq Dirs' /\ home' \in Dirs' /\ home' # Nothing /\ dirs'[home'] = dir
        /\ \A d \in Dirs' : d # home' => d \in Dirs /\ dirs'[d] = dirs[d]
        /\ \/ home = Nothing /\ home' \notin Dirs
           \/ home \in Dirs /\ home' = home
    BY <1>3a, InHomeEffect DEF Dirs
  <2>3. Here' = dir
    BY <2>2 DEF Here
  <2>4. run[p].password \notin Password /\ ~run[p].moved => home # Nothing /\ Here.key = run[p].password
    BY <1>a, <1>3a DEF KeyOf
  <2>5. KeyOf(run[p])'
    BY <1>3a, <2>1, <2>2, <2>3, <2>4 DEF KeyOf
  <2>6. KeptBy(home)'
    <3>1. CASE run[p].moved
      BY <1>3a, <3>1 DEF KeptBy
    <3>2. CASE ~run[p].moved /\ run[p].password \notin Password
      BY <1>3a, <2>2, <2>4, <3>2 DEF KeptBy
    <3>3. CASE run[p].password \in Password
      BY <1>3a, <2>2, <3>3 DEF KeptBy
    <3> QED
      BY <3>1, <3>2, <3>3
  <2>7. \A d \in Dirs : dirs'[d].key = dirs[d].key
    BY <1>b, <1>3a, <2>2
  <2>8. \A d \in Dirs' : (d \in Dirs /\ dirs'[d].vault = dirs[d].vault) \/ KeptBy(d)'
    BY <2>2, <2>6
  <2>9. strayed \subseteq strayed' /\ ~At(p, "writeKey")'
    BY <1>3a, <2>1 DEF At
  <2> QED
    BY <2>1, <2>2, <2>5, <2>7, <2>8, <2>9, KeysStay
<1>4. CASE Reset(p)
  BY <1>1, <1>2, <1>4 DEF Reset, SetupSteps, Keyed
<1>5. CASE Legacy(p)
  BY <1>1, <1>5 DEF Legacy, SetupSteps, Keyed
<1>6. CASE Retire(p)
  BY <1>1, <1>2, <1>6 DEF Retire, SetupSteps, Keyed
<1>7. CASE Choose(p)
  BY <1>1, <1>7 DEF Choose, SetupSteps, Keyed
<1>8. CASE ReadPassword(p)
  <2>1. run[p].cmd.given # Nothing => run[p].cmd.given \in Password
    BY <1>c DEF Command
  <2>2. Here.key \notin {Nothing, Empty} => Here.key \in Generated
    BY <1>b DEF Dir, File, Generated, Empty
  <2> QED
    BY <1>1, <1>3, <1>8, <2>1, <2>2 DEF ReadPassword, SetupSteps, Keyed
<1>9. CASE EnsureKey(p)
  <2>1. run[p].cmd.given # Nothing => run[p].cmd.given \in Password
    BY <1>c DEF Command
  <2>2. Here.key \notin {Nothing, Empty} => Here.key \in Generated
    BY <1>b DEF Dir, File, Generated, Empty
  <2> QED
    BY <1>1, <1>3, <1>9, <2>1, <2>2 DEF EnsureKey, SetupSteps, Keyed
<1>10. CASE CreateKey(p)
  <2>1. CASE Goto(p, "failed") /\ UNCHANGED <<home, dirs>>
    BY <1>1, <1>10, <2>1 DEF CreateKey, Same, Disk, SetupSteps, Keyed
  <2>2. CASE /\ NoKey /\ InHome([Here EXCEPT !.key = Empty])
             /\ run' = [run EXCEPT ![p].step = "writeKey", ![p].open = home']
    <3> DEFINE r == [run[p] EXCEPT !.step = "writeKey", !.open = home']
               dir == [Here EXCEPT !.key = Empty]
    <3>1. dir \in Dir /\ dir.key = Empty /\ dir.vault = Here.vault /\ Here.key = Nothing
      BY <1>b, <2>2 DEF Dir, File, Empty, NoKey
    <3>2. InHome(dir) /\ run' = [run EXCEPT ![p] = r] /\ strayed' = strayed
      BY <1>10, <2>2 DEF CreateKey
    <3> HIDE DEF dir
    <3>3. home' \in Nat
      BY <3>1, <3>2, InHomeEffect DEF Dirs
    <3>4. r \in Run /\ r.open = home' /\ r.step = "writeKey"
      BY <1>a, <3>3 DEF SetupRun, SetupSteps, File, Run
    <3> HIDE DEF r
    <3>5. run'[p] = r /\ Others(p)
      BY <3>2, <3>4, MoveEffect
    <3>6. KeyOf(run[p])'
      BY <3>1, <3>2, <3>4, <3>5, InHomeEffect DEF KeyOf, Keyed
    <3>7. \A d \in Dirs : dirs'[d].key = dirs[d].key \/ dirs[d].key = Nothing
      BY <1>b, <3>1, <3>2, InHomeEffect DEF NoDir
    <3>8. \A d \in Dirs' : (d \in Dirs /\ dirs'[d].vault = dirs[d].vault) \/ KeptBy(d)'
      BY <1>b, <3>1, <3>2, InHomeEffect DEF KeptBy, NoDir
    <3>9. \A q \in Process \ {p} : At(q, "writeKey") => run[q].open # run'[p].open
      <4>1. SUFFICES ASSUME NEW q \in Process \ {p}, At(q, "writeKey") PROVE run[q].open # home'
        BY <3>4, <3>5
      <4>2. run[q].open \in Dirs /\ dirs[run[q].open].key = Empty
        BY <4>1 DEF At, HomeTypeOK, Has, Opened, KeyInv, KeyOf
      <4> QED
        BY <1>b, <3>1, <3>2, <4>2, InHomeEffect DEF Empty
    <3> QED
      BY <3>1, <3>2, <3>5, <3>6, <3>7, <3>8, <3>9, InHomeEffect, KeysStay
  <2> QED
    BY <1>10, <2>1, <2>2 DEF CreateKey
<1>11. CASE WriteKey(p)
  <2> DEFINE key == made + 1
             r == [run[p] EXCEPT !.step = "vault", !.password = key]
             d == run[p].open
             dir == [dirs[d] EXCEPT !.key = key]
  <2>1. key \in Generated
    BY <1>11 DEF WriteKey, HomeTypeOK, Generated, Empty
  <2>2. /\ dirs' = [dirs EXCEPT ![d] = dir] /\ run' = [run EXCEPT ![p] = r]
        /\ UNCHANGED <<home, strayed>>
    BY <1>11 DEF WriteKey, GotoWith
  <2> HIDE DEF key
  <2>3. d \in Dirs /\ dirs[d].key = Empty /\ (~run[p].moved => home = d)
    BY <1>a, <1>11 DEF WriteKey, At, Has, Opened, KeyOf
  <2>4. dir \in Dir /\ dir.key = key /\ dir.vault = dirs[d].vault
    <3>1. dirs[d] \in Dir
      BY <2>3 DEF HomeTypeOK, Dirs
    <3> QED
      BY <2>1, <3>1 DEF Dir, File, Generated
  <2>5. r \in Run /\ r.step = "vault" /\ r.password = key /\ r.moved = run[p].moved
    BY <1>a, <2>1 DEF SetupRun, SetupSteps, Run
  <2> HIDE DEF r, d, dir
  <2>6. run'[p] = r /\ Others(p)
    BY <2>2, <2>5, MoveEffect
  <2>7. /\ Dirs' = Dirs /\ dirs'[d] = dir
        /\ \A e \in Dirs : e # d => dirs'[e] = dirs[e]
    BY <2>2, <2>3, <2>4, WriteEffect
  <2>8. KeyOf(run[p])'
    <3>1. ~r.moved => home' = d /\ home' # Nothing
      BY <2>2, <2>3, <2>5 DEF Dirs
    <3> QED
      BY <2>4, <2>5, <2>6, <2>7, <3>1 DEF KeyOf, Here
  <2>9. ASSUME NEW e \in Dirs
        PROVE  \/ dirs'[e].key = dirs[e].key
               \/ dirs[e].key = Empty /\ \A q \in Process \ {p} : At(q, "writeKey") => run[q].open # e
    BY <1>11, <2>3, <2>7 DEF KeyInv, d, WriteKey
  <2>10. \A e \in Dirs' : e \in Dirs /\ dirs'[e].vault = dirs[e].vault
    BY <2>4, <2>7
  <2>11. ~At(p, "writeKey")'
    BY <2>5, <2>6 DEF At
  <2> QED
    BY <2>2, <2>6, <2>7, <2>8, <2>9, <2>10, <2>11, KeysStay
<1>12. CASE FindVault(p)
  BY <1>1, <1>12 DEF FindVault, SetupSteps, Keyed, At
<1>13. CASE Check(p)
  BY <1>1, <1>13 DEF Check, SetupSteps, Keyed, At
<1>14. CASE SaveNew(p)
  <2> DEFINE vault == [password |-> run[p].password, issuer |-> made', agents |-> {}]
             step == IF run[p].cmd.op = "setup" THEN "open" ELSE "password"
             r == [run[p] EXCEPT !.step = step]
             dir == [Here EXCEPT !.vault = vault]
  <2>1. /\ made' \in Nat /\ run' = [run EXCEPT ![p] = r] /\ InHome(dir)
        /\ strayed' = IF run[p].moved THEN strayed \cup {home'} ELSE strayed
    BY <1>14 DEF SaveNew, Save, Goto, HomeTypeOK
  <2>2. run[p].password # Nothing /\ run[p].step \in Keyed
    BY <1>a, <1>14 DEF SaveNew, At, Has, Keyed
  <2>3. vault \in VaultDoc /\ vault.password = run[p].password
    BY <1>a, <2>1, <2>2 DEF SetupRun, VaultDoc
  <2> HIDE DEF vault
  <2>4. dir \in Dir /\ dir.key = Here.key /\ dir.vault = vault
    BY <1>b, <2>3 DEF Dir
  <2>5. /\ r \in Run /\ r.step \in {"open", "password"} /\ r.moved = run[p].moved
        /\ r.password = run[p].password
    BY <1>a, <2>2 DEF SetupRun, SetupSteps, Run
  <2> HIDE DEF r, dir
  <2> QED
    BY <1>3a, <2>1, <2>2, <2>3, <2>4, <2>5
<1>15. CASE Open(p)
  <2>2. CASE Opens(p)
    <3> DEFINE step == IF HasAgent(run[p].cmd.op, Here.vault) THEN "ready" ELSE "saveAgent"
               r == [run[p] EXCEPT !.vault = Here.vault, !.step = step]
    <3>1. /\ Here.vault # Nothing /\ Here.vault \in VaultDoc
          /\ Here.vault.password = run[p].password
      BY <1>b, <2>2 DEF Opens, VaultExists, Dir
    <3>2. /\ r \in Run /\ r.step \in {"ready", "saveAgent"} /\ r.moved = run[p].moved
          /\ r.password = run[p].password /\ r.vault.password = run[p].password
      BY <1>a, <3>1 DEF SetupRun, SetupSteps, Run
    <3>3. run' = [run EXCEPT ![p] = r] /\ UNCHANGED <<home, dirs, strayed>>
      BY <1>15, <2>2 DEF Open, Same, Disk
    <3> HIDE DEF r
    <3>4. KeyOf(r)
      BY <1>a, <1>15, <3>2 DEF KeyOf, Keyed, Open, At
    <3> QED
      BY <3>2, <3>3, <3>4, MoveEffect, KeysOfLook
  <2>3. CASE ~Opens(p)
    BY <1>1, <1>15, <2>3 DEF Open, SetupSteps, Keyed
  <2> QED
    BY <2>2, <2>3
<1>16. CASE SaveAgent(p)
  <2> DEFINE vault == [run[p].vault EXCEPT !.agents = @ \cup {run[p].cmd.op}]
             dir == [Here EXCEPT !.vault = vault]
             r == [run[p] EXCEPT !.step = "ready"]
  <2>1. /\ made' \in Nat /\ run' = [run EXCEPT ![p] = r] /\ InHome(dir)
        /\ strayed' = IF run[p].moved THEN strayed \cup {home'} ELSE strayed
    BY <1>16 DEF SaveAgent, Save, Goto, HomeTypeOK
  <2>2. run[p].vault # Nothing /\ run[p].vault.password = run[p].password /\ run[p].step \in Keyed
    BY <1>a, <1>16 DEF SaveAgent, At, Has, KeyOf, Keyed
  <2>3. run[p].vault \in VaultDoc /\ run[p].cmd \in Command
    BY <1>a, <2>2 DEF SetupRun
  <2>4. vault \in VaultDoc /\ vault.password = run[p].password
    BY <2>2, <2>3, AgentSaved
  <2> HIDE DEF vault
  <2>5. dir \in Dir /\ dir.key = Here.key /\ dir.vault = vault
    BY <1>b, <2>4 DEF Dir
  <2>6. /\ r \in Run /\ r.step = "ready" /\ r.moved = run[p].moved
        /\ r.password = run[p].password
    BY <1>a DEF SetupRun, SetupSteps, Run
  <2> HIDE DEF r, dir
  <2> QED
    BY <1>3a, <2>1, <2>2, <2>4, <2>5, <2>6
<1>17. CASE Report(p)
  <2>1. run' = [run EXCEPT ![p] = Nothing] /\ UNCHANGED <<home, dirs, strayed>>
    BY <1>17 DEF Report, Disk
  <2>2. Nothing \in Run
    BY DEF Run
  <2> QED
    BY <2>1, <2>2, MoveEffect, KeysOfLook
<1> QED
  BY <1>4, <1>5, <1>6, <1>7, <1>8, <1>9, <1>10, <1>11, <1>12, <1>13, <1>14, <1>15, <1>16, <1>17
     DEF Step

-----------------------------------------------------------------------------
(* What an install leaves alone.                                           *)

LEMMA InstallRuns ==
  ASSUME HomeTypeOK, NEW p \in Process, InstallStep(p)
  PROVE  Others(p) /\ (run'[p] # Nothing => run'[p] \in InstallRun)
<1>a. /\ run[p] # Nothing /\ run[p] \in InstallRun
  <2>1. run[p] # Nothing /\ run[p].step \in InstallSteps \ {"failed"}
    BY DEF InstallStep, FindCa, OpenTmp, WriteTmp, RenameTmp, OpenCert, WriteCert, OpenAnchor,
           WriteAnchor, Update, Installed, At, InstallSteps
  <2> QED
    BY <2>1, KindOfRun
<1>1. ASSUME NEW step \in InstallSteps, Goto(p, step)
      PROVE  Others(p) /\ run'[p] \in InstallRun
  BY <1>a, <1>1, GotoEffect
<1>2. ASSUME NEW r \in InstallRun, run' = [run EXCEPT ![p] = r]
      PROVE  Others(p) /\ run'[p] \in InstallRun
  BY <1>2, MoveEffect DEF Run
<1>3. HomeTypeOK'
  BY InstallStepType
<1>4. CASE FindCa(p)
  <2>1. CASE run' = [run EXCEPT ![p].ca = Here.ca, ![p].step = "openCert"]
    <3>1. [run[p] EXCEPT !.ca = Here.ca, !.step = "openCert"] \in InstallRun
      BY <1>a, HereIsDir DEF InstallRun, InstallSteps, Dir
    <3> QED
      BY <1>2, <2>1, <3>1
  <2> QED
    BY <1>1, <1>4, <2>1 DEF FindCa, InstallSteps
<1>5. CASE OpenTmp(p)
  <2> DEFINE dir == [Here EXCEPT !.tmp = Torn]
  <2>1. dir \in Dir
    BY HereIsDir DEF Dir, File, Torn, Empty
  <2>2. InHome(dir) /\ made' \in Nat
    BY <1>5 DEF OpenTmp, HomeTypeOK
  <2> HIDE DEF dir
  <2>3. home' \in Nat
    BY <2>1, <2>2, InHomeEffect DEF Dirs
  <2>4. run' = [run EXCEPT ![p] = [run[p] EXCEPT !.ca = made', !.open = home', !.file = "tmp",
                                                 !.step = "writeTmp"]]
    BY <1>5 DEF OpenTmp
  <2>5. [run[p] EXCEPT !.ca = made', !.open = home', !.file = "tmp", !.step = "writeTmp"]
          \in InstallRun
    BY <1>a, <2>2, <2>3 DEF InstallRun, InstallSteps, File
  <2> QED
    BY <1>2, <2>4, <2>5
<1>6. CASE WriteTmp(p)
  BY <1>1, <1>6 DEF WriteTmp, InstallSteps
<1>7. CASE RenameTmp(p)
  <2>1. CASE Goto(p, "failed")
    BY <1>1, <2>1 DEF InstallSteps
  <2>2. CASE run' = [q \in Process |-> IF q = p THEN [run[p] EXCEPT !.step = "openCert"]
                                      ELSE IF q \in Installing THEN Renames(q) ELSE run[q]]
    <3>1. ASSUME NEW q \in Process \ {p}, run'[q] # run[q]
          PROVE  /\ q \in Busy /\ Steady(q)
                 /\ run'[q].moved = run[q].moved /\ run'[q].alone = run[q].alone
      <4>1. q \in Busy /\ run[q] \in InstallRun /\ run'[q] = Renames(q)
        BY <2>2, <3>1, KindOfRun DEF Installing, Busy
      <4>2. run[q] \notin SetupRun
        BY <4>1, KindOfRun DEF Busy
      <4> QED
        BY <4>1, <4>2 DEF Renames, Steady, InstallRun
    <3>2. run'[p] \in InstallRun
      BY <1>a, <2>2 DEF InstallRun, InstallSteps
    <3> QED
      BY <3>1, <3>2 DEF Others
  <2> QED
    BY <1>7, <2>1, <2>2 DEF RenameTmp
<1>8. CASE OpenCert(p)
  <2>1. CASE home # Nothing /\ run' = [run EXCEPT ![p].open = home, ![p].step = "writeCert"]
    <3>1. home \in Nat
      BY <2>1 DEF HomeTypeOK, Dirs
    <3>2. [run[p] EXCEPT !.open = home, !.step = "writeCert"] \in InstallRun
      BY <1>a, <3>1 DEF InstallRun, InstallSteps, File
    <3> QED
      BY <1>2, <2>1, <3>2
  <2> QED
    BY <1>1, <1>8, <2>1 DEF OpenCert, InstallSteps
<1>9. CASE WriteCert(p)
  BY <1>1, <1>9 DEF WriteCert, InstallSteps
<1>10. CASE OpenAnchor(p)
  <2>1. CASE Here.cert # Nothing /\ run' = [run EXCEPT ![p].open = home, ![p].step = "writeAnchor"]
    <3>1. home \in File
      BY <2>1 DEF HomeTypeOK, Dirs, File
    <3>2. [run[p] EXCEPT !.open = home, !.step = "writeAnchor"] \in InstallRun
      BY <1>a, <3>1 DEF InstallRun, InstallSteps
    <3> QED
      BY <1>2, <2>1, <3>2
  <2> QED
    BY <1>1, <1>10, <2>1 DEF OpenAnchor, InstallSteps
<1>11. CASE WriteAnchor(p)
  BY <1>1, <1>11 DEF WriteAnchor, InstallSteps
<1>12. CASE Update(p)
  BY <1>1, <1>12 DEF Update, InstallSteps
<1>13. CASE Installed(p)
  <2>1. run' = [run EXCEPT ![p] = Nothing] /\ Nothing \in Run
    BY <1>13 DEF Installed, Run
  <2> QED
    BY <2>1, MoveEffect
<1> QED
  BY <1>4, <1>5, <1>6, <1>7, <1>8, <1>9, <1>10, <1>11, <1>12, <1>13 DEF InstallStep

\* An install makes a home at most, and neither keys nor vaults.
LEMMA InstallFiles ==
  ASSUME HomeTypeOK, NEW p \in Process, InstallStep(p)
  PROVE  /\ UNCHANGED <<strayed, ready>>
         /\ Dirs \subseteq Dirs'
         /\ \A d \in Dirs : dirs'[d].key = dirs[d].key /\ dirs'[d].vault = dirs[d].vault
         /\ \A d \in Dirs' : d \in Dirs \/ dirs'[d].vault = Nothing
         /\ home' = home \/ (home = Nothing /\ home' \in Dirs' /\ home' \notin Dirs)
<1> USE SetupAssumption
<1>d. run[p] # Nothing => Has(run[p])
  BY DEF HomeTypeOK
<1>1. ASSUME UNCHANGED <<home, dirs, strayed, ready>>
      PROVE  /\ UNCHANGED <<strayed, ready>> /\ Dirs \subseteq Dirs'
             /\ \A d \in Dirs : dirs'[d].key = dirs[d].key /\ dirs'[d].vault = dirs[d].vault
             /\ \A d \in Dirs' : d \in Dirs \/ dirs'[d].vault = Nothing
             /\ home' = home
  BY <1>1 DEF Dirs
<1>2. ASSUME NEW d \in Dirs, NEW dir, dir.key = dirs[d].key, dir.vault = dirs[d].vault,
             dirs' = [dirs EXCEPT ![d] = dir], UNCHANGED <<home, strayed, ready>>
      PROVE  /\ UNCHANGED <<strayed, ready>> /\ Dirs \subseteq Dirs'
             /\ \A e \in Dirs : dirs'[e].key = dirs[e].key /\ dirs'[e].vault = dirs[e].vault
             /\ \A e \in Dirs' : e \in Dirs \/ dirs'[e].vault = Nothing
             /\ home' = home
  <2>1. dirs \in Seq(Dir) /\ DOMAIN dirs = Dirs
    BY DEF HomeTypeOK, Dirs
  <2>2. \A e \in Dirs : dirs'[e].key = dirs[e].key /\ dirs'[e].vault = dirs[e].vault
    BY <1>2, <2>1
  <2>3. Len(dirs') = Len(dirs)
    BY <1>2, <2>1
  <2> QED
    BY <1>2, <2>2, <2>3 DEF Dirs
<1>3. \A d \in Dirs : dirs[d] \in Dir
  BY DEF HomeTypeOK, Dirs
<1>4. CASE FindCa(p) \/ OpenAnchor(p) \/ WriteAnchor(p) \/ Update(p) \/ Installed(p)
  BY <1>1, <1>4 DEF FindCa, OpenAnchor, WriteAnchor, Update, Installed, Disk
<1>5. CASE OpenTmp(p)
  <2> DEFINE dir == [Here EXCEPT !.tmp = Torn]
  <2>1. dir \in Dir /\ dir.key = Here.key /\ dir.vault = Here.vault
    BY HereIsDir DEF Dir, File, Torn, Empty
  <2>2. InHome(dir) /\ UNCHANGED <<strayed, ready>>
    BY <1>5 DEF OpenTmp
  <2> HIDE DEF dir
  <2>3. /\ Dirs \subseteq Dirs' /\ home' \in Dirs' /\ dirs'[home'] = dir
        /\ \A d \in Dirs' : d # home' => d \in Dirs /\ dirs'[d] = dirs[d]
        /\ \/ home = Nothing /\ home' \notin Dirs
           \/ home \in Dirs /\ home' = home
    BY <2>1, <2>2, InHomeEffect
  <2> QED
    BY <2>1, <2>2, <2>3, HereIsDir DEF NoDir
<1>6. CASE WriteTmp(p)
  <2> DEFINE d == run[p].open
  <2>1. d \in Dirs /\ dirs[d] \in Dir
    BY <1>d, <1>3, <1>6 DEF WriteTmp, At, Has, Opened
  <2>2. UNCHANGED <<home, strayed, ready>>
    BY <1>6 DEF WriteTmp
  <2>3. ASSUME NEW c, dirs' = [dirs EXCEPT ![d].tmp = c] \/ dirs' = [dirs EXCEPT ![d].ca = c]
        PROVE  \E dir : /\ dir.key = dirs[d].key /\ dir.vault = dirs[d].vault
                        /\ dirs' = [dirs EXCEPT ![d] = dir]
    <3>1. CASE dirs' = [dirs EXCEPT ![d].tmp = c]
      <4> WITNESS [dirs[d] EXCEPT !.tmp = c]
      <4> QED
        BY <2>1, <3>1 DEF Dir
    <3>2. CASE dirs' = [dirs EXCEPT ![d].ca = c]
      <4> WITNESS [dirs[d] EXCEPT !.ca = c]
      <4> QED
        BY <2>1, <3>2 DEF Dir
    <3> QED
      BY <2>3, <3>1, <3>2
  <2>4. \/ \E c : dirs' = [dirs EXCEPT ![d].tmp = c] \/ dirs' = [dirs EXCEPT ![d].ca = c]
        \/ UNCHANGED dirs
    BY <1>6 DEF WriteTmp
  <2> QED
    BY <1>1, <1>2, <2>1, <2>2, <2>3, <2>4
<1>7. CASE RenameTmp(p)
  <2>1. CASE /\ Here.tmp # Nothing
             /\ dirs' = [dirs EXCEPT ![home].ca = Here.tmp, ![home].tmp = Nothing]
    <3> DEFINE dir == [dirs[home] EXCEPT !.ca = Here.tmp, !.tmp = Nothing]
    <3>1. home \in Dirs
      BY <2>1 DEF HomeTypeOK, Here, NoDir
    <3>2. dir.key = dirs[home].key /\ dir.vault = dirs[home].vault
      BY <1>3, <3>1 DEF Dir
    <3>3. dirs' = [dirs EXCEPT ![home] = dir]
      BY <2>1, <3>1 DEF HomeTypeOK, Dirs
    <3> HIDE DEF dir
    <3> QED
      BY <1>2, <1>7, <3>1, <3>2, <3>3 DEF RenameTmp
  <2>2. CASE UNCHANGED dirs
    BY <1>1, <1>7, <2>2 DEF RenameTmp
  <2> QED
    BY <1>7, <2>1, <2>2 DEF RenameTmp
<1>8. CASE OpenCert(p)
  <2>1. CASE home # Nothing /\ dirs' = [dirs EXCEPT ![home].cert = Torn]
    <3> DEFINE dir == [dirs[home] EXCEPT !.cert = Torn]
    <3>1. home \in Dirs
      BY <2>1 DEF HomeTypeOK
    <3>2. dir.key = dirs[home].key /\ dir.vault = dirs[home].vault
      BY <1>3, <3>1 DEF Dir
    <3>3. dirs' = [dirs EXCEPT ![home] = dir]
      BY <2>1
    <3> HIDE DEF dir
    <3> QED
      BY <1>2, <1>8, <3>1, <3>2, <3>3 DEF OpenCert
  <2>2. CASE UNCHANGED dirs
    BY <1>1, <1>8, <2>2 DEF OpenCert
  <2> QED
    BY <1>8, <2>1, <2>2 DEF OpenCert
<1>9. CASE WriteCert(p)
  <2> DEFINE d == run[p].open
  <2>1. d \in Dirs /\ dirs[d] \in Dir
    BY <1>d, <1>3, <1>9 DEF WriteCert, At, Has, Opened
  <2>2. PICK c : dirs' = [dirs EXCEPT ![d].cert = c]
    BY <1>9 DEF WriteCert
  <2> DEFINE dir == [dirs[d] EXCEPT !.cert = c]
  <2>3. dir.key = dirs[d].key /\ dir.vault = dirs[d].vault
    BY <2>1 DEF Dir
  <2>4. dirs' = [dirs EXCEPT ![d] = dir] /\ UNCHANGED <<home, strayed, ready>>
    BY <1>9, <2>2 DEF WriteCert
  <2> HIDE DEF dir, d
  <2> QED
    BY <1>2, <2>1, <2>3, <2>4
<1> QED
  BY <1>4, <1>5, <1>6, <1>7, <1>8, <1>9 DEF InstallStep

-----------------------------------------------------------------------------
LEMMA KeysStep ==
  ASSUME HomeTypeOK, KeyInv, [Next]_vars
  PROVE  KeyInv'
<1> USE SetupAssumption
<1>1. CASE UNCHANGED vars
  BY <1>1 DEF vars, setupVars, KeyInv, KeyOf, VaultKeepsItsKey, Here, At
<1>2. ASSUME NEW p \in Process, NEW cmd \in Command, Begin(p, cmd) PROVE KeyInv'
  <2> DEFINE r == [cmd |-> cmd, password |-> Nothing, open |-> Nothing, vault |-> Nothing,
                   step |-> CASE cmd.reset -> "reset"
                              [] cmd.op = "setup" /\ ~cmd.reset -> "legacy"
                              [] cmd.op = "init" -> "ensureKey",
                   alone |-> Busy = {}, moved |-> FALSE]
  <2>1. r.step \in {"reset", "legacy", "ensureKey"}
    BY DEF Command
  <2>2. r \in SetupRun
    BY <2>1 DEF SetupRun, SetupSteps, File
  <2>3. Starts(p, r) /\ UNCHANGED <<home, dirs, strayed>>
    BY <1>2 DEF Begin, Disk
  <2>4. KeyOf(r) /\ r.step # "writeKey"
    BY <2>1 DEF KeyOf, Keyed
  <2> HIDE DEF r
  <2> QED
    BY <2>2, <2>3, <2>4, StartsEffect, KeysOfLook
<1>3. ASSUME NEW p \in Process, InstallBegins(p) PROVE KeyInv'
  <2> DEFINE r == [cmd |-> InstallCa, step |-> "findCa", alone |-> Busy = {}, moved |-> FALSE,
                   ca |-> Nothing, open |-> Nothing, file |-> Nothing]
  <2>1. r \in InstallRun
    BY DEF InstallRun, InstallSteps, File
  <2>2. Starts(p, r) /\ UNCHANGED <<home, dirs, strayed>>
    BY <1>3 DEF InstallBegins, Disk
  <2>3. KeyOf(r) /\ r.step # "writeKey"
    BY DEF KeyOf, Keyed
  <2> HIDE DEF r
  <2> QED
    BY <2>1, <2>2, <2>3, StartsEffect, KeysOfLook
<1>4. ASSUME NEW p \in Process, Stops(p) PROVE KeyInv'
  <2>1. run' = [run EXCEPT ![p] = Nothing] /\ UNCHANGED <<home, dirs, strayed>>
    BY <1>4 DEF Stops, Same, Disk
  <2>2. Nothing \in Run
    BY DEF Run
  <2> QED
    BY <2>1, <2>2, MoveEffect, KeysOfLook
<1>5. ASSUME NEW p \in Process, InstallStep(p) PROVE KeyInv'
  <2>1. Others(p) /\ (run'[p] # Nothing => run'[p].step \in InstallSteps)
    BY <1>5, InstallRuns DEF InstallRun
  <2>2. run'[p] # Nothing => KeyOf(run[p])'
    BY <2>1 DEF KeyOf, InstallSteps, Keyed
  <2>3. ~At(p, "writeKey")'
    BY <2>1 DEF At, InstallSteps
  <2>4. /\ Dirs \subseteq Dirs' /\ strayed' = strayed
        /\ \A d \in Dirs : dirs'[d].key = dirs[d].key /\ dirs'[d].vault = dirs[d].vault
        /\ \A d \in Dirs' : d \in Dirs \/ dirs'[d].vault = Nothing
        /\ home' = home \/ home = Nothing
    BY <1>5, InstallFiles
  <2>5. \A d \in Dirs' : (d \in Dirs /\ dirs'[d].vault = dirs[d].vault) \/ KeptBy(d)'
    BY <2>4 DEF KeptBy
  <2> QED
    BY <2>1, <2>2, <2>3, <2>4, <2>5, KeysStay
<1> QED
  BY <1>1, <1>2, <1>3, <1>4, <1>5, SetupStepKeys DEF Next, SetupNext, SetupAssumption

\* A vault encrypted with a generated key stands beside that key, however many commands
\* run at once and wherever they are cut, unless a home was archived under a command that
\* was at work.
THEOREM VaultsKeepKeys == Spec => []VaultKeepsItsKey
<1>1. Init => KeyInv
  BY SetupAssumption DEF Init, SetupInit, KeyInv, VaultKeepsItsKey, At
<1>2. HomeTypeOK /\ KeyInv /\ [Next]_vars => KeyInv'
  BY KeysStep
<1>3. KeyInv => VaultKeepsItsKey
  BY DEF KeyInv
<1> QED
  BY <1>1, <1>2, <1>3, HomeTypeCorrect, PTL DEF Spec

-----------------------------------------------------------------------------
(* What a command that runs alone can rely on.                             *)

\* A command that has met no other one knows what the home holds.
AloneOf(r) ==
  /\ r.step \in {"saveAgent", "ready"} =>
       home # Nothing /\ Here.vault # Nothing /\ Here.vault.issuer = r.vault.issuer
  /\ r.cmd.reset =>
       /\ r.step \notin {"failed", "retire", "password", "check"}
       /\ r.step \in {"legacy", "choose", "ensureKey", "createKey"} => home = Nothing
       /\ r.step = "writeKey" => home = r.open
       /\ r.step \in {"writeKey", "vault", "save"} => Here.vault = Nothing
       /\ r.step = "open" => Here.vault # Nothing /\ Here.vault.password = r.password

AloneInv ==
  \A p \in Process : run[p] # Nothing /\ run[p].alone => Busy \subseteq {p} /\ AloneOf(run[p])

LEMMA AloneStays ==
  ASSUME HomeTypeOK, AloneInv, NEW p \in Process, Others(p),
         run[p] # Nothing \/ \A q \in Process \ {p} : run'[q] # Nothing => ~run'[q].alone,
         run'[p] # Nothing /\ run'[p].alone => Busy \subseteq {p} /\ AloneOf(run[p])'
  PROVE  AloneInv'
<1>1. \A q \in Process \ {p} : run'[q] # Nothing =>
        run[q] # Nothing /\ (~run'[q].alone \/ run'[q].alone = run[q].alone)
  BY DEF Others, Busy
<1>2. Busy' \subseteq Busy \cup {p}
  BY <1>1 DEF Busy
<1>3. \A q \in Process \ {p} : run'[q] # Nothing => ~run'[q].alone
  <2>1. CASE run[p] # Nothing
    BY <1>1, <2>1 DEF AloneInv, Busy
  <2> QED
    BY <2>1
<1> QED
  BY <1>2, <1>3 DEF AloneInv

LEMMA AloneOfLook ==
  ASSUME HomeTypeOK, AloneInv, NEW p \in Process, run[p] # Nothing, Others(p),
         UNCHANGED <<home, dirs>>,
         run'[p] # Nothing /\ run'[p].alone => run[p].alone /\ AloneOf(run'[p])
  PROVE  AloneInv'
<1>1. Here' = Here
  BY DEF Here
<1>2. run'[p] # Nothing /\ run'[p].alone => Busy \subseteq {p} /\ AloneOf(run[p])'
  BY <1>1 DEF AloneOf, AloneInv
<1> QED
  BY <1>2, AloneStays

LEMMA SetupStepAlone ==
  ASSUME HomeTypeOK, AloneInv, NEW p \in Process, Step(p)
  PROVE  AloneInv'
<1> USE SetupAssumption
<1>a. /\ run[p] # Nothing
      /\ run[p].step \in SetupSteps \ {"failed"} /\ run[p] \in SetupRun
      /\ Has(run[p]) /\ (run[p].alone => Busy \subseteq {p} /\ AloneOf(run[p]))
  <2>1. run[p] # Nothing /\ run[p].step \in SetupSteps \ {"failed"}
    BY DEF Step, Reset, Legacy, Retire, Choose, ReadPassword, EnsureKey, CreateKey, WriteKey,
           FindVault, Check, SaveNew, Open, SaveAgent, Report, At, SetupSteps
  <2> QED
    BY <2>1, KindOfRun DEF HomeTypeOK, AloneInv
<1>b. Here \in Dir /\ (home = Nothing => Here = NoDir) /\ (home \in Dirs => Here = dirs[home])
  BY HereIsDir
<1>c. run[p].cmd \in Command
  BY <1>a DEF SetupRun
<1>e. NoDir.vault = Nothing /\ NoDir.key = Nothing
  BY DEF NoDir
<1>1. ASSUME NEW step \in SetupSteps, Goto(p, step), Same,
             step \notin {"writeKey", "saveAgent", "ready"},
             run[p].alone /\ run[p].cmd.reset /\ AloneOf(run[p]) =>
               /\ step \notin {"failed", "retire", "password", "check"}
               /\ step \in {"legacy", "choose", "ensureKey", "createKey"} => home = Nothing
               /\ step \in {"vault", "save"} => Here.vault = Nothing
               /\ step = "open" => Here.vault # Nothing /\ Here.vault.password = run[p].password
      PROVE  AloneInv'
  <2>1. run'[p] = [run[p] EXCEPT !.step = step] /\ Others(p)
    BY <1>a, <1>1, GotoEffect
  <2>2. /\ run'[p].step = step /\ run'[p].password = run[p].password
        /\ run'[p].alone = run[p].alone /\ run'[p].cmd = run[p].cmd
    BY <1>a, <2>1 DEF SetupRun
  <2>3. run[p].alone => AloneOf(run'[p])
    BY <1>a, <1>1, <2>2 DEF AloneOf
  <2> QED
    BY <1>a, <1>1, <2>1, <2>2, <2>3, AloneOfLook DEF Same, Disk
<1>2. CASE Archive(p, "choose")
  <2>1. home' = Nothing /\ run'[p] = [run[p] EXCEPT !.step = "choose"] /\ Others(p)
    BY <1>a, <1>2, ArchiveEffect
  <2>2. run'[p].step = "choose" /\ run'[p].alone = run[p].alone
    BY <1>a, <2>1 DEF SetupRun
  <2>3. run[p].alone => AloneOf(run[p])'
    BY <2>1, <2>2 DEF AloneOf
  <2> QED
    BY <1>a, <2>1, <2>2, <2>3, AloneStays
<1>3. ASSUME NEW step \in {"vault", "open"}, NEW password \in Generated \cup Password,
             GotoWith(p, step, password), Same,
             run[p].alone /\ run[p].cmd.reset => step = "vault" /\ Here.vault = Nothing
      PROVE  AloneInv'
  <2> DEFINE r == [run[p] EXCEPT !.step = step, !.password = password]
  <2>1. r \in Run /\ r.step = step /\ r.cmd = run[p].cmd /\ r.alone = run[p].alone
    BY <1>a DEF SetupRun, SetupSteps, Run
  <2>2. run' = [run EXCEPT ![p] = r] /\ UNCHANGED <<home, dirs>>
    BY <1>3 DEF GotoWith, Same, Disk
  <2> HIDE DEF r
  <2>3. run[p].alone => AloneOf(r)
    BY <1>3, <2>1 DEF AloneOf
  <2> QED
    BY <1>a, <2>1, <2>2, <2>3, MoveEffect, AloneOfLook
<1>4. CASE Reset(p)
  BY <1>1, <1>2, <1>4 DEF Reset, HomeExists, SetupSteps
<1>5. CASE Legacy(p)
  <2>1. run[p].alone /\ run[p].cmd.reset /\ AloneOf(run[p]) => home = Nothing /\ ~VaultExists
    BY <1>b, <1>e, <1>5 DEF Legacy, At, AloneOf, VaultExists
  <2> QED
    BY <1>1, <1>5, <2>1 DEF Legacy, SetupSteps
<1>6. CASE Retire(p)
  <2>1. run[p].alone /\ AloneOf(run[p]) => ~run[p].cmd.reset
    BY <1>6 DEF Retire, At, AloneOf
  <2> QED
    BY <1>1, <1>2, <1>6, <2>1 DEF Retire, SetupSteps
<1>7. CASE Choose(p)
  <2>1. run[p].alone /\ run[p].cmd.reset /\ AloneOf(run[p]) => home = Nothing /\ ~VaultExists
    BY <1>b, <1>e, <1>7 DEF Choose, At, AloneOf, VaultExists
  <2> QED
    BY <1>1, <1>7, <2>1 DEF Choose, SetupSteps
<1>8. CASE ReadPassword(p)
  <2>1. run[p].cmd.given # Nothing => run[p].cmd.given \in Password
    BY <1>c DEF Command
  <2>2. Here.key \notin {Nothing, Empty} => Here.key \in Generated
    BY <1>b DEF Dir, File, Generated, Empty
  <2>3. run[p].alone => ~run[p].cmd.reset
    BY <1>a, <1>8 DEF ReadPassword, At, AloneOf
  <2> QED
    BY <1>1, <1>3, <1>8, <2>1, <2>2, <2>3 DEF ReadPassword, SetupSteps
<1>9. CASE EnsureKey(p)
  <2>1. run[p].cmd.given # Nothing => run[p].cmd.given \in Password
    BY <1>c DEF Command
  <2>2. Here.key \notin {Nothing, Empty} => Here.key \in Generated
    BY <1>b DEF Dir, File, Generated, Empty
  <2>3. run[p].alone /\ run[p].cmd.reset => home = Nothing /\ Here.vault = Nothing /\ Here.key = Nothing
    BY <1>a, <1>b, <1>e, <1>9 DEF EnsureKey, At, AloneOf
  <2> QED
    BY <1>1, <1>3, <1>9, <2>1, <2>2, <2>3 DEF EnsureKey, SetupSteps, Empty
<1>10. CASE CreateKey(p)
  <2>1. run[p].alone /\ run[p].cmd.reset => home = Nothing /\ NoKey /\ Here.vault = Nothing
    BY <1>a, <1>b, <1>e, <1>10 DEF CreateKey, At, AloneOf, NoKey
  <2>2. CASE ~NoKey /\ Goto(p, "failed") /\ UNCHANGED <<home, dirs>>
    BY <1>1, <1>10, <2>1, <2>2 DEF CreateKey, Same, Disk, SetupSteps
  <2>3. CASE InHome([Here EXCEPT !.key = Empty])
             /\ run' = [run EXCEPT ![p].step = "writeKey", ![p].open = home']
    <3> DEFINE r == [run[p] EXCEPT !.step = "writeKey", !.open = home']
               dir == [Here EXCEPT !.key = Empty]
    <3>1. dir \in Dir /\ dir.vault = Here.vault
      BY <1>b DEF Dir, File, Empty
    <3>2. InHome(dir) /\ run' = [run EXCEPT ![p] = r]
      BY <2>3
    <3> HIDE DEF dir
    <3>3. home' \in Nat /\ home' # Nothing /\ Here' = dir
      BY <3>1, <3>2, InHomeEffect DEF Dirs, Here
    <3>4. /\ r \in Run /\ r.step = "writeKey" /\ r.open = home'
          /\ r.cmd = run[p].cmd /\ r.alone = run[p].alone
      BY <1>a, <3>3 DEF SetupRun, SetupSteps, File, Run
    <3> HIDE DEF r
    <3>5. run'[p] = r /\ Others(p)
      BY <3>2, <3>4, MoveEffect
    <3>6. run[p].alone => AloneOf(run[p])'
      BY <2>1, <3>1, <3>3, <3>4, <3>5 DEF AloneOf
    <3> QED
      BY <1>a, <3>4, <3>5, <3>6, AloneStays
  <2> QED
    BY <1>10, <2>2, <2>3 DEF CreateKey
<1>11. CASE WriteKey(p)
  <2> DEFINE key == made + 1
             r == [run[p] EXCEPT !.step = "vault", !.password = key]
             d == run[p].open
             dir == [dirs[d] EXCEPT !.key = key]
  <2>1. key \in Generated
    BY <1>11 DEF WriteKey, HomeTypeOK, Generated, Empty
  <2>2. dirs' = [dirs EXCEPT ![d] = dir] /\ run' = [run EXCEPT ![p] = r] /\ UNCHANGED home
    BY <1>11 DEF WriteKey, GotoWith
  <2> HIDE DEF key
  <2>3. d \in Dirs
    BY <1>a, <1>11 DEF WriteKey, At, Has, Opened
  <2>4. dir \in Dir /\ dir.vault = dirs[d].vault
    <3>1. dirs[d] \in Dir
      BY <2>3 DEF HomeTypeOK, Dirs
    <3> QED
      BY <2>1, <3>1 DEF Dir, File, Generated
  <2>5. r \in Run /\ r.step = "vault" /\ r.cmd = run[p].cmd /\ r.alone = run[p].alone
    BY <1>a, <2>1 DEF SetupRun, SetupSteps, Run
  <2> HIDE DEF r, d, dir
  <2>6. run'[p] = r /\ Others(p)
    BY <2>2, <2>5, MoveEffect
  <2>7. dirs'[d] = dir /\ \A e \in Dirs : e # d => dirs'[e] = dirs[e]
    BY <2>2, <2>3, <2>4, WriteEffect
  <2>8. Here'.vault = Here.vault
    BY <2>2, <2>4, <2>7 DEF Here, HomeTypeOK
  <2>9. run[p].alone => AloneOf(run[p])'
    BY <1>a, <1>11, <2>5, <2>6, <2>8 DEF AloneOf, WriteKey, At
  <2> QED
    BY <1>a, <2>5, <2>6, <2>9, AloneStays
<1>12. CASE FindVault(p)
  <2>1. run[p].alone /\ run[p].cmd.reset => Here.vault = Nothing
    BY <1>a, <1>12 DEF FindVault, At, AloneOf
  <2> QED
    BY <1>1, <1>12, <2>1 DEF FindVault, VaultExists, SetupSteps
<1>13. CASE Check(p)
  <2>1. run[p].alone => ~run[p].cmd.reset
    BY <1>a, <1>13 DEF Check, At, AloneOf
  <2> QED
    BY <1>1, <1>13, <2>1 DEF Check, SetupSteps
<1>14. CASE SaveNew(p)
  <2> DEFINE vault == [password |-> run[p].password, issuer |-> made', agents |-> {}]
             step == IF run[p].cmd.op = "setup" THEN "open" ELSE "password"
             r == [run[p] EXCEPT !.step = step]
             dir == [Here EXCEPT !.vault = vault]
  <2>1. made' \in Nat /\ run' = [run EXCEPT ![p] = r] /\ InHome(dir)
    BY <1>14 DEF SaveNew, Save, Goto, HomeTypeOK
  <2>2. run[p].password # Nothing
    BY <1>a, <1>14 DEF SaveNew, At, Has, Keyed
  <2>3. vault \in VaultDoc /\ vault.password = run[p].password
    BY <1>a, <2>1, <2>2 DEF SetupRun, VaultDoc
  <2> HIDE DEF vault
  <2>4. dir \in Dir /\ dir.vault = vault
    BY <1>b, <2>3 DEF Dir
  <2>5. /\ r \in Run /\ r.step = step /\ r.cmd = run[p].cmd /\ r.alone = run[p].alone
        /\ r.password = run[p].password
    BY <1>a DEF SetupRun, SetupSteps, Run
  <2>6. run[p].cmd.reset => step = "open"
    BY <1>c DEF Command
  <2>7. step \in {"open", "password"}
    OBVIOUS
  <2> HIDE DEF r, dir, step
  <2>8. Here' = dir
    BY <2>1, <2>4, InHomeEffect DEF Dirs, Here
  <2>9. run'[p] = r /\ Others(p)
    BY <2>1, <2>5, MoveEffect
  <2>10. run[p].alone => AloneOf(run[p])'
    BY <2>3, <2>4, <2>5, <2>6, <2>7, <2>8, <2>9 DEF AloneOf
  <2> QED
    BY <1>a, <2>5, <2>9, <2>10, AloneStays
<1>15. CASE Open(p)
  <2>1. CASE Opens(p)
    <3> DEFINE step == IF HasAgent(run[p].cmd.op, Here.vault) THEN "ready" ELSE "saveAgent"
               r == [run[p] EXCEPT !.vault = Here.vault, !.step = step]
    <3>1. /\ Here.vault # Nothing /\ Here.vault \in VaultDoc
      BY <1>b, <2>1 DEF Opens, VaultExists, Dir
    <3>2. /\ r \in Run /\ r.step \in {"ready", "saveAgent"} /\ r.vault = Here.vault
          /\ r.alone = run[p].alone
      BY <1>a, <3>1 DEF SetupRun, SetupSteps, Run
    <3>3. run' = [run EXCEPT ![p] = r] /\ UNCHANGED <<home, dirs>>
      BY <1>15, <2>1 DEF Open, Same, Disk
    <3>4. home # Nothing
      BY <1>b, <1>e, <3>1
    <3> HIDE DEF r
    <3>5. AloneOf(r)
      BY <3>1, <3>2, <3>4 DEF AloneOf
    <3> QED
      BY <1>a, <3>2, <3>3, <3>5, MoveEffect, AloneOfLook
  <2>2. CASE ~Opens(p)
    <3>1. run[p].alone => ~run[p].cmd.reset
      BY <1>a, <1>15, <2>2 DEF Open, At, AloneOf, Opens, VaultExists
    <3> QED
      BY <1>1, <1>15, <2>2, <3>1 DEF Open, SetupSteps
  <2> QED
    BY <2>1, <2>2
<1>16. CASE SaveAgent(p)
  <2> DEFINE vault == [run[p].vault EXCEPT !.agents = @ \cup {run[p].cmd.op}]
             dir == [Here EXCEPT !.vault = vault]
             r == [run[p] EXCEPT !.step = "ready"]
  <2>1. run' = [run EXCEPT ![p] = r] /\ InHome(dir)
    BY <1>16 DEF SaveAgent, Save, Goto
  <2>2. run[p].vault # Nothing
    BY <1>a, <1>16 DEF SaveAgent, At, Has
  <2>3. run[p].vault \in VaultDoc /\ run[p].cmd \in Command
    BY <1>a, <2>2 DEF SetupRun
  <2>4. vault \in VaultDoc /\ vault.issuer = run[p].vault.issuer
    BY <2>3, AgentSaved
  <2> HIDE DEF vault
  <2>5. dir \in Dir /\ dir.vault = vault
    BY <1>b, <2>4 DEF Dir
  <2>6. r \in Run /\ r.step = "ready" /\ r.vault = run[p].vault /\ r.alone = run[p].alone
    BY <1>a DEF SetupRun, SetupSteps, Run
  <2> HIDE DEF r, dir
  <2>7. Here' = dir /\ home' # Nothing
    BY <2>1, <2>5, InHomeEffect DEF Dirs, Here
  <2>8. run'[p] = r /\ Others(p)
    BY <2>1, <2>6, MoveEffect
  <2>9. AloneOf(run[p])'
    BY <2>4, <2>5, <2>6, <2>7, <2>8 DEF AloneOf
  <2> QED
    BY <1>a, <2>6, <2>8, <2>9, AloneStays
<1>17. CASE Report(p)
  <2>1. run' = [run EXCEPT ![p] = Nothing] /\ UNCHANGED <<home, dirs>> /\ Nothing \in Run
    BY <1>17 DEF Report, Disk, Run
  <2>2. run'[p] = Nothing /\ Others(p)
    BY <2>1, MoveEffect
  <2> QED
    BY <1>a, <2>1, <2>2, AloneOfLook
<1> QED
  BY <1>4, <1>5, <1>6, <1>7, <1>8, <1>9, <1>10, <1>11, <1>12, <1>13, <1>14, <1>15, <1>16, <1>17
     DEF Step

\* An install that others have met is not alone again.
LEMMA InstallAlone ==
  ASSUME HomeTypeOK, NEW p \in Process, InstallStep(p), run'[p] # Nothing
  PROVE  run'[p].alone = run[p].alone
<1>a. run[p] # Nothing /\ run[p] \in InstallRun
  <2>1. run[p] # Nothing /\ run[p].step \in InstallSteps \ {"failed"}
    BY DEF InstallStep, FindCa, OpenTmp, WriteTmp, RenameTmp, OpenCert, WriteCert, OpenAnchor,
           WriteAnchor, Update, Installed, At, InstallSteps
  <2> QED
    BY <2>1, KindOfRun
<1>b. run \in [Process -> Run]
  BY DEF HomeTypeOK
<1>1. CASE FindCa(p)
  BY <1>a, <1>b, <1>1 DEF FindCa, Goto, InstallRun
<1>2. CASE OpenTmp(p)
  BY <1>a, <1>b, <1>2 DEF OpenTmp, InstallRun
<1>3. CASE WriteTmp(p) \/ WriteCert(p) \/ WriteAnchor(p) \/ Update(p)
  BY <1>a, <1>b, <1>3 DEF WriteTmp, WriteCert, WriteAnchor, Update, Goto, InstallRun
<1>4. CASE RenameTmp(p)
  BY <1>a, <1>b, <1>4 DEF RenameTmp, Goto, InstallRun
<1>5. CASE OpenCert(p) \/ OpenAnchor(p)
  BY <1>a, <1>b, <1>5 DEF OpenCert, OpenAnchor, Goto, InstallRun
<1>6. CASE Installed(p)
  BY <1>b, <1>6 DEF Installed
<1> QED
  BY <1>1, <1>2, <1>3, <1>4, <1>5, <1>6 DEF InstallStep

LEMMA AloneStep ==
  ASSUME HomeTypeOK, AloneInv, [Next]_vars
  PROVE  AloneInv'
<1> USE SetupAssumption
<1>1. CASE UNCHANGED vars
  BY <1>1 DEF vars, setupVars, AloneInv, AloneOf, Here, Busy
<1>2. ASSUME NEW p \in Process, NEW cmd \in Command, Begin(p, cmd) PROVE AloneInv'
  <2> DEFINE r == [cmd |-> cmd, password |-> Nothing, open |-> Nothing, vault |-> Nothing,
                   step |-> CASE cmd.reset -> "reset"
                              [] cmd.op = "setup" /\ ~cmd.reset -> "legacy"
                              [] cmd.op = "init" -> "ensureKey",
                   alone |-> Busy = {}, moved |-> FALSE]
  <2>1. r.step \in {"reset", "legacy", "ensureKey"} /\ (cmd.reset => r.step = "reset")
    BY DEF Command
  <2>2. r \in SetupRun
    BY <2>1 DEF SetupRun, SetupSteps, File
  <2>3. Starts(p, r)
    BY <1>2 DEF Begin
  <2>4. r.alone => Busy = {}
    OBVIOUS
  <2>5. r.cmd = cmd
    OBVIOUS
  <2> HIDE DEF r
  <2>6. /\ run'[p] = r /\ Others(p)
        /\ \A q \in Process \ {p} : run'[q] # Nothing => ~run'[q].alone
    BY <2>2, <2>3, StartsEffect
  <2>7. AloneOf(run[p])'
    BY <2>1, <2>5, <2>6 DEF AloneOf
  <2> QED
    BY <2>4, <2>6, <2>7, AloneStays
<1>3. ASSUME NEW p \in Process, InstallBegins(p) PROVE AloneInv'
  <2> DEFINE r == [cmd |-> InstallCa, step |-> "findCa", alone |-> Busy = {}, moved |-> FALSE,
                   ca |-> Nothing, open |-> Nothing, file |-> Nothing]
  <2>1. r \in InstallRun
    BY DEF InstallRun, InstallSteps, File
  <2>2. Starts(p, r)
    BY <1>3 DEF InstallBegins
  <2>3. r.step = "findCa" /\ ~r.cmd.reset /\ (r.alone => Busy = {})
    BY DEF InstallCa
  <2> HIDE DEF r
  <2>4. /\ run'[p] = r /\ Others(p)
        /\ \A q \in Process \ {p} : run'[q] # Nothing => ~run'[q].alone
    BY <2>1, <2>2, StartsEffect
  <2>5. AloneOf(run[p])'
    BY <2>3, <2>4 DEF AloneOf
  <2> QED
    BY <2>3, <2>4, <2>5, AloneStays
<1>4. ASSUME NEW p \in Process, Stops(p) PROVE AloneInv'
  <2>1. run' = [run EXCEPT ![p] = Nothing] /\ run[p] # Nothing /\ Nothing \in Run
    BY <1>4 DEF Stops, Run
  <2>2. run'[p] = Nothing /\ Others(p)
    BY <2>1, MoveEffect
  <2> QED
    BY <2>1, <2>2, AloneStays
<1>5. ASSUME NEW p \in Process, InstallStep(p) PROVE AloneInv'
  <2>1. Others(p) /\ (run'[p] # Nothing => run'[p] \in InstallRun)
    BY <1>5, InstallRuns
  <2>2. run[p] # Nothing
    BY <1>5 DEF InstallStep, FindCa, OpenTmp, WriteTmp, RenameTmp, OpenCert, WriteCert,
                OpenAnchor, WriteAnchor, Update, Installed, At
  <2>3. run'[p] # Nothing => AloneOf(run[p])'
    BY <2>1 DEF AloneOf, InstallRun, InstallSteps, InstallCa
  <2>4. run'[p] # Nothing /\ run'[p].alone => run[p].alone
    BY <1>5, InstallAlone
  <2>5. run[p].alone => Busy \subseteq {p}
    BY <2>2 DEF AloneInv
  <2> QED
    BY <2>1, <2>2, <2>3, <2>4, <2>5, AloneStays
<1> QED
  BY <1>1, <1>2, <1>3, <1>4, <1>5, SetupStepAlone DEF Next, SetupNext, SetupAssumption

\* README.md:89 "If an older password-based local vault blocks setup, reset the local
\* Lockrail state": a reset that runs alone does not fail, whatever was left behind.
THEOREM ResetSucceeds == Spec => []ResetNeverBlocked
<1>1. Init => AloneInv
  BY DEF Init, SetupInit, AloneInv
<1>2. HomeTypeOK /\ AloneInv /\ [Next]_vars => AloneInv'
  BY AloneStep
<1>3. AloneInv => ResetNeverBlocked
  BY DEF AloneInv, AloneOf, ResetNeverBlocked, Busy
<1> QED
  BY <1>1, <1>2, <1>3, HomeTypeCorrect, PTL DEF Spec

-----------------------------------------------------------------------------
(* ReadyIsKept: the directory whose vault was reported stays what it is,   *)
(* because nobody who would replace its vault by another is at work in it, *)
(* and nobody comes to be while the vault is there.                        *)

Undone(d, issuer) ==
  /\ dirs[d].vault # Nothing /\ dirs[d].vault.issuer = issuer
  /\ home = d => \A q \in Process :
       ~At(q, "save") /\ (At(q, "saveAgent") => run[q].vault.issuer = issuer)

ReadyInv == \A issuer \in ready : \E d \in Dirs : Undone(d, issuer)

LEMMA UndoneStays ==
  ASSUME HomeTypeOK, NEW d \in Dirs, NEW issuer, Undone(d, issuer),
         dirs'[d].vault # Nothing /\ dirs'[d].vault.issuer = issuer,
         home' = d => home = d,
         NEW p \in Process, Others(p),
         home = d /\ run'[p] # Nothing =>
           run'[p].step # "save" /\ (run'[p].step = "saveAgent" => run'[p].vault.issuer = issuer)
  PROVE  Undone(d, issuer)'
<1>1. ASSUME NEW q \in Process \ {p}, home = d, run'[q] # Nothing
      PROVE  run'[q].step # "save" /\ (run'[q].step = "saveAgent" => run'[q].vault.issuer = issuer)
  <2>1. run[q] # Nothing /\ (run'[q] = run[q] \/ Steady(q))
    BY <1>1 DEF Others, Busy
  <2>2. run[q].step = "saveAgent" => run[q] \in SetupRun
    BY <2>1, KindOfRun DEF SetupSteps
  <2> QED
    BY <1>1, <2>1, <2>2 DEF Undone, At, Steady
<1> QED
  BY <1>1 DEF Undone, At

\* A step that leaves the vaults as they are.
LEMMA UndoneOfLook ==
  ASSUME HomeTypeOK, NEW d \in Dirs, NEW issuer, Undone(d, issuer),
         dirs'[d].vault = dirs[d].vault, home' \notin Dirs \/ home' = home,
         NEW p \in Process, Others(p),
         home = d /\ run'[p] # Nothing =>
           run'[p].step # "save" /\ (run'[p].step = "saveAgent" => run'[p].vault.issuer = issuer)
  PROVE  Undone(d, issuer)'
BY UndoneStays DEF Undone

LEMMA SetupStepUndone ==
  ASSUME HomeTypeOK, NEW d \in Dirs, NEW issuer, Undone(d, issuer), NEW p \in Process, Step(p)
  PROVE  Undone(d, issuer)'
<1> USE SetupAssumption
<1>a. /\ run[p] # Nothing
      /\ run[p].step \in SetupSteps \ {"failed"} /\ run[p] \in SetupRun /\ Has(run[p])
  <2>1. run[p] # Nothing /\ run[p].step \in SetupSteps \ {"failed"}
    BY DEF Step, Reset, Legacy, Retire, Choose, ReadPassword, EnsureKey, CreateKey, WriteKey,
           FindVault, Check, SaveNew, Open, SaveAgent, Report, At, SetupSteps
  <2> QED
    BY <2>1, KindOfRun DEF HomeTypeOK
<1>b. Here \in Dir /\ (home = Nothing => Here = NoDir) /\ (home \in Dirs => Here = dirs[home])
  BY HereIsDir
<1>c. run[p].cmd \in Command /\ Nothing \notin Dirs
  BY <1>a DEF SetupRun, Dirs
<1>1. ASSUME NEW step \in SetupSteps \ {"save", "saveAgent"}, Goto(p, step),
             UNCHANGED <<home, dirs>>
      PROVE  Undone(d, issuer)'
  BY <1>a, <1>1, GotoEffect, UndoneOfLook
<1>2. CASE Archive(p, "choose")
  BY <1>a, <1>c, <1>2, ArchiveEffect, UndoneOfLook
<1>3. ASSUME NEW step \in {"vault", "open"}, NEW password \in Generated \cup Password,
             GotoWith(p, step, password), UNCHANGED <<home, dirs>>
      PROVE  Undone(d, issuer)'
  <2> DEFINE r == [run[p] EXCEPT !.step = step, !.password = password]
  <2>1. r \in Run /\ r.step = step
    BY <1>a DEF SetupRun, SetupSteps, Run
  <2>2. run' = [run EXCEPT ![p] = r]
    BY <1>3 DEF GotoWith
  <2> HIDE DEF r
  <2> QED
    BY <1>3, <2>1, <2>2, MoveEffect, UndoneOfLook
<1>4. CASE Reset(p) \/ Legacy(p) \/ Retire(p) \/ Choose(p) \/ Check(p)
  BY <1>1, <1>2, <1>4 DEF Reset, Legacy, Retire, Choose, Check, Same, Disk, SetupSteps
<1>5. CASE ReadPassword(p) \/ EnsureKey(p)
  <2>1. run[p].cmd.given # Nothing => run[p].cmd.given \in Password
    BY <1>c DEF Command
  <2>2. Here.key \notin {Nothing, Empty} => Here.key \in Generated
    BY <1>b DEF Dir, File, Generated, Empty
  <2> QED
    BY <1>1, <1>3, <1>5, <2>1, <2>2 DEF ReadPassword, EnsureKey, Same, Disk, SetupSteps
<1>6. CASE CreateKey(p)
  <2>1. CASE Goto(p, "failed") /\ UNCHANGED <<home, dirs>>
    BY <1>1, <2>1 DEF SetupSteps
  <2>2. CASE InHome([Here EXCEPT !.key = Empty])
             /\ run' = [run EXCEPT ![p].step = "writeKey", ![p].open = home']
    <3> DEFINE r == [run[p] EXCEPT !.step = "writeKey", !.open = home']
               dir == [Here EXCEPT !.key = Empty]
    <3>1. dir \in Dir /\ dir.vault = Here.vault
      BY <1>b DEF Dir, File, Empty
    <3>2. InHome(dir) /\ run' = [run EXCEPT ![p] = r]
      BY <2>2
    <3> HIDE DEF dir
    <3>3. home' \in Nat /\ dirs'[d].vault = dirs[d].vault /\ (home' \notin Dirs \/ home' = home)
      BY <1>b, <3>1, <3>2, InHomeEffect DEF Dirs
    <3>4. r \in Run /\ r.step = "writeKey"
      BY <1>a, <3>3 DEF SetupRun, SetupSteps, File, Run
    <3> HIDE DEF r
    <3> QED
      BY <3>2, <3>3, <3>4, MoveEffect, UndoneOfLook
  <2> QED
    BY <1>6, <2>1, <2>2 DEF CreateKey
<1>7. CASE WriteKey(p)
  <2> DEFINE key == made + 1
             r == [run[p] EXCEPT !.step = "vault", !.password = key]
             e == run[p].open
             dir == [dirs[e] EXCEPT !.key = key]
  <2>1. key \in Generated
    BY <1>7 DEF WriteKey, HomeTypeOK, Generated, Empty
  <2>2. dirs' = [dirs EXCEPT ![e] = dir] /\ run' = [run EXCEPT ![p] = r] /\ UNCHANGED home
    BY <1>7 DEF WriteKey, GotoWith
  <2> HIDE DEF key
  <2>3. e \in Dirs
    BY <1>a, <1>7 DEF WriteKey, At, Has, Opened
  <2>4. dir \in Dir /\ dir.vault = dirs[e].vault
    <3>1. dirs[e] \in Dir
      BY <2>3 DEF HomeTypeOK, Dirs
    <3> QED
      BY <2>1, <3>1 DEF Dir, File, Generated
  <2>5. r \in Run /\ r.step = "vault"
    BY <1>a, <2>1 DEF SetupRun, SetupSteps, Run
  <2> HIDE DEF r, e, dir
  <2>6. dirs'[d].vault = dirs[d].vault
    BY <2>2, <2>3, <2>4, WriteEffect
  <2> QED
    BY <2>2, <2>5, <2>6, MoveEffect, UndoneOfLook
<1>8. CASE FindVault(p)
  <2>1. home = d => VaultExists
    BY <1>b DEF Undone, VaultExists
  <2>2. CASE VaultExists
    BY <1>1, <1>8, <2>2 DEF FindVault, Same, Disk, SetupSteps
  <2>3. CASE ~VaultExists /\ Goto(p, "save")
    BY <1>a, <1>8, <2>1, <2>3, GotoEffect, UndoneOfLook DEF FindVault, Same, Disk, SetupSteps
  <2> QED
    BY <1>8, <2>2, <2>3 DEF FindVault
<1>9. CASE SaveNew(p)
  <2> DEFINE vault == [password |-> run[p].password, issuer |-> made', agents |-> {}]
             step == IF run[p].cmd.op = "setup" THEN "open" ELSE "password"
             r == [run[p] EXCEPT !.step = step]
             dir == [Here EXCEPT !.vault = vault]
  <2>1. made' \in Nat /\ run' = [run EXCEPT ![p] = r] /\ InHome(dir)
    BY <1>9 DEF SaveNew, Save, Goto, HomeTypeOK
  <2>2. vault \in VaultDoc
    BY <1>a, <1>9, <2>1 DEF SaveNew, At, Has, Keyed, SetupRun, VaultDoc
  <2> HIDE DEF vault
  <2>3. dir \in Dir
    BY <1>b, <2>2 DEF Dir
  <2>4. r \in Run /\ r.step \in {"open", "password"}
    BY <1>a DEF SetupRun, SetupSteps, Run
  <2>5. home # d
    BY <1>9 DEF SaveNew, Undone
  <2> HIDE DEF r, dir
  <2>6. dirs'[d] = dirs[d] /\ home' # d
    BY <2>1, <2>3, <2>5, InHomeEffect
  <2> QED
    BY <2>1, <2>4, <2>5, <2>6, MoveEffect, UndoneStays DEF Undone
<1>10. CASE Open(p)
  <2>1. CASE Opens(p)
    <3> DEFINE step == IF HasAgent(run[p].cmd.op, Here.vault) THEN "ready" ELSE "saveAgent"
               r == [run[p] EXCEPT !.vault = Here.vault, !.step = step]
    <3>1. Here.vault # Nothing /\ Here.vault \in VaultDoc
      BY <1>b, <2>1 DEF Opens, VaultExists, Dir
    <3>2. r \in Run /\ r.step # "save" /\ r.vault = Here.vault
      BY <1>a, <3>1 DEF SetupRun, SetupSteps, Run
    <3>3. run' = [run EXCEPT ![p] = r] /\ UNCHANGED <<home, dirs>>
      BY <1>10, <2>1 DEF Open, Same, Disk
    <3> HIDE DEF r
    <3>4. home = d => r.vault.issuer = issuer
      BY <1>b, <3>2 DEF Undone
    <3> QED
      BY <3>2, <3>3, <3>4, MoveEffect, UndoneOfLook
  <2>2. CASE ~Opens(p)
    BY <1>1, <1>10, <2>2 DEF Open, Same, Disk, SetupSteps
  <2> QED
    BY <2>1, <2>2
<1>11. CASE SaveAgent(p)
  <2> DEFINE vault == [run[p].vault EXCEPT !.agents = @ \cup {run[p].cmd.op}]
             dir == [Here EXCEPT !.vault = vault]
             r == [run[p] EXCEPT !.step = "ready"]
  <2>1. run' = [run EXCEPT ![p] = r] /\ InHome(dir)
    BY <1>11 DEF SaveAgent, Save, Goto
  <2>2. run[p].vault \in VaultDoc /\ run[p].cmd \in Command
    BY <1>a, <1>11 DEF SaveAgent, At, Has, SetupRun
  <2>3. vault \in VaultDoc /\ vault # Nothing /\ vault.issuer = run[p].vault.issuer
    BY <2>2, AgentSaved, SetupAssumption
  <2>4. home = d => run[p].vault.issuer = issuer
    BY <1>11 DEF SaveAgent, Undone
  <2> HIDE DEF vault
  <2>5. dir \in Dir /\ dir.vault = vault
    BY <1>b, <2>3 DEF Dir
  <2>6. r \in Run /\ r.step = "ready"
    BY <1>a DEF SetupRun, SetupSteps, Run
  <2> HIDE DEF r, dir
  <2>7. /\ dirs'[d].vault # Nothing /\ dirs'[d].vault.issuer = issuer
        /\ home' = d => home = d
    BY <2>1, <2>3, <2>4, <2>5, InHomeEffect DEF Undone
  <2> QED
    BY <2>1, <2>6, <2>7, MoveEffect, UndoneStays
<1>12. CASE Report(p)
  <2>1. run' = [run EXCEPT ![p] = Nothing] /\ UNCHANGED <<home, dirs>> /\ Nothing \in Run
    BY <1>12 DEF Report, Disk, Run
  <2> QED
    BY <2>1, MoveEffect, UndoneOfLook
<1> QED
  BY <1>4, <1>5, <1>6, <1>7, <1>8, <1>9, <1>10, <1>11, <1>12 DEF Step

LEMMA UndoneStep ==
  ASSUME HomeTypeOK, NEW d \in Dirs, NEW issuer, Undone(d, issuer), [Next]_vars
  PROVE  Undone(d, issuer)'
<1> USE SetupAssumption
<1>1. CASE UNCHANGED vars
  BY <1>1 DEF vars, setupVars, Undone, At
<1>2. ASSUME NEW p \in Process, NEW cmd \in Command, Begin(p, cmd) PROVE Undone(d, issuer)'
  <2> DEFINE r == [cmd |-> cmd, password |-> Nothing, open |-> Nothing, vault |-> Nothing,
                   step |-> CASE cmd.reset -> "reset"
                              [] cmd.op = "setup" /\ ~cmd.reset -> "legacy"
                              [] cmd.op = "init" -> "ensureKey",
                   alone |-> Busy = {}, moved |-> FALSE]
  <2>1. r.step \in {"reset", "legacy", "ensureKey"}
    BY DEF Command
  <2>2. r \in SetupRun
    BY <2>1 DEF SetupRun, SetupSteps, File
  <2>3. Starts(p, r) /\ UNCHANGED <<home, dirs>>
    BY <1>2 DEF Begin, Disk
  <2> HIDE DEF r
  <2> QED
    BY <2>1, <2>2, <2>3, StartsEffect, UndoneOfLook
<1>3. ASSUME NEW p \in Process, InstallBegins(p) PROVE Undone(d, issuer)'
  <2> DEFINE r == [cmd |-> InstallCa, step |-> "findCa", alone |-> Busy = {}, moved |-> FALSE,
                   ca |-> Nothing, open |-> Nothing, file |-> Nothing]
  <2>1. r \in InstallRun /\ r.step = "findCa"
    BY DEF InstallRun, InstallSteps, File
  <2>2. Starts(p, r) /\ UNCHANGED <<home, dirs>>
    BY <1>3 DEF InstallBegins, Disk
  <2> HIDE DEF r
  <2> QED
    BY <2>1, <2>2, StartsEffect, UndoneOfLook
<1>4. ASSUME NEW p \in Process, Stops(p) PROVE Undone(d, issuer)'
  <2>1. run' = [run EXCEPT ![p] = Nothing] /\ UNCHANGED <<home, dirs>> /\ Nothing \in Run
    BY <1>4 DEF Stops, Same, Disk, Run
  <2> QED
    BY <2>1, MoveEffect, UndoneOfLook
<1>5. ASSUME NEW p \in Process, InstallStep(p) PROVE Undone(d, issuer)'
  <2>1. Others(p) /\ (run'[p] # Nothing => run'[p].step \notin {"save", "saveAgent"})
    BY <1>5, InstallRuns DEF InstallRun, InstallSteps
  <2>2. dirs'[d].vault = dirs[d].vault /\ (home' \notin Dirs \/ home' = home)
    BY <1>5, InstallFiles
  <2> QED
    BY <2>1, <2>2, UndoneOfLook
<1> QED
  BY <1>1, <1>2, <1>3, <1>4, <1>5, SetupStepUndone DEF Next, SetupNext, SetupAssumption

\* Who reports has a home whose vault is the one it reports, and nobody is at work beside it.
LEMMA ReadyByReport ==
  ASSUME HomeTypeOK, [Next]_vars, ready' # ready
  PROVE  \E p \in Process : Report(p)
<1>1. ASSUME NEW p \in Process, InstallStep(p) PROVE FALSE
  BY <1>1, InstallFiles
<1> QED
  BY <1>1 DEF Next, SetupNext, Step, Begin, InstallBegins, Stops, Reset, Legacy, Retire, Choose,
              ReadPassword, EnsureKey, CreateKey, WriteKey, FindVault, Check, SaveNew, Open,
              SaveAgent, Archive, Same, Disk, vars, setupVars

\* No directory is ever removed.
LEMMA DirsGrow ==
  ASSUME HomeTypeOK, [Next]_vars
  PROVE  Dirs \subseteq Dirs'
<1> USE SetupAssumption
<1>1. ASSUME UNCHANGED dirs PROVE Dirs \subseteq Dirs'
  BY <1>1 DEF Dirs
<1>2. ASSUME NEW dir, InHome(dir) PROVE Dirs \subseteq Dirs'
  <2>1. dirs \in Seq(Dir) /\ Len(dirs) \in Nat
    BY DEF HomeTypeOK
  <2>2. CASE dirs' = Append(dirs, dir)
    BY <2>1, <2>2 DEF Dirs
  <2>3. CASE dirs' = [dirs EXCEPT ![home] = dir]
    BY <2>1, <2>3 DEF Dirs
  <2> QED
    BY <1>2, <2>2, <2>3 DEF InHome
<1>3. ASSUME NEW p \in Process, Step(p) PROVE Dirs \subseteq Dirs'
  <2>1. CASE WriteKey(p)
    <3>1. dirs \in Seq(Dir)
      BY DEF HomeTypeOK
    <3> QED
      BY <2>1, <3>1 DEF WriteKey, Dirs
  <2>2. CASE CreateKey(p) \/ SaveNew(p) \/ SaveAgent(p)
    BY <1>1, <1>2, <2>2 DEF CreateKey, SaveNew, SaveAgent, Save
  <2> QED
    BY <1>1, <1>3, <2>1, <2>2
       DEF Step, Reset, Legacy, Retire, Choose, ReadPassword, EnsureKey, FindVault, Check, Open,
           Report, Archive, Renamed, Same, Disk
<1> QED
  BY <1>1, <1>3, InstallFiles
     DEF Next, SetupNext, Begin, InstallBegins, Stops, Same, Disk, vars, setupVars

LEMMA ReadyStep ==
  ASSUME HomeTypeOK, AloneInv, ReadyInv, [Next]_vars
  PROVE  ReadyInv'
<1>1. HomeTypeOK' /\ Dirs \subseteq Dirs'
  BY TypeStep, DirsGrow
<1>2. ASSUME NEW issuer \in ready', issuer \notin ready
      PROVE  \E d \in Dirs : Undone(d, issuer)
  <2>1. PICK p \in Process : Report(p)
    BY <1>2, ReadyByReport
  <2>2. run[p].alone /\ issuer = run[p].vault.issuer /\ run[p] # Nothing /\ run[p].step = "ready"
    BY <1>2, <2>1 DEF Report, At
  <2>3. Busy \subseteq {p} /\ home # Nothing /\ Here.vault # Nothing /\ Here.vault.issuer = issuer
    BY <2>2 DEF AloneInv, AloneOf
  <2>4. home \in Dirs
    BY <2>3 DEF HomeTypeOK
  <2>5. Undone(home, issuer)
    BY <2>2, <2>3 DEF Undone, Here, At, Busy
  <2> QED
    BY <2>4, <2>5
<1>3. \A issuer \in ready' : \E d \in Dirs : Undone(d, issuer)
  BY <1>2 DEF ReadyInv
<1> QED
  BY <1>1, <1>3, UndoneStep DEF ReadyInv

\* README.md:90 "Reset archives the old `~/.lockrail` directory": no vault that a command
\* running alone reported ready is ever gone.
THEOREM ReadyStays == Spec => []ReadyIsKept
<1>1. Init => AloneInv /\ ReadyInv
  BY DEF Init, SetupInit, AloneInv, ReadyInv
<1>2. HomeTypeOK /\ AloneInv /\ ReadyInv /\ [Next]_vars => AloneInv' /\ ReadyInv'
  BY AloneStep, ReadyStep
<1>3. ReadyInv => ReadyIsKept
  BY DEF ReadyInv, Undone, ReadyIsKept, Dirs
<1> QED
  BY <1>1, <1>2, <1>3, HomeTypeCorrect, PTL DEF Spec

-----------------------------------------------------------------------------
(* An install that is alone, or the only one since the home was certified, *)
(* finds at each step what the steps before it left.                       *)

Certified == certified # Nothing /\ certified = home

\* ... from the certificate on: the authority is in the home.
InstallOf(r) ==
  r.step \in {"openCert", "writeCert", "openAnchor", "writeAnchor", "update", "installed"} =>
    /\ home # Nothing /\ r.ca \in Generated /\ Here.ca = r.ca
    /\ r.step \in {"writeCert", "writeAnchor"} => r.open = home
    /\ r.step = "writeCert" => Here.cert = Torn
    /\ r.step \in {"openAnchor", "writeAnchor"} => Here.cert = r.ca
    /\ r.step = "writeAnchor" => anchor = Torn
    /\ r.step = "update" => anchor = r.ca
    /\ r.step = "installed" => trusted = r.ca

\* ... before: it is in the tmp file.
MakesOf(r) ==
  r.step \in {"writeTmp", "rename"} =>
    /\ home # Nothing /\ r.ca \in Generated
    /\ r.step = "writeTmp" => r.file = "tmp" /\ r.open = home /\ Here.tmp = Torn
    /\ r.step = "rename" => Here.tmp = r.ca

TrustOf(r) ==
  /\ r.alone => MakesOf(r) /\ InstallOf(r)
  /\ Certified => r.step \notin {"openTmp", "writeTmp", "rename"} /\ InstallOf(r)

TrustInv ==
  /\ certified \in Dirs \cup {Nothing}
  /\ certified # Nothing => \A p, q \in Installing : p = q
  /\ Certified => Here.ca \in Generated /\ trusted = Here.ca
  /\ \A p \in Installing : TrustOf(run[p])

\* What becomes of the others when one process goes on: they are not alone, and see a
\* certified home as it was unless it is that one's.
LEMMA TrustStays ==
  ASSUME HomeTypeOK, AloneInv, TrustInv, Dirs \subseteq Dirs', NEW p \in Process, Others(p),
         run[p] # Nothing \/ \A q \in Process \ {p} : run'[q] # Nothing => ~run'[q].alone,
         certified' \in {certified, Nothing},
         Certified' => Certified /\ Here'.ca \in Generated /\ trusted' = Here'.ca,
         Certified' => \/ Installing \subseteq {p}
                       \/ UNCHANGED <<home, anchor, trusted>>
                          /\ Here'.ca = Here.ca /\ Here'.cert = Here.cert,
         p \in Installing' => /\ TrustOf(run[p])'
                              /\ p \in Installing \/ Installing = {} \/ certified' = Nothing
  PROVE  TrustInv'
<1> USE SetupAssumption
<1>1. certified' \in Dirs' \cup {Nothing}
  BY DEF TrustInv
<1>2. ASSUME NEW q \in Process \ {p}, q \in Installing'
      PROVE  /\ q \in Installing
             /\ run'[q] = run[q] \/ (Steady(q) /\ run[q] \in InstallRun)
  <2>1. run'[q] # Nothing /\ run'[q].cmd = InstallCa
    BY <1>2 DEF Installing, Busy
  <2>2. run[q] # Nothing /\ (run'[q] = run[q] \/ Steady(q))
    BY <2>1 DEF Others, Busy
  <2>3. run[q].cmd = InstallCa
    BY <2>1, <2>2 DEF Steady
  <2>4. q \in Installing
    BY <2>2, <2>3 DEF Installing, Busy
  <2> QED
    BY <2>2, <2>4, KindOfRun
<1>3. certified' # Nothing => \A q, r \in Installing' : q = r
  <2>1. SUFFICES ASSUME certified' # Nothing, NEW q \in Installing', NEW r \in Installing', q # r
                 PROVE  FALSE
    OBVIOUS
  <2>2. q \in Process /\ r \in Process
    BY DEF Installing, Busy
  <2>3. certified # Nothing
    BY <2>1
  <2> QED
    BY <1>2, <2>1, <2>2, <2>3 DEF TrustInv
<1>4. ASSUME NEW q \in Process \ {p}, q \in Installing' PROVE TrustOf(run[q])'
  <2>1. q \in Installing /\ run'[q] # Nothing /\ run[q] # Nothing
    BY <1>2, <1>4 DEF Installing, Busy
  <2>2. ~run'[q].alone
    <3>1. CASE run[p] # Nothing
      <4>1. ~run[q].alone
        BY <2>1, <3>1 DEF AloneInv, Busy
      <4> QED
        BY <2>1, <4>1 DEF Others, Busy
    <3> QED
      BY <2>1, <3>1
  <2>3. ASSUME Certified'
        PROVE  /\ run'[q].step \notin {"openTmp", "writeTmp", "rename"}
               /\ InstallOf(run[q])'
    <3>1. run[q].step \notin {"openTmp", "writeTmp", "rename"} /\ InstallOf(run[q])
      BY <2>1, <2>3 DEF TrustInv, TrustOf
    <3>2. run'[q].step = run[q].step /\ run'[q].ca = run[q].ca /\ run'[q].open = run[q].open
      BY <1>2, <1>4 DEF Steady
    <3>3. UNCHANGED <<home, anchor, trusted>> /\ Here'.ca = Here.ca /\ Here'.cert = Here.cert
      BY <2>1, <2>3
    <3> QED
      BY <3>1, <3>2, <3>3 DEF InstallOf
  <2> QED
    BY <2>2, <2>3 DEF TrustOf
<1>5. \A q \in Installing' : TrustOf(run[q])'
  BY <1>4 DEF Installing, Busy
<1> QED
  BY <1>1, <1>3, <1>5 DEF TrustInv

\* A setup, an init and a reset leave the authority of a home as it is.
LEMMA SetupStepFiles ==
  ASSUME HomeTypeOK, NEW p \in Process, Step(p)
  PROVE  /\ run[p] # Nothing /\ p \notin Installing' /\ Others(p) /\ Dirs \subseteq Dirs'
         /\ home' \in Dirs => UNCHANGED home /\ Here'.ca = Here.ca /\ Here'.cert = Here.cert
<1> USE SetupAssumption
<1>a. /\ run[p] # Nothing
      /\ run[p].step \in SetupSteps \ {"failed"} /\ run[p] \in SetupRun /\ Has(run[p])
  <2>1. run[p] # Nothing /\ run[p].step \in SetupSteps \ {"failed"}
    BY DEF Step, Reset, Legacy, Retire, Choose, ReadPassword, EnsureKey, CreateKey, WriteKey,
           FindVault, Check, SaveNew, Open, SaveAgent, Report, At, SetupSteps
  <2> QED
    BY <2>1, KindOfRun DEF HomeTypeOK
<1>b. Here \in Dir /\ (home \in Dirs => Here = dirs[home]) /\ Nothing \notin Dirs
  BY HereIsDir DEF Dirs
<1>c. \A r \in SetupRun : r.cmd # InstallCa
  <2>1. InstallCa \notin Command
    BY DEF InstallCa, Command
  <2>2. \A r \in SetupRun : r.cmd \in Command
    BY DEF SetupRun
  <2> QED
    BY <2>1, <2>2
<1>d. ASSUME NEW r \in SetupRun \cup {Nothing}, run' = [run EXCEPT ![p] = r]
      PROVE  Others(p) /\ p \notin Installing'
  <2>1. run'[p] = r /\ Others(p)
    BY <1>d, MoveEffect DEF Run
  <2> QED
    BY <1>c, <2>1 DEF Installing, Busy
<1>e. UNCHANGED <<home, dirs>> => Dirs' = Dirs /\ Here' = Here
  BY DEF Dirs, Here
<1>1. ASSUME NEW step \in SetupSteps, Goto(p, step) PROVE Others(p) /\ p \notin Installing'
  <2>1. [run[p] EXCEPT !.step = step] \in SetupRun
    BY <1>a DEF SetupRun
  <2> QED
    BY <1>1, <1>d, <2>1 DEF Goto
<1>2. ASSUME NEW step \in {"vault", "open"}, NEW password \in Generated \cup Password,
             GotoWith(p, step, password)
      PROVE  Others(p) /\ p \notin Installing'
  <2>1. [run[p] EXCEPT !.step = step, !.password = password] \in SetupRun
    BY <1>a DEF SetupRun, SetupSteps
  <2> QED
    BY <1>2, <1>d, <2>1 DEF GotoWith
<1>3. ASSUME Archive(p, "choose")
      PROVE  Others(p) /\ p \notin Installing' /\ Dirs' = Dirs /\ home' \notin Dirs
  <2>1. run'[p] \in SetupRun /\ Others(p) /\ home' = Nothing /\ UNCHANGED dirs
    BY <1>a, <1>3, ArchiveEffect
  <2> QED
    BY <1>b, <1>c, <2>1 DEF Installing, Busy, Dirs
<1>4. ASSUME NEW dir \in Dir, InHome(dir), dir.ca = Here.ca, dir.cert = Here.cert
      PROVE  /\ Dirs \subseteq Dirs'
             /\ home' \in Dirs => UNCHANGED home /\ Here'.ca = Here.ca /\ Here'.cert = Here.cert
  <2>1. /\ home' \in Dirs' /\ Dirs \subseteq Dirs' /\ dirs'[home'] = dir
        /\ home' \in Dirs => home' = home
    BY <1>4, InHomeEffect
  <2>2. Nothing \notin Dirs'
    BY DEF Dirs
  <2>3. Here' = dir
    BY <2>1, <2>2 DEF Here
  <2> QED
    BY <1>4, <2>1, <2>3
<1>5. CASE Reset(p)
  BY <1>1, <1>3, <1>5, <1>a, <1>e DEF Reset, Same, Disk, SetupSteps
<1>6. CASE Legacy(p)
  <2>1. \E step \in {"choose", "failed", "retire"} : Goto(p, step)
    BY <1>6 DEF Legacy
  <2> QED
    BY <1>1, <1>6, <1>a, <1>e, <2>1 DEF Legacy, Same, Disk, SetupSteps
<1>7. CASE Retire(p)
  BY <1>1, <1>3, <1>7, <1>a, <1>e DEF Retire, Same, Disk, SetupSteps
<1>8. CASE Choose(p) \/ FindVault(p) \/ Check(p)
  <2>1. \E step \in SetupSteps : Goto(p, step)
    BY <1>8 DEF Choose, FindVault, Check, SetupSteps
  <2> QED
    BY <1>1, <1>8, <1>a, <1>e, <2>1 DEF Choose, FindVault, Check, Same, Disk
<1>9. CASE ReadPassword(p) \/ EnsureKey(p)
  <2>1. run[p].cmd.given # Nothing => run[p].cmd.given \in Password
    BY <1>a DEF SetupRun, Command
  <2>2. Here.key \notin {Nothing, Empty} => Here.key \in Generated
    BY <1>b DEF Dir, File, Generated, Empty
  <2>3. \/ \E step \in SetupSteps : Goto(p, step)
        \/ \E step \in {"vault", "open"}, password \in Generated \cup Password :
             GotoWith(p, step, password)
    BY <1>9, <2>1, <2>2 DEF ReadPassword, EnsureKey, SetupSteps
  <2> QED
    BY <1>1, <1>2, <1>9, <1>a, <1>e, <2>3 DEF ReadPassword, EnsureKey, Same, Disk
<1>10. CASE CreateKey(p)
  <2>1. CASE ~NoKey /\ Goto(p, "failed") /\ UNCHANGED <<home, dirs>>
    BY <1>1, <1>a, <1>e, <2>1 DEF SetupSteps
  <2>2. CASE InHome([Here EXCEPT !.key = Empty])
             /\ run' = [run EXCEPT ![p].step = "writeKey", ![p].open = home']
    <3> DEFINE r == [run[p] EXCEPT !.step = "writeKey", !.open = home']
               dir == [Here EXCEPT !.key = Empty]
    <3>1. dir \in Dir /\ dir.ca = Here.ca /\ dir.cert = Here.cert
      BY <1>b DEF Dir, File, Empty
    <3>2. InHome(dir) /\ run' = [run EXCEPT ![p] = r]
      BY <2>2
    <3> HIDE DEF dir
    <3>3. home' \in Nat
      BY <3>1, <3>2, InHomeEffect DEF Dirs
    <3>4. r \in SetupRun
      BY <1>a, <3>3 DEF SetupRun, SetupSteps, File
    <3> HIDE DEF r
    <3> QED
      BY <1>a, <1>d, <1>4, <3>1, <3>2, <3>4
  <2> QED
    BY <1>10, <2>1, <2>2 DEF CreateKey
<1>11. CASE WriteKey(p)
  <2> DEFINE d == run[p].open
             dir == [dirs[d] EXCEPT !.key = made']
  <2>1. dirs' = [dirs EXCEPT ![d] = dir] /\ UNCHANGED home /\ GotoWith(p, "vault", made')
    BY <1>11 DEF WriteKey
  <2>2. made' \in Generated
    BY <1>11 DEF WriteKey, HomeTypeOK, Generated, Empty
  <2>3. d \in Dirs
    BY <1>a, <1>11 DEF WriteKey, At, Has, Opened
  <2>4. dir \in Dir /\ dir.ca = dirs[d].ca /\ dir.cert = dirs[d].cert
    <3>1. dirs[d] \in Dir
      BY <2>3 DEF HomeTypeOK, Dirs
    <3> QED
      BY <2>2, <3>1 DEF Dir, File, Generated
  <2> HIDE DEF d, dir
  <2>5. /\ Dirs' = Dirs /\ dirs'[d] = dir /\ \A e \in Dirs : e # d => dirs'[e] = dirs[e]
    BY <2>1, <2>3, <2>4, WriteEffect
  <2>6. Here'.ca = Here.ca /\ Here'.cert = Here.cert
    BY <2>1, <2>4, <2>5 DEF Here, HomeTypeOK
  <2> QED
    BY <1>2, <1>a, <2>1, <2>2, <2>5, <2>6
<1>12. ASSUME NEW vault \in VaultDoc, Save(p, vault), NEW step \in SetupSteps, Goto(p, step)
       PROVE  /\ Others(p) /\ p \notin Installing' /\ Dirs \subseteq Dirs'
              /\ home' \in Dirs => UNCHANGED home /\ Here'.ca = Here.ca /\ Here'.cert = Here.cert
  <2>1. [Here EXCEPT !.vault = vault] \in Dir
    BY <1>b DEF Dir
  <2>2. /\ [Here EXCEPT !.vault = vault].ca = Here.ca
        /\ [Here EXCEPT !.vault = vault].cert = Here.cert
    BY <1>b DEF Dir
  <2>3. InHome([Here EXCEPT !.vault = vault])
    BY <1>12 DEF Save
  <2> QED
    BY <1>1, <1>4, <1>12, <2>1, <2>2, <2>3
<1>13. CASE SaveNew(p)
  <2>1. run[p].password \in Generated \cup Password
    BY <1>a, <1>13 DEF SaveNew, At, Has, Keyed, SetupRun
  <2>2. [password |-> run[p].password, issuer |-> made', agents |-> {}] \in VaultDoc
    BY <1>13, <2>1 DEF SaveNew, HomeTypeOK, VaultDoc
  <2>3. \E step \in {"open", "password"} : Goto(p, step)
    BY <1>13 DEF SaveNew
  <2> QED
    BY <1>a, <1>12, <1>13, <2>2, <2>3 DEF SaveNew, SetupSteps
<1>14. CASE Open(p)
  <2>1. CASE Opens(p)
    <3> DEFINE step == IF HasAgent(run[p].cmd.op, Here.vault) THEN "ready" ELSE "saveAgent"
    <3>1. Here.vault \in VaultDoc /\ step \in SetupSteps
      BY <1>b, <2>1 DEF Opens, VaultExists, Dir, SetupSteps
    <3>2. run' = [run EXCEPT ![p] = [run[p] EXCEPT !.vault = Here.vault, !.step = step]]
      BY <1>14, <2>1 DEF Open
    <3>3. [run[p] EXCEPT !.vault = Here.vault, !.step = step] \in SetupRun
      BY <1>a, <3>1 DEF SetupRun
    <3> QED
      BY <1>14, <1>a, <1>d, <1>e, <3>2, <3>3 DEF Open, Same, Disk
  <2>2. CASE ~Opens(p)
    BY <1>1, <1>14, <1>a, <1>e, <2>2 DEF Open, Same, Disk, SetupSteps
  <2> QED
    BY <2>1, <2>2
<1>15. CASE SaveAgent(p)
  <2>1. run[p].vault \in VaultDoc /\ run[p].cmd \in Command
    BY <1>a, <1>15 DEF SaveAgent, At, Has, SetupRun
  <2>2. [run[p].vault EXCEPT !.agents = @ \cup {run[p].cmd.op}] \in VaultDoc
    BY <2>1, AgentSaved
  <2> QED
    BY <1>a, <1>12, <1>15, <2>2 DEF SaveAgent, SetupSteps
<1>16. CASE Report(p)
  BY <1>16, <1>a, <1>d, <1>e DEF Report, Disk
<1> QED
  BY <1>a, <1>5, <1>6, <1>7, <1>8, <1>9, <1>10, <1>11, <1>13, <1>14, <1>15, <1>16 DEF Step

\* An install has the authority's directory made or writes in one there is.
LEMMA InstallStepFiles ==
  ASSUME HomeTypeOK, NEW p \in Process, InstallStep(p)
  PROVE  Dirs \subseteq Dirs' /\ (home' \in Dirs => UNCHANGED home)
<1> USE SetupAssumption
<1>1. CASE OpenTmp(p)
  <2> DEFINE dir == [Here EXCEPT !.tmp = Torn]
  <2>1. dir \in Dir
    BY HereIsDir DEF Dir, File, Torn, Empty
  <2>2. InHome(dir)
    BY <1>1 DEF OpenTmp
  <2> HIDE DEF dir
  <2> QED
    BY <2>1, <2>2, InHomeEffect
<1>2. ASSUME NEW d, NEW dir, dirs' = [dirs EXCEPT ![d] = dir], UNCHANGED home
      PROVE  Dirs \subseteq Dirs' /\ UNCHANGED home
  BY <1>2 DEF HomeTypeOK, Dirs
<1>3. UNCHANGED <<home, dirs>> => Dirs \subseteq Dirs' /\ UNCHANGED home
  BY DEF Dirs
<1>4. CASE WriteTmp(p)
  <2>1. UNCHANGED dirs \/ \E dir : dirs' = [dirs EXCEPT ![run[p].open] = dir]
    <3>1. run[p] \in InstallRun
      BY <1>4, KindOfRun DEF WriteTmp, At, InstallSteps
    <3> QED
      BY <1>4, <3>1 DEF WriteTmp, InstallRun
  <2> QED
    BY <1>2, <1>3, <1>4, <2>1 DEF WriteTmp
<1>5. CASE RenameTmp(p)
  <2>1. UNCHANGED dirs \/ \E dir : dirs' = [dirs EXCEPT ![home] = dir]
    <3>1. ASSUME Here.tmp # Nothing, dirs' = [dirs EXCEPT ![home].ca = Here.tmp, ![home].tmp = Nothing]
          PROVE  dirs' = [dirs EXCEPT ![home] = [dirs[home] EXCEPT !.ca = Here.tmp, !.tmp = Nothing]]
      <4>1. home \in Dirs
        BY <3>1 DEF HomeTypeOK, Here, NoDir
      <4> QED
        BY <3>1, <4>1 DEF HomeTypeOK, Dirs
    <3> QED
      BY <1>5, <3>1 DEF RenameTmp
  <2> QED
    BY <1>2, <1>3, <1>5, <2>1 DEF RenameTmp
<1>6. CASE OpenCert(p)
  BY <1>2, <1>3, <1>6 DEF OpenCert
<1>7. CASE WriteCert(p)
  BY <1>2, <1>7 DEF WriteCert
<1>8. CASE FindCa(p) \/ OpenAnchor(p) \/ WriteAnchor(p) \/ Update(p) \/ Installed(p)
  BY <1>3, <1>8 DEF FindCa, OpenAnchor, WriteAnchor, Update, Installed, Disk
<1> QED
  BY <1>1, <1>4, <1>5, <1>6, <1>7, <1>8 DEF InstallStep

\* An install goes on that is alone, or the only one since the home was certified.
LEMMA SoundInstall ==
  ASSUME HomeTypeOK, AloneInv, TrustInv, NEW p \in Process, InstallStep(p),
         run[p].alone \/ Certified
  PROVE  TrustInv'
<1> USE SetupAssumption
<1>a. /\ run[p] # Nothing
      /\ run[p].step \in InstallSteps \ {"failed"} /\ run[p] \in InstallRun /\ Has(run[p])
      /\ p \in Installing
  <2>1. run[p] # Nothing /\ run[p].step \in InstallSteps \ {"failed"}
    BY DEF InstallStep, FindCa, OpenTmp, WriteTmp, RenameTmp, OpenCert, WriteCert, OpenAnchor,
           WriteAnchor, Update, Installed, At, InstallSteps
  <2> QED
    BY <2>1, KindOfRun DEF HomeTypeOK
<1>b. Installing \subseteq {p} /\ TrustOf(run[p]) /\ InstallOf(run[p])
  <2>1. TrustOf(run[p])
    BY <1>a DEF TrustInv
  <2>2. Installing \subseteq {p}
    BY <1>a DEF TrustInv, AloneInv, Installing, Certified
  <2> QED
    BY <2>1, <2>2 DEF TrustOf
<1>c. Here \in Dir /\ (home \in Dirs => Here = dirs[home]) /\ Nothing \notin Dirs
  BY HereIsDir DEF Dirs
<1>d. \A d \in Dirs : dirs[d] \in Dir
  BY DEF HomeTypeOK, Dirs
<1>e. Others(p) /\ Dirs \subseteq Dirs' /\ (home' \in Dirs => UNCHANGED home)
  BY InstallRuns, InstallStepFiles
<1>f. run'[p] # Nothing => run'[p].alone = run[p].alone
  BY InstallAlone
<1>g. /\ certified \in Dirs \cup {Nothing}
      /\ Certified => Here.ca \in Generated /\ trusted = Here.ca
  BY DEF TrustInv
<1>h. Nothing \notin Generated /\ Torn \notin Generated /\ Torn # Nothing
  BY DEF Generated, Torn, Empty
<1>1. ASSUME UNCHANGED <<certified, trusted>>,
             Certified => UNCHANGED home /\ Here'.ca = Here.ca,
             run'[p] # Nothing =>
               /\ run[p].alone => MakesOf(run[p])'
               /\ InstallOf(run[p])'
               /\ Certified => run'[p].step \notin {"openTmp", "writeTmp", "rename"}
      PROVE  TrustInv'
  <2>1. Certified' => Certified
    BY <1>1, <1>e, <1>g DEF Certified
  <2>2. p \in Installing' => TrustOf(run[p])'
    BY <1>1, <1>f, <2>1 DEF Installing, Busy, TrustOf
  <2> QED
    BY <1>1, <1>a, <1>b, <1>e, <1>g, <2>1, <2>2, TrustStays
<1>2. ASSUME NEW step, Goto(p, step)
      PROVE  /\ run'[p].step = step /\ run'[p].ca = run[p].ca /\ run'[p].open = run[p].open
             /\ run'[p].file = run[p].file
  BY <1>a, <1>2 DEF Goto, HomeTypeOK, InstallRun
<1>3. ASSUME Goto(p, "failed"), UNCHANGED <<home, dirs, certified, trusted>> PROVE TrustInv'
  <2>1. run'[p].step = "failed" /\ Here' = Here
    BY <1>2, <1>3 DEF Here
  <2> QED
    BY <1>1, <1>3, <2>1 DEF InstallOf, MakesOf
<1>4. CASE FindCa(p)
  <2>1. UNCHANGED <<home, dirs, certified, trusted, anchor>> /\ Here' = Here
    BY <1>4 DEF FindCa, Disk, caVars, Here
  <2>2. CASE NoCa(p) /\ Goto(p, "openTmp")
    <3>1. run'[p].step = "openTmp" /\ ~Certified
      BY <1>2, <1>g, <1>h, <2>2 DEF NoCa
    <3> QED
      BY <1>1, <2>1, <3>1 DEF InstallOf, MakesOf
  <2>3. CASE ~NoCa(p) /\ Here.ca # Torn
             /\ run' = [run EXCEPT ![p].ca = Here.ca, ![p].step = "openCert"]
    <3>1. Here.ca \in Generated /\ home # Nothing
      BY <1>c, <2>3 DEF NoCa, Dir, File, Torn, Empty, Generated, Here, NoDir
    <3>2. run'[p].step = "openCert" /\ run'[p].ca = Here.ca
      BY <1>a, <2>3 DEF HomeTypeOK, InstallRun
    <3> QED
      BY <1>1, <2>1, <3>1, <3>2 DEF InstallOf, MakesOf
  <2> QED
    BY <1>3, <1>4, <2>1, <2>2, <2>3 DEF FindCa
<1>5. CASE OpenTmp(p)
  <2> DEFINE dir == [Here EXCEPT !.tmp = Torn]
  <2>1. dir \in Dir /\ dir.tmp = Torn
    BY <1>c DEF Dir, File, Torn, Empty
  <2>2. InHome(dir) /\ UNCHANGED <<certified, trusted, anchor>>
    BY <1>5 DEF OpenTmp, caVars
  <2> HIDE DEF dir
  <2>3. home' # Nothing /\ Here' = dir
    BY <2>1, <2>2, InHomeEffect DEF Dirs, Here
  <2>4. made' \in Generated
    BY <1>5 DEF OpenTmp, HomeTypeOK, Generated, Empty
  <2>5. /\ run'[p].step = "writeTmp" /\ run'[p].ca = made' /\ run'[p].open = home'
        /\ run'[p].file = "tmp"
    BY <1>a, <1>5 DEF OpenTmp, HomeTypeOK, InstallRun
  <2>6. ~Certified
    BY <1>5, <1>b DEF OpenTmp, At, TrustOf
  <2> QED
    BY <1>1, <2>1, <2>2, <2>3, <2>4, <2>5, <2>6 DEF InstallOf, MakesOf
<1>6. CASE WriteTmp(p)
  <2>1. run[p].alone /\ ~Certified
    BY <1>6, <1>b DEF WriteTmp, At, TrustOf
  <2>2. /\ home # Nothing /\ run[p].ca \in Generated /\ run[p].file = "tmp"
        /\ run[p].open = home /\ Here.tmp = Torn
    BY <1>6, <1>b, <2>1 DEF WriteTmp, At, TrustOf, MakesOf
  <2>3. home \in Dirs
    BY <2>2 DEF HomeTypeOK
  <2>4. Written(dirs[home].tmp, run[p].ca) = {run[p].ca}
    BY <1>c, <2>2, <2>3 DEF Written
  <2>5. dirs' = [dirs EXCEPT ![home].tmp = run[p].ca]
    BY <1>6, <2>2, <2>4 DEF WriteTmp
  <2>6. UNCHANGED <<home, certified, trusted, anchor>> /\ Goto(p, "rename")
    BY <1>6 DEF WriteTmp, caVars
  <2>7. Here'.tmp = run[p].ca
    BY <1>d, <2>2, <2>3, <2>5, <2>6 DEF Here, HomeTypeOK, Dirs, Dir
  <2>8. run'[p].step = "rename" /\ run'[p].ca = run[p].ca
    BY <1>2, <2>6
  <2> QED
    BY <1>1, <2>1, <2>2, <2>6, <2>7, <2>8 DEF InstallOf, MakesOf
<1>7. CASE RenameTmp(p)
  <2>1. run[p].alone /\ ~Certified
    BY <1>7, <1>b DEF RenameTmp, At, TrustOf
  <2>2. /\ home # Nothing /\ run[p].ca \in Generated /\ Here.tmp = run[p].ca
    BY <1>7, <1>b, <2>1 DEF RenameTmp, At, TrustOf, MakesOf
  <2>3. home \in Dirs
    BY <2>2 DEF HomeTypeOK
  <2>4. /\ dirs' = [dirs EXCEPT ![home].ca = Here.tmp, ![home].tmp = Nothing]
        /\ run'[p] = [run[p] EXCEPT !.step = "openCert"]
        /\ UNCHANGED <<home, certified, trusted, anchor>>
    BY <1>7, <1>h, <2>2 DEF RenameTmp, caVars
  <2>5. Here'.ca = run[p].ca
    BY <1>d, <2>2, <2>3, <2>4 DEF Here, HomeTypeOK, Dirs, Dir
  <2>6. run'[p].step = "openCert" /\ run'[p].ca = run[p].ca
    BY <1>a, <2>4 DEF InstallRun
  <2> QED
    BY <1>1, <2>1, <2>2, <2>4, <2>5, <2>6 DEF InstallOf, MakesOf
<1>8. CASE OpenCert(p)
  <2>1. /\ home # Nothing /\ run[p].ca \in Generated /\ Here.ca = run[p].ca
    BY <1>8, <1>b DEF OpenCert, At, InstallOf
  <2>2. home \in Dirs
    BY <2>1 DEF HomeTypeOK
  <2>3. /\ dirs' = [dirs EXCEPT ![home].cert = Torn]
        /\ run' = [run EXCEPT ![p].open = home, ![p].step = "writeCert"]
        /\ UNCHANGED <<home, certified, trusted, anchor>>
    BY <1>8, <2>1 DEF OpenCert, caVars
  <2>4. Here'.ca = Here.ca /\ Here'.cert = Torn
    BY <1>c, <1>d, <2>2, <2>3 DEF Here, HomeTypeOK, Dirs, Dir
  <2>5. run'[p].step = "writeCert" /\ run'[p].ca = run[p].ca /\ run'[p].open = home
    BY <1>a, <2>3 DEF HomeTypeOK, InstallRun
  <2> QED
    BY <1>1, <2>1, <2>3, <2>4, <2>5 DEF InstallOf, MakesOf
<1>9. CASE WriteCert(p)
  <2>1. /\ home # Nothing /\ run[p].ca \in Generated /\ Here.ca = run[p].ca
        /\ run[p].open = home /\ Here.cert = Torn
    BY <1>9, <1>b DEF WriteCert, At, InstallOf
  <2>2. home \in Dirs
    BY <2>1 DEF HomeTypeOK
  <2>3. Written(dirs[home].cert, run[p].ca) = {run[p].ca}
    BY <1>c, <2>1, <2>2 DEF Written
  <2>4. /\ dirs' = [dirs EXCEPT ![home].cert = run[p].ca] /\ Goto(p, "openAnchor")
        /\ UNCHANGED <<home, certified, trusted, anchor>>
    BY <1>9, <2>1, <2>3 DEF WriteCert, caVars
  <2>5. Here'.ca = Here.ca /\ Here'.cert = run[p].ca
    BY <1>c, <1>d, <2>2, <2>4 DEF Here, HomeTypeOK, Dirs, Dir
  <2>6. run'[p].step = "openAnchor" /\ run'[p].ca = run[p].ca
    BY <1>2, <2>4
  <2> QED
    BY <1>1, <2>1, <2>4, <2>5, <2>6 DEF InstallOf, MakesOf
<1>10. CASE OpenAnchor(p)
  <2>1. /\ home # Nothing /\ run[p].ca \in Generated /\ Here.ca = run[p].ca
        /\ Here.cert = run[p].ca
    BY <1>10, <1>b DEF OpenAnchor, At, InstallOf
  <2>2. /\ anchor' = Torn /\ run' = [run EXCEPT ![p].open = home, ![p].step = "writeAnchor"]
        /\ UNCHANGED <<home, dirs, certified, trusted>> /\ Here' = Here
    BY <1>10, <1>h, <2>1 DEF OpenAnchor, Disk, Here
  <2>3. run'[p].step = "writeAnchor" /\ run'[p].ca = run[p].ca /\ run'[p].open = home
    BY <1>a, <2>2 DEF HomeTypeOK, InstallRun
  <2> QED
    BY <1>1, <2>1, <2>2, <2>3 DEF InstallOf, MakesOf
<1>11. CASE WriteAnchor(p)
  <2>1. /\ home # Nothing /\ run[p].ca \in Generated /\ Here.ca = run[p].ca
        /\ Here.cert = run[p].ca /\ run[p].open = home /\ anchor = Torn
    BY <1>11, <1>b DEF WriteAnchor, At, InstallOf
  <2>2. dirs[home].cert = run[p].ca
    BY <1>c, <2>1 DEF HomeTypeOK
  <2>3. /\ anchor' = run[p].ca /\ Goto(p, "update")
        /\ UNCHANGED <<home, dirs, certified, trusted>> /\ Here' = Here
    BY <1>11, <2>1, <2>2 DEF WriteAnchor, Written, Disk, Here
  <2>4. run'[p].step = "update" /\ run'[p].ca = run[p].ca
    BY <1>2, <2>3
  <2> QED
    BY <1>1, <2>1, <2>3, <2>4 DEF InstallOf, MakesOf
<1>12. CASE Update(p)
  <2>1. /\ home # Nothing /\ run[p].ca \in Generated /\ Here.ca = run[p].ca
        /\ anchor = run[p].ca
    BY <1>12, <1>b DEF Update, At, InstallOf
  <2>2. /\ trusted' = run[p].ca /\ Goto(p, "installed")
        /\ UNCHANGED <<home, dirs, certified, anchor>> /\ Here' = Here
    BY <1>12, <1>h, <2>1 DEF Update, Disk, Here
  <2>3. run'[p].step = "installed" /\ run'[p].ca = run[p].ca
    BY <1>2, <2>2
  <2>4. InstallOf(run[p])' /\ MakesOf(run[p])'
    BY <2>1, <2>2, <2>3 DEF InstallOf, MakesOf
  <2>5. Certified' = Certified
    BY <2>2 DEF Certified
  <2>6. p \in Installing' => TrustOf(run[p])'
    BY <2>3, <2>4 DEF TrustOf
  <2> QED
    BY <1>a, <1>b, <1>e, <2>1, <2>2, <2>5, <2>6, TrustStays
<1>13. CASE Installed(p)
  <2>1. /\ home # Nothing /\ run[p].ca \in Generated /\ Here.ca = run[p].ca
        /\ trusted = run[p].ca
    BY <1>13, <1>b DEF Installed, At, InstallOf
  <2>2. /\ run'[p] = Nothing /\ UNCHANGED <<home, dirs, anchor, trusted>>
        /\ Here' = Here /\ Dirs' = Dirs
    BY <1>13 DEF Installed, Disk, Here, Dirs, HomeTypeOK
  <2>3. Installing' = {}
    <3>1. \A q \in Process \ {p} : q \in Installing' => q \in Installing
      BY <1>e DEF Others, Installing, Busy, Steady
    <3> QED
      BY <1>b, <2>2, <3>1 DEF Installing, Busy
  <2>4. certified' \in Dirs \cup {Nothing}
    BY <1>13, <1>g, <2>1 DEF Installed, HomeTypeOK
  <2> QED
    BY <2>1, <2>2, <2>3, <2>4 DEF TrustInv
<1> QED
  BY <1>4, <1>5, <1>6, <1>7, <1>8, <1>9, <1>10, <1>11, <1>12, <1>13 DEF InstallStep

LEMMA TrustStep ==
  ASSUME HomeTypeOK, AloneInv, TrustInv, [Next]_vars
  PROVE  TrustInv'
<1> USE SetupAssumption
<1>a. certified \in Dirs \cup {Nothing} /\ Nothing \notin Dirs
  BY DEF TrustInv, Dirs
<1>b. Certified => Here.ca \in Generated /\ trusted = Here.ca
  BY DEF TrustInv
<1>1. CASE UNCHANGED vars
  BY <1>1 DEF vars, setupVars, caVars, TrustInv, TrustOf, InstallOf, MakesOf, Certified, Here,
              Dirs, Installing, Busy
<1>2. ASSUME NEW p \in Process, p \notin Installing', Others(p), Dirs \subseteq Dirs',
             UNCHANGED caVars,
             home' \in Dirs => UNCHANGED home /\ Here'.ca = Here.ca /\ Here'.cert = Here.cert,
             run[p] # Nothing \/ \A q \in Process \ {p} : run'[q] # Nothing => ~run'[q].alone
      PROVE  TrustInv'
  <2>1. UNCHANGED <<certified, anchor, trusted>>
    BY <1>2 DEF caVars
  <2>2. Certified' => /\ Certified /\ UNCHANGED home
                      /\ Here'.ca = Here.ca /\ Here'.cert = Here.cert
    BY <1>2, <1>a, <2>1 DEF Certified
  <2> QED
    BY <1>2, <1>b, <2>1, <2>2, TrustStays
<1>3. ASSUME NEW p \in Process, Step(p), UNCHANGED caVars PROVE TrustInv'
  BY <1>2, <1>3, SetupStepFiles
<1>4. ASSUME NEW p \in Process, NEW cmd \in Command, Begin(p, cmd), UNCHANGED caVars
      PROVE  TrustInv'
  <2> DEFINE r == [cmd |-> cmd, password |-> Nothing, open |-> Nothing, vault |-> Nothing,
                   step |-> CASE cmd.reset -> "reset"
                              [] cmd.op = "setup" /\ ~cmd.reset -> "legacy"
                              [] cmd.op = "init" -> "ensureKey",
                   alone |-> Busy = {}, moved |-> FALSE]
  <2>1. r.step \in {"reset", "legacy", "ensureKey"}
    BY DEF Command
  <2>2. r \in SetupRun /\ r.cmd # InstallCa
    <3>1. InstallCa \notin Command
      BY DEF Command, InstallCa
    <3>2. r \in SetupRun
      BY <2>1 DEF SetupRun, SetupSteps, File
    <3> QED
      BY <3>1, <3>2
  <2>3. Starts(p, r) /\ UNCHANGED <<home, dirs>>
    BY <1>4 DEF Begin, Disk
  <2> HIDE DEF r
  <2>4. /\ run'[p] = r /\ Others(p)
        /\ \A q \in Process \ {p} : run'[q] # Nothing => ~run'[q].alone
    BY <2>2, <2>3, StartsEffect
  <2>5. p \notin Installing' /\ Dirs' = Dirs /\ Here' = Here
    BY <2>2, <2>3, <2>4 DEF Installing, Busy, Dirs, Here
  <2> QED
    BY <1>2, <1>4, <2>3, <2>4, <2>5
<1>5. ASSUME NEW p \in Process, Stops(p), UNCHANGED caVars PROVE TrustInv'
  <2>1. /\ run' = [run EXCEPT ![p] = Nothing] /\ run[p] # Nothing /\ Nothing \in Run
        /\ UNCHANGED <<home, dirs>>
    BY <1>5 DEF Stops, Run, Same, Disk
  <2>2. run'[p] = Nothing /\ Others(p)
    BY <2>1, MoveEffect
  <2>3. p \notin Installing' /\ Dirs' = Dirs /\ Here' = Here
    BY <2>1, <2>2 DEF Installing, Busy, Dirs, Here
  <2> QED
    BY <1>2, <1>5, <2>1, <2>2, <2>3
<1>6. ASSUME NEW p \in Process, InstallBegins(p) PROVE TrustInv'
  <2> DEFINE r == [cmd |-> InstallCa, step |-> "findCa", alone |-> Busy = {}, moved |-> FALSE,
                   ca |-> Nothing, open |-> Nothing, file |-> Nothing]
  <2>1. r \in InstallRun
    BY DEF InstallRun, InstallSteps, File
  <2>2. /\ Starts(p, r) /\ UNCHANGED <<home, dirs, anchor, trusted>>
        /\ certified' = IF Installing = {} THEN certified ELSE Nothing
    BY <1>6 DEF InstallBegins, Disk
  <2>3. r.step = "findCa"
    OBVIOUS
  <2> HIDE DEF r
  <2>4. /\ run'[p] = r /\ Others(p)
        /\ \A q \in Process \ {p} : run'[q] # Nothing => ~run'[q].alone
    BY <2>1, <2>2, StartsEffect
  <2>5. TrustOf(run[p])' /\ Dirs' = Dirs /\ Here' = Here
    BY <2>2, <2>3, <2>4 DEF TrustOf, InstallOf, MakesOf, Dirs, Here
  <2>6. Certified' => Certified
    BY <2>2 DEF Certified
  <2>7. p \in Installing' => Installing = {} \/ certified' = Nothing
    BY <2>2
  <2> QED
    BY <1>b, <2>2, <2>4, <2>5, <2>6, <2>7, TrustStays
<1>7. ASSUME NEW p \in Process, InstallStep(p) PROVE TrustInv'
  <2>1. CASE run[p].alone \/ Certified
    BY <1>7, <2>1, SoundInstall
  <2>2. CASE ~run[p].alone /\ ~Certified
    <3>1. run[p] # Nothing /\ run[p].cmd = InstallCa
      <4>1. run[p] # Nothing /\ run[p].step \in InstallSteps \ {"failed"}
        BY <1>7 DEF InstallStep, FindCa, OpenTmp, WriteTmp, RenameTmp, OpenCert, WriteCert,
                    OpenAnchor, WriteAnchor, Update, Installed, At, InstallSteps
      <4> QED
        BY <4>1, KindOfRun DEF InstallRun
    <3>2. UNCHANGED certified
      BY <1>7, <2>2 DEF InstallStep, FindCa, OpenTmp, WriteTmp, RenameTmp, OpenCert, WriteCert,
                        OpenAnchor, WriteAnchor, Update, Installed, caVars
    <3>3. /\ Others(p) /\ Dirs \subseteq Dirs' /\ (home' \in Dirs => UNCHANGED home)
          /\ run'[p] # Nothing => ~run'[p].alone
      BY <1>7, <2>2, InstallRuns, InstallStepFiles, InstallAlone
    <3>4. ~Certified'
      BY <1>a, <2>2, <3>2, <3>3 DEF Certified
    <3>5. p \in Installing' => TrustOf(run[p])' /\ p \in Installing
      BY <3>1, <3>3, <3>4 DEF TrustOf, Installing, Busy
    <3> QED
      BY <3>1, <3>2, <3>3, <3>4, <3>5, TrustStays
  <2> QED
    BY <2>1, <2>2
<1> QED
  BY <1>1, <1>3, <1>4, <1>5, <1>6, <1>7 DEF Next, SetupNext, SetupAssumption

\* README.md:246-247 "install-ca" and "proxy start": once an install that ran alone has
\* reported success, a proxy that is started signs with what the system trusts, whatever
\* installs are cut or run one after another from then on, until the home is archived.
THEOREM ProxyTrusted == Spec => []StartedIsTrusted
<1>1. Init => TrustInv
  BY SetupAssumption DEF Init, SetupInit, TrustInv, Certified, Installing, Busy
<1>2. HomeTypeOK /\ AloneInv /\ TrustInv /\ [Next]_vars => TrustInv'
  BY TrustStep
<1>3. TrustInv => StartedIsTrusted
  BY DEF TrustInv, Certified, StartedIsTrusted, Started
<1>4. Init => AloneInv
  BY DEF Init, SetupInit, AloneInv
<1>5. HomeTypeOK /\ AloneInv /\ [Next]_vars => AloneInv'
  BY AloneStep
<1> QED
  BY <1>1, <1>2, <1>3, <1>4, <1>5, HomeTypeCorrect, PTL DEF Spec
=============================================================================
