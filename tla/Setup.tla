-------------------------------- MODULE Setup --------------------------------
(***************************************************************************)
(* How a home directory comes to be: `lockrail setup` (setup_apply), its   *)
(* --reset, and `lockrail init` (init_lockrail), run by several processes  *)
(* on one home.  A home holds a generated vault key and a vault encrypted  *)
(* with that key or with a password the user gave.  Archiving renames the  *)
(* directory: whoever goes on by path finds no home or the next one,       *)
(* whoever has a file open writes into the archived one.                   *)
(*                                                                         *)
(* Between two steps others run, and a command may end there (a crash, a   *)
(* failed write, a shim that cannot be installed).  One save of the vault  *)
(* is one step here; VaultFile has its parts.  Of the other files of a     *)
(* home the proxy's are in ProxyCa; profile, configuration, audit log and  *)
(* shims are left out.                                                     *)
(***************************************************************************)
EXTENDS Integers, Sequences

CONSTANTS
  Process,
  Commands,     \* the commands they run
  Runs,         \* how many commands are run: a bound
  Password,     \* passwords that users give (--password, LOCKRAIL_PASSWORD)
  Nothing       \* no value, no file

Command == [op: {"setup"}, given: Password \cup {Nothing}, reset: BOOLEAN]
             \cup [op: {"init"}, given: Password \cup {Nothing}, reset: {FALSE}]

Empty == 0      \* the key file between its creation and its write
Generated == Nat \ {Empty}
VaultDoc == [password: Generated \cup Password, issuer: Nat,
             agents: SUBSET {"setup", "init"}]   \* which commands saved theirs

ASSUME SetupAssumption ==
  /\ Commands \subseteq Command /\ Runs \in Nat
  /\ Nothing \notin Password \cup Nat \cup VaultDoc /\ Password \cap Nat = {}

VARIABLES
  home,       \* the directory that the path names: an index of dirs, or Nothing
  dirs,       \* every directory there has been: its key file, its vault and the files
              \* of the proxy's certificate authority
  run,        \* per process, the command under way
  left,       \* commands that may still be run
  made,       \* random keys generated so far: the vault keys and the issuers' keys
  strayed,    \* history: directories with a vault saved by a command under whose
              \* feet the home had been archived
  ready       \* history: issuers of the commands that ran alone and reported ready

setupVars == <<home, dirs, run, left, made, strayed, ready>>

SetupInit ==
  /\ home = Nothing /\ dirs = <<>>
  /\ run = [p \in Process |-> Nothing]
  /\ left = Runs
  /\ made = 0 /\ strayed = {} /\ ready = {}

Busy == {p \in Process : run[p] # Nothing}
NoDir == [key |-> Nothing, vault |-> Nothing, ca |-> Nothing, tmp |-> Nothing, cert |-> Nothing]
Here == IF home = Nothing THEN NoDir ELSE dirs[home]   \* what the paths show
At(p, step) == run[p] # Nothing /\ run[p].step = step
Goto(p, step) == run' = [run EXCEPT ![p].step = step]
GotoWith(p, step, password) == run' = [run EXCEPT ![p].step = step, ![p].password = password]
Disk == <<home, dirs, made, strayed>>
Same == UNCHANGED <<Disk, left, ready>>

\* create_dir_all, and then a file of the directory is written
InHome(dir) ==
  IF home = Nothing THEN home' = Len(dirs) + 1 /\ dirs' = Append(dirs, dir)
                    ELSE UNCHANGED home /\ dirs' = [dirs EXCEPT ![home] = dir]

\* a command of process p begins, as the record it keeps
Starts(p, record) ==
  /\ run[p] = Nothing /\ left > 0 /\ left' = left - 1
  /\ run' = [q \in Process |->
       IF q = p THEN record
       ELSE IF q \in Busy THEN [run[q] EXCEPT !.alone = FALSE] ELSE run[q]]

Begin(p, cmd) ==
  /\ Starts(p,
       [cmd |-> cmd, password |-> Nothing, open |-> Nothing, vault |-> Nothing,
        step |-> CASE cmd.reset -> "reset"
                   [] cmd.op = "setup" /\ ~cmd.reset -> "legacy"
                   [] cmd.op = "init" -> "ensureKey",
        alone |-> Busy = {}, moved |-> FALSE])
  /\ UNCHANGED <<Disk, ready>>

-----------------------------------------------------------------------------
\* archive_lockrail_home

Removed == /\ home' = Nothing   \* faulty: the old home is deleted
           /\ dirs' = [dirs EXCEPT ![home] = NoDir]

Renamed == home' = Nothing /\ UNCHANGED dirs

VaultExists == Here.vault # Nothing

HomeExists == home # Nothing

Archive(p, next) ==
  /\ Renamed
  /\ run' = [q \in Process |->
       CASE q = p -> [run[q] EXCEPT !.step = next]
         [] q # p /\ q \in Busy -> [run[q] EXCEPT !.moved = TRUE]
         [] OTHER -> run[q]]
  /\ UNCHANGED <<made, strayed, left, ready>>

Reset(p) ==
  /\ At(p, "reset")
  /\ \/ HomeExists /\ Archive(p, "choose")
     \/ ~HomeExists /\ Goto(p, "legacy") /\ Same

\* a vault without a generated key, and no password given: an older installation
Legacy(p) ==
  /\ At(p, "legacy")
  /\ Goto(p, CASE ~VaultExists -> "choose"
               [] VaultExists /\ Here.key = Empty -> "failed"
               [] VaultExists /\ Here.key = Nothing /\ run[p].cmd.given = Nothing -> "retire"
               [] OTHER -> "choose")
  /\ Same

Retire(p) ==
  /\ At(p, "retire")
  /\ \/ HomeExists /\ Archive(p, "choose")
     \/ ~HomeExists /\ Goto(p, "choose") /\ Same

Choose(p) ==
  /\ At(p, "choose")
  /\ Goto(p, IF VaultExists THEN "password" ELSE "ensureKey")
  /\ Same

-----------------------------------------------------------------------------
\* password and read_local_vault_key
ReadPassword(p) ==
  /\ At(p, "password")
  /\ LET next == IF run[p].cmd.op = "setup" THEN "vault" ELSE "open" IN
     \/ run[p].cmd.given # Nothing /\ GotoWith(p, next, run[p].cmd.given)
     \/ /\ run[p].cmd.given = Nothing
        /\ IF Here.key \in {Nothing, Empty} THEN Goto(p, "failed")
                                            ELSE GotoWith(p, next, Here.key)
  /\ Same

\* password_for_init and ensure_local_vault_key
EnsureKey(p) ==
  /\ At(p, "ensureKey")
  /\ \/ run[p].cmd.given # Nothing /\ GotoWith(p, "vault", run[p].cmd.given)
     \/ /\ run[p].cmd.given = Nothing
        /\ CASE Here.key = Nothing -> Goto(p, "createKey")
             [] Here.key = Empty -> Goto(p, "failed")
             [] OTHER -> GotoWith(p, "vault", Here.key)
  /\ Same

AnyKey == TRUE   \* faulty: the key file is opened without create_new

NoKey == Here.key = Nothing

\* create_new fails if the file is there
CreateKey(p) ==
  /\ At(p, "createKey")
  /\ \/ /\ NoKey
        /\ InHome([Here EXCEPT !.key = Empty])
        /\ run' = [run EXCEPT ![p].step = "writeKey", ![p].open = home']
     \/ ~NoKey /\ Goto(p, "failed") /\ UNCHANGED <<home, dirs>>
  /\ UNCHANGED <<made, strayed, left, ready>>

\* into the file that is open, wherever its directory now is
WriteKey(p) ==
  /\ At(p, "writeKey")
  /\ made' = made + 1
  /\ dirs' = [dirs EXCEPT ![run[p].open].key = made']
  /\ GotoWith(p, "vault", made')
  /\ UNCHANGED <<home, strayed, left, ready>>

-----------------------------------------------------------------------------
\* An existing vault is opened by setup and left alone by init, whose agents then
\* read the password again.
FindVault(p) ==
  /\ At(p, "vault")
  /\ \/ ~VaultExists /\ Goto(p, "save")   \* also Vault::init's own look
     \/ VaultExists /\ Goto(p, IF run[p].cmd.op = "setup" THEN "check" ELSE "password")
  /\ Same

Opens(p) == VaultExists /\ Here.vault.password = run[p].password

Check(p) ==
  /\ At(p, "check")
  /\ Goto(p, IF Opens(p) THEN "open" ELSE "failed")
  /\ Same

\* Vault::save by path
Save(p, vault) ==
  /\ InHome([Here EXCEPT !.vault = vault])
  /\ strayed' = IF run[p].moved THEN strayed \cup {home'} ELSE strayed

\* the end of Vault::init: whatever is there by now is replaced
SaveNew(p) ==
  /\ At(p, "save")
  /\ made' = made + 1
  /\ Save(p, [password |-> run[p].password, issuer |-> made', agents |-> {}])
  /\ Goto(p, IF run[p].cmd.op = "setup" THEN "open" ELSE "password")
  /\ UNCHANGED <<left, ready>>

\* ensure_default_agent_with_password is content with any agent, ensure_named_agent only
\* with its own (one stands for the six of init)
HasAgent(op, vault) == IF op = "setup" THEN vault.agents # {} ELSE op \in vault.agents

Open(p) ==
  /\ At(p, "open")
  /\ IF Opens(p)
     THEN run' = [run EXCEPT ![p].vault = Here.vault,
                             ![p].step = IF HasAgent(run[p].cmd.op, Here.vault)
                                         THEN "ready" ELSE "saveAgent"]
     ELSE Goto(p, "failed")
  /\ Same

SaveAgent(p) ==
  /\ At(p, "saveAgent")
  /\ Save(p, [run[p].vault EXCEPT !.agents = @ \cup {run[p].cmd.op}])
  /\ Goto(p, "ready")
  /\ UNCHANGED <<made, left, ready>>

Report(p) ==
  /\ At(p, "ready")
  /\ ready' = IF run[p].alone THEN ready \cup {run[p].vault.issuer} ELSE ready
  /\ run' = [run EXCEPT ![p] = Nothing]
  /\ UNCHANGED <<Disk, left>>

Stops(p) ==   \* an error, or the process ends
  /\ run[p] # Nothing
  /\ run' = [run EXCEPT ![p] = Nothing]
  /\ Same

Step(p) ==
  \/ Reset(p) \/ Legacy(p) \/ Retire(p) \/ Choose(p)
  \/ ReadPassword(p) \/ EnsureKey(p) \/ CreateKey(p) \/ WriteKey(p)
  \/ FindVault(p) \/ Check(p) \/ SaveNew(p) \/ Open(p) \/ SaveAgent(p) \/ Report(p)

SetupNext ==
  \E p \in Process : Step(p) \/ Stops(p) \/ \E cmd \in Commands : Begin(p, cmd)

SetupSpec == SetupInit /\ [][SetupNext]_setupVars

-----------------------------------------------------------------------------
\* A vault encrypted with a generated key stands beside that key, however many
\* commands run at once and wherever they are cut, unless a home was archived under
\* a command that was at work.
VaultKeepsItsKey ==
  \A d \in 1..Len(dirs) :
    dirs[d].vault # Nothing /\ dirs[d].vault.password \notin Password /\ d \notin strayed =>
      dirs[d].key = dirs[d].vault.password

\* README.md:90 "Reset archives the old `~/.lockrail` directory": no vault that a
\* command reported ready, with no other command at work, is ever gone; it is in the
\* home or in an archived one, whatever is set up, cut short or reset afterwards.
ReadyIsKept ==
  \A issuer \in ready :
    \E d \in 1..Len(dirs) : dirs[d].vault # Nothing /\ dirs[d].vault.issuer = issuer

\* README.md:89 "If an older password-based local vault blocks setup, reset the local
\* Lockrail state": whatever was left behind, a reset with no other command at work
\* does not fail for it.
ResetNeverBlocked ==
  \A p \in Busy : run[p].cmd.reset /\ run[p].alone => run[p].step # "failed"
=============================================================================
