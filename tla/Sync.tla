--------------------------------- MODULE Sync ---------------------------------
(***************************************************************************)
(* The environments of a vault and who takes their secrets: `lockrail sync *)
(* vercel` and `sync github`, which push one environment to a project's    *)
(* variables, and `lockrail shell`, which puts it into the variables of a  *)
(* program, run by several processes while secrets are set for one or      *)
(* another environment and deleted.  At Vercel a variable that exists is   *)
(* deleted and posted again; at GitHub a secret is put.  Any request may   *)
(* be lost, or be executed and its answer lost; either ends the command,   *)
(* as every error does.                                                    *)
(*                                                                         *)
(* The services are modelled from what the code relies on: Vercel lists a  *)
(* page of variables, finds one by its id, and refuses a second variable   *)
(* of a key for a target that has one.                                     *)
(***************************************************************************)
EXTENDS Integers, FiniteSets, Sequences

CONSTANTS
  Process,
  Runs,       \* how many syncs and shells there are: a bound
  Environment,
  Name,       \* names of secrets: sequences of characters
  Order,      \* all of them, in the order of the vault's BTreeMap
  PasswordKey, \* LOCKRAIL_PASSWORD, as a key of the variables of a shell
  Other,      \* keys of variables that are not in the vault
  Target,     \* production, preview, development
  Page,       \* how many variables a listing has: 100
  MaxChanges, \* how often secrets are set or deleted: a bound
  Held,       \* what the vault may hold at the start
  Before,     \* what the project may hold before the first sync
  Nothing

\* a value stands for itself: the how-manyth that was set, and for which environment
Value == [number: Nat, for: Environment]
Secret == [value: Value, tags: SUBSET Environment]
Variable == [id: Nat, key: Name \cup Other, value: Value \cup {Nothing}, target: SUBSET Target]

ASSUME SyncAssumption ==
  /\ Runs \in Nat /\ Page \in Nat /\ MaxChanges \in Nat
  /\ IsFiniteSet(Process) /\ Target # {} /\ Name \cap Other = {}
  /\ Order \in Seq(Name) /\ {Order[i] : i \in DOMAIN Order} = Name
  /\ \A i, j \in DOMAIN Order : Order[i] = Order[j] => i = j
  /\ Nothing \notin Value

\* metadata.tags is made from the environment a secret is set for
ASSUME HeldAssumption ==
  \A held \in Held :
    /\ held \in [Name -> Secret \cup {Nothing}]
    /\ \A n \in Name : held[n] # Nothing => held[n].tags = {held[n].value.for}

\* what Vercel itself keeps to
ASSUME BeforeAssumption ==
  \A held \in Before :
    /\ IsFiniteSet(held) /\ held \subseteq Variable
    /\ \A v \in held :
         /\ v.id \in 1..Cardinality(held) /\ v.target # {} /\ v.value = Nothing
         /\ \A w \in held \ {v} : w.id # v.id /\ (w.key = v.key => w.target \cap v.target = {})

VARIABLES
  secrets,    \* the vault's secrets: by name, a Secret or Nothing
  changes,    \* how often one was set or deleted
  variables,  \* at Vercel
  actions,    \* at GitHub: the secrets of the repository, by name
  ids,        \* variables created so far
  run,        \* per process, the sync under way
  left,       \* how many may still begin
  synced,     \* history: the environments that syncs were asked for
  deployed,   \* history: keys that the project has had
  broken      \* history: syncs that ended early

vars == <<secrets, changes, variables, actions, ids, run, left, synced, deployed, broken>>

Init ==
  /\ secrets \in Held /\ changes = 0
  /\ variables \in Before
  /\ actions = [n \in Name |-> Nothing]
  /\ ids = Cardinality(variables)
  /\ run = [p \in Process |-> Nothing]
  /\ left = Runs
  /\ synced = {} /\ deployed = {v.key : v \in variables} /\ broken = 0

Busy == {p \in Process : run[p] # Nothing}
Syncing == {p \in Busy : run[p].service # "shell"}
Local == <<secrets, changes>>
Remote == <<variables, actions, ids>>
At(p, step) == run[p] # Nothing /\ run[p].step = step
Todo(p) == run[p].todo # {}
Least(places) == CHOOSE i \in places : \A j \in places : i <= j
Now(p) == Order[Least(run[p].todo)]
Goto(p, step) == run' = [run EXCEPT ![p] = [@ EXCEPT !.step = step]]
Passed(p) ==    \* on to the next pair
  [run[p] EXCEPT !.todo = @ \ {Least(@)}, !.step = "next"]

-----------------------------------------------------------------------------
\* The vault: secret set and secret delete, in other processes.

Merged(n, env) ==   \* faulty: the tags it had are kept
  (IF secrets[n] = Nothing THEN {} ELSE secrets[n].tags) \cup {env}

\* secret_metadata is made anew: a name is in the environment it was last set for
TagsFor(n, env) == {env}

SetSecret(n, env) ==
  /\ changes < MaxChanges /\ changes' = changes + 1
  /\ secrets' = [secrets EXCEPT ![n] = [value |-> [number |-> changes', for |-> env],
                                       tags |-> TagsFor(n, env)]]
  /\ UNCHANGED <<Remote, run, left, synced, deployed, broken>>

DeleteSecret(n) ==
  /\ secrets[n] # Nothing
  /\ changes < MaxChanges /\ changes' = changes + 1
  /\ secrets' = [secrets EXCEPT ![n] = Nothing]
  /\ UNCHANGED <<Remote, run, left, synced, deployed, broken>>

\* secrets_for_env, and the same filter in build_env_map: the values by name
InEnv(env) ==
  [n \in Name |-> IF secrets[n] # Nothing /\ env \in secrets[n].tags THEN secrets[n].value
                                                                     ELSE Nothing]

-----------------------------------------------------------------------------
\* lockrail shell.

Upper(c) == CASE c = "a" -> "A" [] c \in {"-", "."} -> "_" [] OTHER -> c

\* sanitize_env_key: different names may have one key
Sanitized(n) ==
  LET key == [i \in DOMAIN n |-> Upper(n[i])] IN
  IF key # <<>> /\ Head(key) = "1" THEN <<"SECRET_">> \o key ELSE key

Keyed(todo, k) == {i \in todo : Sanitized(Order[i]) = k}

\* collect: of several pairs with one key the last stays
Winner(todo, k) == CHOOSE i \in Keyed(todo, k) : \A j \in Keyed(todo, k) : j <= i

\* build_env_map of the names of an environment, in order; run_injected removes
\* LOCKRAIL_PASSWORD from the variables, whoever put it there
Injected(copy, todo) ==
  [k \in {Sanitized(Order[i]) : i \in todo} \ {PasswordKey} |-> copy[Order[Winner(todo, k)]]]

Steps == {"list", "next", "delete", "post", "put", "refused", "done", "shell"}
Maps == UNION {[D -> Nat] : D \in SUBSET (Name \cup Other)}
Injections == UNION {[D -> Value] : D \in SUBSET {Sanitized(n) : n \in Name}}

\* A sync or a shell: what the vault had for it, whether it meets no other sync, where it is
\* and what is left of it; what the listing showed; what the program of a shell has.
Session == [service: {"vercel", "github", "shell"}, env: Environment,
            copy: [Name -> Value \cup {Nothing}], alone: BOOLEAN, step: Steps,
            todo: SUBSET DOMAIN Order, existing: Maps, injected: Injections]

ASSUME SessionAssumption == Nothing \notin Session

\* The vault is opened once, and an environment taken from it.
Begin(p, service, env) ==
  LET copy == InEnv(env)
      todo == {i \in DOMAIN Order : copy[Order[i]] # Nothing}
      sync == service # "shell"
  IN
  /\ p \notin Busy /\ left > 0 /\ left' = left - 1
  /\ run' = [q \in Process |->
       IF q = p
       THEN [service |-> service, env |-> env, copy |-> copy, alone |-> Syncing = {},
             step |-> CASE service = "vercel" -> "list"
                        [] service = "github" -> "next"
                        [] service = "shell" -> "shell",
             todo |-> IF sync THEN todo ELSE {},
             existing |-> [k \in {} |-> 0],
             injected |-> Injected(copy, IF sync THEN {} ELSE todo)]
       ELSE IF q \in Syncing /\ sync THEN [run[q] EXCEPT !.alone = FALSE] ELSE run[q]]
  /\ synced' = IF sync THEN synced \cup {env} ELSE synced
  /\ UNCHANGED <<Local, Remote, deployed, broken>>

\* the shell has ended
Exit(p) ==
  /\ At(p, "shell")
  /\ run' = [run EXCEPT ![p] = Nothing]
  /\ UNCHANGED <<Local, Remote, left, synced, deployed, broken>>

-----------------------------------------------------------------------------
\* The syncs.

\* existing_map: of several variables of one key the last in the page
List(p) ==
  /\ At(p, "list")
  /\ \E page \in SUBSET variables :
       /\ Cardinality(page) = IF Cardinality(variables) > Page THEN Page
                                                               ELSE Cardinality(variables)
       /\ \E map \in [{v.key : v \in page} -> {v.id : v \in page}] :
            /\ \A k \in DOMAIN map : \E v \in page : v.key = k /\ v.id = map[k]
            /\ run' = [run EXCEPT ![p] = [@ EXCEPT !.existing = map, !.step = "next"]]
  /\ UNCHANGED <<Local, Remote, left, synced, deployed, broken>>

NeverExists(p) == FALSE   \* faulty: what is there is not deleted

Exists(p) == Now(p) \in DOMAIN run[p].existing

\* the loop over the pairs
Choose(p) ==
  /\ At(p, "next")
  /\ Goto(p, IF ~Todo(p) THEN "done"
             ELSE IF run[p].service = "github" THEN "put"
             ELSE IF Exists(p) THEN "delete" ELSE "post")
  /\ UNCHANGED <<Local, Remote, left, synced, deployed, broken>>

\* error_for_status: an id that is gone is an error
Delete(p) ==
  /\ At(p, "delete")
  /\ LET there == {v \in variables : v.id = run[p].existing[Now(p)]} IN
     /\ variables' = variables \ there
     /\ Goto(p, IF there = {} THEN "refused" ELSE "post")
  /\ UNCHANGED <<Local, actions, ids, left, synced, deployed, broken>>

Conflicts(key, target) == \E v \in variables : v.key = key /\ v.target \cap target # {}

Unchecked(p, conflict) ==   \* faulty: the status of the answer is not looked at
  run' = [run EXCEPT ![p] = Passed(p)]

\* error_for_status
Posted(p, conflict) ==
  IF conflict THEN Goto(p, "refused")
  ELSE run' = [run EXCEPT ![p] = Passed(p)]

Create(p) ==
  LET new == [id |-> ids + 1, key |-> Now(p), value |-> run[p].copy[Now(p)], target |-> Target] IN
  /\ variables' = variables \cup {new} /\ ids' = ids + 1
  /\ deployed' = deployed \cup {Now(p)}

Post(p) ==
  /\ At(p, "post")
  /\ LET conflict == Conflicts(Now(p), Target) IN
     /\ \/ conflict /\ UNCHANGED <<variables, ids, deployed>>
        \/ ~conflict /\ Create(p)
     /\ Posted(p, conflict)
  /\ UNCHANGED <<Local, actions, left, synced, broken>>

\* GitHub: a PUT creates or replaces
Put(p) ==
  /\ At(p, "put")
  /\ actions' = [actions EXCEPT ![Now(p)] = run[p].copy[Now(p)]]
  /\ run' = [run EXCEPT ![p] = Passed(p)]
  /\ UNCHANGED <<Local, variables, ids, left, synced, deployed, broken>>

Report(p) ==
  /\ At(p, "done")
  /\ run' = [run EXCEPT ![p] = Nothing]
  /\ UNCHANGED <<Local, Remote, left, synced, deployed, broken>>

Ends(p) == run' = [run EXCEPT ![p] = Nothing] /\ broken' = broken + 1

GoesOn(p) ==   \* faulty: an error is skipped, the loop goes on
  run' = [run EXCEPT ![p] = Passed(p)] /\ UNCHANGED broken

\* the error of the request is returned
Fails(p) == Ends(p)

\* a refusal, a request that was lost, or the end of the process
Breaks(p) ==
  /\ p \in Syncing
  /\ IF Todo(p) /\ run[p].step \in {"delete", "post", "put", "refused"} THEN Fails(p) ELSE Ends(p)
  /\ UNCHANGED <<Local, Remote, left, synced, deployed>>

\* a request that was executed and whose answer was lost
AnswerLost(p) ==
  /\ \/ /\ At(p, "delete")
        /\ variables' = {v \in variables : v.id # run[p].existing[Now(p)]}
        /\ UNCHANGED <<actions, ids, deployed>>
     \/ At(p, "post") /\ ~Conflicts(Now(p), Target) /\ Create(p) /\ UNCHANGED actions
     \/ /\ At(p, "put")
        /\ actions' = [actions EXCEPT ![Now(p)] = run[p].copy[Now(p)]]
        /\ UNCHANGED <<variables, ids, deployed>>
  /\ Fails(p)
  /\ UNCHANGED <<Local, left, synced>>

Step(p) ==
  List(p) \/ Choose(p) \/ Delete(p) \/ Post(p) \/ Put(p) \/ Report(p) \/ Breaks(p) \/ AnswerLost(p)
  \/ Exit(p)

Next ==
  \/ \E p \in Process :
       Step(p) \/ \E service \in {"vercel", "github", "shell"}, env \in Environment :
                    Begin(p, service, env)
  \/ \E n \in Name : DeleteSecret(n) \/ \E env \in Environment : SetSecret(n, env)

Spec == Init /\ [][Next]_vars

-----------------------------------------------------------------------------
Shown(key) == {v \in variables : v.key = key}

\* What the secrets of an environment became: in the variables of a shell, at GitHub, at Vercel.
Reached(p, n) ==
  CASE run[p].service = "shell" ->
         LET key == Sanitized(n) IN
         \/ key \in DOMAIN run[p].injected /\ run[p].injected[key] = run[p].copy[n]
         \/ key = PasswordKey
         \/ \E m \in Name \ {n} : run[p].copy[m] # Nothing /\ Sanitized(m) = key
    [] run[p].service = "github" -> actions[n] = run[p].copy[n]
    [] run[p].service = "vercel" ->
         /\ UNION {v.target : v \in Shown(n)} = Target
         /\ \A v \in Shown(n) : v.value = run[p].copy[n]

\* README.md:268-269 "Push secrets to GitHub Actions", "Sync secrets to Vercel environment
\* variables": a sync that met no other and reports success leaves every secret, as it was
\* when the vault was opened, in the project, for every target, and no other value of it.
\* And a shell has each of them, unless two of their names make one variable or one
\* makes LOCKRAIL_PASSWORD.
ReportedIsDeployed ==
  \A p \in Busy : At(p, "shell") \/ (At(p, "done") /\ run[p].alone) =>
    \A n \in Name : run[p].copy[n] # Nothing => Reached(p, n)

\* main.rs:494 "secret set OPENAI_API_KEY sk-proj-... --env production": whatever names are
\* set for one environment after another, a shell has only values that were set for its
\* environment, and a project only those set for an environment that was synced to it.
EnvironmentsApart ==
  /\ \A p \in Busy : At(p, "shell") =>
       \A k \in DOMAIN run[p].injected : run[p].injected[k].for = run[p].env
  /\ \A n \in Name : actions[n] # Nothing => actions[n].for \in synced
  /\ \A v \in variables : v.value # Nothing => v.value.for \in synced

\* However syncs were cut and crossed before, one that meets no other is refused only
\* where the listing does not show every variable, or a key has two of them, made
\* elsewhere for other targets.
RefusedOnlyUnseen ==
  \A p \in Busy : At(p, "refused") /\ run[p].alone =>
    \/ Cardinality(variables) > Page
    \/ \E v \in Shown(Now(p)) : v.target # Target

\* A sync leaves at most one variable deleted and not posted: what the project has had and
\* has no more is counted by the syncs that were cut or are between the two requests.
GapsAreCounted ==
  Cardinality({k \in deployed : Shown(k) = {}})
    <= broken + Cardinality({p \in Busy : At(p, "post") \/ At(p, "refused")})
=============================================================================
