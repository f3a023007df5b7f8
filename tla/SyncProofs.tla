------------------------------ MODULE SyncProofs ------------------------------
(***************************************************************************)
(* Theorems about Sync, for every set of processes, environments, names    *)
(* and targets, every vault and every project that Vercel may hold before: *)
(* what a sync reports, what it may be refused, whose values reach whom,   *)
(* and how many variables cut syncs leave deleted.                         *)
(***************************************************************************)
EXTENDS Sync, SequenceTheorems, FiniteSetTheorems, WellFoundedInduction, TLAPS

Key == Name \cup Other
Place == DOMAIN Order

-----------------------------------------------------------------------------
(* Places in the order of names.                                           *)

\* The initial segments of a set of naturals are finite, and strict inclusion of finite
\* sets is well-founded.
LEMMA LeastExists ==
  ASSUME NEW S \in SUBSET Nat, S # {}
  PROVE  \E a \in S : \A b \in S : a <= b
<1> DEFINE Upto(k) == {m \in S : m <= k}
           T == {Upto(k) : k \in S}
           R == StrictSubsetOrdering(Nat)
<1>1. \A k \in S : IsFiniteSet(Upto(k))
  <2> TAKE k \in S
  <2> HIDE DEF Upto
  <2>1. Upto(k) \in SUBSET Nat /\ \A m \in Upto(k) : m <= k
    BY DEF Upto
  <2> QED
    BY <2>1, FS_BoundedSetOfNaturals
<1>2. T \subseteq FiniteSubsetsOf(Nat) /\ T # {}
  BY <1>1 DEF FiniteSubsetsOf
<1>3. IsWellFoundedOn(R, FiniteSubsetsOf(Nat))
  BY FS_StrictSubsetOrderingWellFounded
<1>4. \E X \in T : \A Y \in T : ~(<<Y, X>> \in R)
  <2> HIDE DEF T, R
  <2> QED
    BY <1>2, <1>3, WFMin
<1>5. PICK a \in S : \A b \in S : ~(<<Upto(b), Upto(a)>> \in R)
  BY <1>4
<1>6. ASSUME NEW b \in S, ~(a <= b) PROVE FALSE
  <2>1. a \in Nat /\ b \in Nat /\ b < a /\ \A m \in S : m <= b => m <= a
    BY <1>6
  <2>2. Upto(b) \subseteq Upto(a) /\ a \in Upto(a) /\ a \notin Upto(b)
    <3>1. Upto(b) \subseteq Upto(a)
      BY <2>1
    <3>2. a <= a /\ ~(a <= b)
      BY <2>1
    <3> QED
      BY <3>1, <3>2
  <2>3. <<Upto(b), Upto(a)>> \in R
    BY <2>2 DEF StrictSubsetOrdering
  <2> QED
    BY <1>5, <2>3
<1> QED
  BY <1>6

LEMMA GreatestExists ==
  ASSUME NEW n \in Nat, NEW S \in SUBSET (1..n), S # {}
  PROVE  \E a \in S : \A b \in S : b <= a
<1> DEFINE T == {n - k : k \in S}
<1>1. T \in SUBSET Nat /\ T # {}
  <2>1. \A k \in S : n - k \in Nat
    OBVIOUS
  <2>2. T # {}
    OBVIOUS
  <2> QED
    BY <2>1, <2>2
<1>2. PICK t \in T : \A u \in T : t <= u
  BY <1>1, LeastExists
<1>3. PICK a \in S : t = n - a
  OBVIOUS
<1>4. \A b \in S : n - a <= n - b
  BY <1>2, <1>3
<1> QED
  BY <1>3, <1>4

LEMMA PlaceIs ==
  /\ Len(Order) \in Nat /\ Place = 1..Len(Order) /\ \A i \in Place : Order[i] \in Name
  /\ \A n \in Name : \E i \in Place : Order[i] = n
  /\ \A i, j \in Place : Order[i] = Order[j] => i = j
<1>1. Order \in Seq(Name) /\ {Order[i] : i \in Place} = Name
  BY SyncAssumption DEF Place
<1>2. Len(Order) \in Nat /\ Place = 1..Len(Order) /\ \A i \in Place : Order[i] \in Name
  BY <1>1, LenProperties, ElementOfSeq DEF Place
<1>3. \A n \in Name : \E i \in Place : Order[i] = n
  BY <1>1
<1>4. \A i, j \in Place : Order[i] = Order[j] => i = j
  BY SyncAssumption, Zenon DEF Place
<1> QED
  BY <1>2, <1>3, <1>4

LEMMA LeastIs ==
  ASSUME NEW places \in SUBSET Place, places # {}
  PROVE  Least(places) \in places /\ Order[Least(places)] \in Name
<1>1. places \in SUBSET Nat
  BY PlaceIs
<1>2. \E i \in places : \A j \in places : i <= j
  BY <1>1, LeastExists
<1>3. Least(places) \in places
  BY <1>2, Zenon DEF Least
<1> QED
  BY <1>3, PlaceIs

LEMMA WinnerIs ==
  ASSUME NEW todo \in SUBSET Place, NEW k, Keyed(todo, k) # {}
  PROVE  Winner(todo, k) \in todo /\ Sanitized(Order[Winner(todo, k)]) = k
<1>1. Keyed(todo, k) \in SUBSET (1..Len(Order)) /\ Len(Order) \in Nat
  BY PlaceIs DEF Keyed
<1>2. \E i \in Keyed(todo, k) : \A j \in Keyed(todo, k) : j <= i
  BY <1>1, GreatestExists
<1>3. Winner(todo, k) \in Keyed(todo, k)
  BY <1>2, Zenon DEF Winner
<1> QED
  BY <1>3 DEF Keyed

\* A shell has, under each key, the value of a name that makes that key.
LEMMA InjectedIs ==
  ASSUME NEW copy \in [Name -> Value \cup {Nothing}], NEW todo \in SUBSET Place,
         \A i \in todo : copy[Order[i]] # Nothing
  PROVE  /\ Injected(copy, todo) \in Injections
         /\ DOMAIN Injected(copy, todo) = {Sanitized(Order[i]) : i \in todo} \ {PasswordKey}
         /\ \A k \in DOMAIN Injected(copy, todo) :
              \E i \in todo : Sanitized(Order[i]) = k /\ Injected(copy, todo)[k] = copy[Order[i]]
<1> DEFINE D == {Sanitized(Order[i]) : i \in todo} \ {PasswordKey}
           f == Injected(copy, todo)
<1>1. f = [k \in D |-> copy[Order[Winner(todo, k)]]]
  BY DEF Injected
<1>2. D \in SUBSET {Sanitized(n) : n \in Name}
  BY PlaceIs
<1>3. ASSUME NEW k \in D
      PROVE  Winner(todo, k) \in todo /\ Sanitized(Order[Winner(todo, k)]) = k
  <2>1. Keyed(todo, k) # {}
    BY <1>3 DEF Keyed
  <2> QED
    BY <2>1, WinnerIs
<1>4. \A k \in D : copy[Order[Winner(todo, k)]] \in Value
  BY <1>3, PlaceIs
<1> HIDE DEF D
<1>5. f \in [D -> Value]
  BY <1>1, <1>4
<1>6. DOMAIN f = D /\ \A k \in D : f[k] = copy[Order[Winner(todo, k)]]
  BY <1>1
<1> HIDE DEF f
<1>7. f \in Injections
  BY <1>2, <1>5 DEF Injections
<1> QED
  BY <1>3, <1>6, <1>7 DEF D, f

-----------------------------------------------------------------------------
(* The invariant.                                                          *)

NowOf(r) == Order[Least(r.todo)]
ShownIn(key, vs) == {v \in vs : v.key = key}

\* What `lockrail shell` put into the variables of the program.
Shelled(r) ==
  /\ \A n \in Name : r.copy[n] # Nothing =>
       \/ Sanitized(n) \in DOMAIN r.injected /\ r.injected[Sanitized(n)] = r.copy[n]
       \/ Sanitized(n) = PasswordKey
       \/ \E m \in Name \ {n} : r.copy[m] # Nothing /\ Sanitized(m) = Sanitized(n)
  /\ \A k \in DOMAIN r.injected : r.injected[k].for = r.env

WellFormed(r) ==
  /\ r \in Session
  /\ \A i \in r.todo : r.copy[Order[i]] # Nothing
  /\ \A n \in Name : r.copy[n] # Nothing => r.copy[n].for = r.env
  /\ r.step \in {"delete", "post", "put", "refused"} => r.todo # {}
  /\ r.step = "delete" => NowOf(r) \in DOMAIN r.existing
  /\ r.step = "done" => r.todo = {}
  /\ r.step = "shell" <=> r.service = "shell"
  /\ r.step = "put" => r.service = "github"
  /\ r.step \in {"list", "delete", "post", "refused"} => r.service = "vercel"
  /\ r.service = "shell" => Shelled(r)

\* The ids a sync has listed are of the key it has them under, or of no variable any more.
Fits(r, vs, last) ==
  \A k \in DOMAIN r.existing :
    r.existing[k] <= last /\ \A v \in vs : v.id = r.existing[k] => v.key = k

\* An id is of one variable, and a key of one for a target.
Project(vs, last) ==
  /\ IsFiniteSet(vs) /\ vs \subseteq Variable /\ last \in Nat
  /\ \A v \in vs : v.id <= last /\ v.target # {} /\ (v.value # Nothing => v.value.for \in synced)
  /\ \A v, w \in vs : v # w => v.id # w.id /\ (v.key = w.key => v.target \cap w.target = {})

Repository(acts) ==
  /\ acts \in [Name -> Value \cup {Nothing}]
  /\ \A n \in Name : acts[n] # Nothing => acts[n].for \in synced

Covers(n, value, vs) ==
  /\ UNION {v.target : v \in ShownIn(n, vs)} = Target
  /\ \A v \in ShownIn(n, vs) : v.value = value

\* The pairs that are behind a sync have arrived.
Arrived(r, vs, acts) ==
  \A i \in Place : i \notin r.todo /\ r.copy[Order[i]] # Nothing =>
    /\ r.service = "github" => acts[Order[i]] = r.copy[Order[i]]
    /\ r.service = "vercel" => Covers(Order[i], r.copy[Order[i]], vs)

Deleted(r) == r.step = "post" /\ NowOf(r) \in DOMAIN r.existing

\* What was listed and is ahead of the sync is there still.
ListedStays(r, vs) ==
  \A i \in r.todo : Order[i] \in DOMAIN r.existing =>
    \/ r.step \in {"post", "refused"} /\ i = Least(r.todo)
    \/ \E v \in vs : v.id = r.existing[Order[i]]

\* The listing had every variable, or there are more than it has place for.
ListedAll(r, vs) ==
  \/ \A i \in r.todo, v \in vs : v.key = Order[i] => v.key \in DOMAIN r.existing
  \/ Cardinality(vs) + (IF Deleted(r) THEN 1 ELSE 0) > Page

OtherTargets(r, vs) == \A v \in ShownIn(NowOf(r), vs) : v.target # Target

Unseen(r, vs) ==
  Cardinality(vs) > Page \/ \E v \in ShownIn(NowOf(r), vs) : v.target # Target

\* A sync that met no other.
Undisturbed(r, vs, acts) ==
  /\ Arrived(r, vs, acts)
  /\ r.step \in {"next", "delete", "post"} /\ r.service = "vercel" =>
       ListedStays(r, vs) /\ ListedAll(r, vs)
  /\ Deleted(r) => OtherTargets(r, vs)
  /\ r.step = "refused" => Unseen(r, vs)

VaultTagged ==
  /\ changes \in Nat /\ secrets \in [Name -> Secret \cup {Nothing}]
  /\ \A n \in Name : secrets[n] # Nothing => secrets[n].tags = {secrets[n].value.for}

SyncInv ==
  /\ VaultTagged /\ Project(variables, ids) /\ Repository(actions) /\ synced \subseteq Environment
  /\ run = [q \in Process |-> run[q]]
  /\ \A p \in Busy : WellFormed(run[p]) /\ Fits(run[p], variables, ids)
  /\ \A p \in Syncing : run[p].env \in synced
  /\ \A p \in Syncing : run[p].alone =>
       Undisturbed(run[p], variables, actions) /\ \A q \in Syncing : q = p

LEMMA InitHolds ==
  Init => SyncInv
<1> SUFFICES ASSUME Init PROVE SyncInv
  OBVIOUS
<1>1. VaultTagged
  BY HeldAssumption DEF Init, VaultTagged
<1>2. Project(variables, ids)
  <2>1. variables \in Before /\ ids = Cardinality(variables)
    BY DEF Init
  <2>2. /\ IsFiniteSet(variables) /\ variables \subseteq Variable
        /\ \A v \in variables :
             /\ v.id \in 1..Cardinality(variables) /\ v.target # {} /\ v.value = Nothing
             /\ \A w \in variables \ {v} :
                  w.id # v.id /\ (w.key = v.key => w.target \cap v.target = {})
    BY <2>1, BeforeAssumption
  <2>3. ids \in Nat
    BY <2>1, <2>2, FS_CardinalityType
  <2>4. \A v \in variables : v.id <= ids /\ v.target # {} /\ v.value = Nothing
    BY <2>1, <2>2, <2>3
  <2>5. \A v, w \in variables : v # w => v.id # w.id /\ (v.key = w.key => v.target \cap w.target = {})
    BY <2>2
  <2> QED
    BY <2>2, <2>3, <2>4, <2>5 DEF Project
<1>3. Repository(actions)
  BY DEF Init, Repository
<1>4. Busy = {} /\ Syncing = {} /\ run = [q \in Process |-> run[q]] /\ synced = {}
  BY DEF Init, Busy, Syncing
<1> QED
  BY <1>1, <1>2, <1>3, <1>4 DEF SyncInv

\* One sync takes a step, or ends: what the step must do for the invariant to go on.
LEMMA SyncMoves ==
  ASSUME SyncInv, NEW p \in Syncing, NEW r, run' = [run EXCEPT ![p] = r],
         \/ r = Nothing
         \/ /\ WellFormed(r) /\ Fits(r, variables', ids')
            /\ r.service = run[p].service /\ r.env = run[p].env /\ r.alone = run[p].alone
            /\ r.alone => Undisturbed(r, variables', actions'),
         Project(variables', ids'), Repository(actions'),
         ids <= ids', \A v \in variables' : v \in variables \/ v.id > ids,
         UNCHANGED <<secrets, changes, synced>>
  PROVE  SyncInv'
<1>0. p \in Busy /\ p \in Process /\ Busy \subseteq Process /\ Syncing \subseteq Busy
  BY DEF Syncing, Busy
<1>1. /\ run' = [q \in Process |-> IF q = p THEN r ELSE run[q]] /\ run'[p] = r
      /\ \A q \in Process : q # p => run'[q] = run[q]
      /\ run' = [q \in Process |-> run'[q]]
  BY <1>0 DEF SyncInv
<1>2. Busy' \subseteq Busy /\ (p \in Busy' => r # Nothing)
  BY <1>0, <1>1 DEF Busy
<1>3. Syncing' \subseteq Syncing
  BY <1>0, <1>1, <1>2 DEF Syncing
<1>4. /\ VaultTagged' /\ Project(variables, ids)' /\ Repository(actions)'
      /\ (synced \subseteq Environment)'
  BY DEF SyncInv, VaultTagged, Project, Repository
<1>5. ASSUME NEW q \in Busy' PROVE WellFormed(run'[q]) /\ Fits(run'[q], variables', ids')
  <2>1. CASE q = p
    BY <1>1, <1>2, <1>5, <2>1
  <2>2. CASE q # p
    <3>1. run'[q] = run[q] /\ WellFormed(run[q]) /\ Fits(run[q], variables, ids) /\ ids \in Nat /\ ids' \in Nat
      BY <1>0, <1>1, <1>2, <1>5, <2>2 DEF SyncInv, Project
    <3>2. \A k \in DOMAIN run[q].existing : run[q].existing[k] \in Nat
      BY <3>1 DEF WellFormed, Session, Maps
    <3>3. \A v \in variables' : v.id \in Nat
      BY DEF Project, Variable
    <3> QED
      BY <3>1, <3>2, <3>3 DEF Fits
  <2> QED
    BY <2>1, <2>2
<1>6. ASSUME NEW q \in Syncing'
      PROVE  /\ run'[q].env \in synced'
             /\ run'[q].alone => Undisturbed(run'[q], variables', actions')
                                 /\ \A o \in Syncing' : o = q
  <2>0. q \in Busy' /\ q \in Syncing
    BY <1>3, <1>6 DEF Syncing
  <2>1. CASE q = p
    <3>1. run'[q] = r /\ r # Nothing /\ r.env \in synced
      BY <1>1, <1>2, <2>0, <2>1 DEF SyncInv
    <3>2. r.alone => \A o \in Syncing' : o = q
      BY <1>3, <2>1, <3>1 DEF SyncInv
    <3> QED
      BY <3>1, <3>2
  <2>2. CASE q # p
    <3>1. run'[q] = run[q]
      BY <1>0, <1>1, <2>0, <2>2
    <3>2. ~run[q].alone /\ run[q].env \in synced
      BY <2>0, <2>2 DEF SyncInv
    <3> QED
      BY <3>1, <3>2
  <2> QED
    BY <2>1, <2>2
<1>7. \A q \in Busy' : WellFormed(run'[q]) /\ Fits(run'[q], variables', ids')
  BY <1>5
<1>8. /\ \A q \in Syncing' : run'[q].env \in synced'
      /\ \A q \in Syncing' : run'[q].alone =>
           Undisturbed(run'[q], variables', actions') /\ \A o \in Syncing' : o = q
  BY <1>6
<1> QED
  BY <1>1, <1>4, <1>7, <1>8 DEF SyncInv

-----------------------------------------------------------------------------
(* The steps of a sync.                                                    *)

LEMMA SessionIs ==
  ASSUME NEW r, WellFormed(r)
  PROVE  /\ r.service \in {"vercel", "github", "shell"} /\ r.env \in Environment
         /\ r.copy \in [Name -> Value \cup {Nothing}] /\ r.alone \in BOOLEAN /\ r.step \in Steps
         /\ r.todo \in SUBSET Place /\ r.existing \in Maps /\ r.injected \in Injections
         /\ r.todo # {} => Least(r.todo) \in r.todo /\ NowOf(r) \in Name /\ r.copy[NowOf(r)] \in Value
         /\ \A k \in DOMAIN r.existing : r.existing[k] \in Nat
<1>1. /\ r.service \in {"vercel", "github", "shell"} /\ r.env \in Environment
      /\ r.copy \in [Name -> Value \cup {Nothing}] /\ r.alone \in BOOLEAN /\ r.step \in Steps
      /\ r.todo \in SUBSET Place /\ r.existing \in Maps /\ r.injected \in Injections
  BY DEF WellFormed, Session, Place
<1>2. ASSUME r.todo # {}
      PROVE  Least(r.todo) \in r.todo /\ NowOf(r) \in Name /\ r.copy[NowOf(r)] \in Value
  <2>1. Least(r.todo) \in r.todo /\ NowOf(r) \in Name
    BY <1>1, <1>2, LeastIs DEF NowOf
  <2>2. r.copy[NowOf(r)] # Nothing
    BY <2>1 DEF WellFormed, NowOf
  <2> QED
    BY <1>1, <2>1, <2>2
<1>3. \A k \in DOMAIN r.existing : r.existing[k] \in Nat
  BY <1>1 DEF Maps
<1> QED
  BY <1>1, <1>2, <1>3

LEMMA AtIs ==
  ASSUME SyncInv, NEW p \in Process, NEW step, At(p, step), step # "shell"
  PROVE  /\ p \in Syncing /\ p \in Busy /\ WellFormed(run[p]) /\ Fits(run[p], variables, ids)
         /\ run[p].step = step /\ run[p].service \in {"vercel", "github"} /\ run[p].env \in synced
         /\ Now(p) = NowOf(run[p]) /\ (Todo(p) <=> run[p].todo # {})
         /\ run[p].alone => Undisturbed(run[p], variables, actions)
<1>1. p \in Busy /\ run[p].step = step
  BY DEF At, Busy
<1>2. WellFormed(run[p]) /\ Fits(run[p], variables, ids)
  BY <1>1 DEF SyncInv
<1>3. run[p].service # "shell" /\ run[p].service \in {"vercel", "github"}
  BY <1>1, <1>2, SessionIs DEF WellFormed
<1>4. p \in Syncing
  BY <1>1, <1>3 DEF Syncing
<1>5. /\ run[p].env \in synced
      /\ run[p].alone => Undisturbed(run[p], variables, actions)
  BY <1>4 DEF SyncInv
<1> QED
  BY <1>1, <1>2, <1>3, <1>4, <1>5 DEF Now, NowOf, Todo

LEMMA PassedIs ==
  ASSUME NEW p, WellFormed(run[p])
  PROVE  /\ Passed(p) \in Session /\ Passed(p).service = run[p].service /\ Passed(p).env = run[p].env
         /\ Passed(p).copy = run[p].copy /\ Passed(p).alone = run[p].alone /\ Passed(p).step = "next"
         /\ Passed(p).todo = run[p].todo \ {Least(run[p].todo)}
         /\ Passed(p).existing = run[p].existing /\ Passed(p).injected = run[p].injected
<1>1. run[p] \in Session
  BY DEF WellFormed
<1> QED
  BY <1>1 DEF Passed, Session, Steps

LEMMA StepIs ==
  ASSUME NEW r, WellFormed(r), NEW step \in Steps
  PROVE  LET n == [r EXCEPT !.step = step] IN
         /\ n \in Session /\ n.service = r.service /\ n.env = r.env /\ n.copy = r.copy
         /\ n.alone = r.alone /\ n.step = step /\ n.todo = r.todo
         /\ n.existing = r.existing /\ n.injected = r.injected
<1>1. r \in Session
  BY DEF WellFormed
<1> QED
  BY <1>1 DEF Session

\* A pair has arrived, and no other was touched.
LEMMA ArrivedAdvances ==
  ASSUME NEW r, WellFormed(r), r.todo # {}, NEW n, n.copy = r.copy, n.service = r.service,
         n.todo = r.todo \ {Least(r.todo)},
         NEW vs, NEW acts, NEW vs2, NEW acts2, Arrived(r, vs, acts),
         \A m \in Name : m # NowOf(r) => acts2[m] = acts[m] /\ ShownIn(m, vs2) = ShownIn(m, vs),
         r.service = "github" => acts2[NowOf(r)] = r.copy[NowOf(r)],
         r.service = "vercel" => Covers(NowOf(r), r.copy[NowOf(r)], vs2)
  PROVE  Arrived(n, vs2, acts2)
<1> SUFFICES ASSUME NEW i \in Place, i \notin n.todo, n.copy[Order[i]] # Nothing
             PROVE  /\ r.service = "github" => acts2[Order[i]] = r.copy[Order[i]]
                    /\ r.service = "vercel" => Covers(Order[i], r.copy[Order[i]], vs2)
  BY DEF Arrived
<1>1. CASE i = Least(r.todo)
  BY <1>1 DEF NowOf
<1>2. CASE i # Least(r.todo)
  <2>1. i \notin r.todo
    BY <1>2
  <2>2. Order[i] \in Name /\ Order[i] # NowOf(r)
    BY <1>2, PlaceIs, SessionIs DEF NowOf
  <2>3. /\ r.service = "github" => acts[Order[i]] = r.copy[Order[i]]
        /\ r.service = "vercel" => Covers(Order[i], r.copy[Order[i]], vs)
    BY <2>1 DEF Arrived
  <2> QED
    BY <2>2, <2>3 DEF Covers
<1> QED
  BY <1>1, <1>2

\* A step that sends nothing.
LEMMA QuietMoves ==
  ASSUME SyncInv, NEW p \in Syncing, NEW n, run' = [run EXCEPT ![p] = n],
         \/ n = Nothing
         \/ /\ WellFormed(n) /\ Fits(n, variables, ids)
            /\ n.service = run[p].service /\ n.env = run[p].env /\ n.alone = run[p].alone
            /\ n.alone => Undisturbed(n, variables, actions),
         UNCHANGED <<secrets, changes, variables, actions, ids, synced>>
  PROVE  SyncInv'
<1>1. Project(variables, ids) /\ Repository(actions) /\ ids <= ids
  BY DEF SyncInv, Project
<1>2. Project(variables', ids') /\ Repository(actions') /\ ids <= ids'
  BY <1>1
<1>3. n = Nothing \/ Fits(n, variables', ids')
  OBVIOUS
<1>4. n = Nothing \/ (n.alone => Undisturbed(n, variables', actions'))
  OBVIOUS
<1>5. \A v \in variables' : v \in variables \/ v.id > ids
  OBVIOUS
<1> QED
  BY <1>2, <1>3, <1>4, <1>5, SyncMoves

LEMMA DeletedProject ==
  ASSUME SyncInv, NEW vs, vs \subseteq variables
  PROVE  Project(vs, ids) /\ \A p \in Busy : Fits(run[p], vs, ids)
<1>1. Project(variables, ids)
  BY DEF SyncInv
<1>2. IsFiniteSet(vs)
  BY <1>1, FS_Subset DEF Project
<1>3. \A p \in Busy : Fits(run[p], variables, ids)
  BY DEF SyncInv
<1> QED
  BY <1>1, <1>2, <1>3 DEF Project, Fits

\* The new variable of a key that had none for these targets.
LEMMA CreatedProject ==
  ASSUME SyncInv, NEW p \in Syncing, run[p].todo # {}, ~Conflicts(Now(p), Target), Create(p)
  PROVE  /\ Project(variables', ids') /\ ids <= ids'
         /\ \A v \in variables' : v \in variables \/ v.id > ids
         /\ \A q \in Busy : Fits(run[q], variables', ids')
         /\ ShownIn(Now(p), variables) = {} => Covers(Now(p), run[p].copy[Now(p)], variables')
         /\ \A m \in Key : m # Now(p) => ShownIn(m, variables') = ShownIn(m, variables)
         /\ Cardinality(variables') = Cardinality(variables) + 1 /\ IsFiniteSet(variables)
         /\ \A v \in variables' : v \in variables \/ v.key = Now(p)
         /\ variables \subseteq variables'
<1> DEFINE r == run[p]
           new == [id |-> ids + 1, key |-> Now(p), value |-> r.copy[Now(p)], target |-> Target]
<1>1. variables' = variables \cup {new} /\ ids' = ids + 1
  BY DEF Create
<1>2. p \in Busy /\ WellFormed(r) /\ Project(variables, ids)
      /\ \A q \in Busy : WellFormed(run[q]) /\ Fits(run[q], variables, ids)
  BY DEF SyncInv, Syncing
<1>3. r.env \in synced
  BY DEF SyncInv
<1>4. Now(p) = NowOf(r)
  BY DEF Now, NowOf
<1>5. /\ Now(p) \in Name /\ r.copy[Now(p)] \in Value /\ r.copy[Now(p)].for = r.env
  <2>1. NowOf(r) \in Name /\ r.copy[NowOf(r)] \in Value
    BY <1>2, SessionIs
  <2>2. r.copy[NowOf(r)] # Nothing
    BY <2>1, SyncAssumption
  <2> QED
    BY <1>2, <1>4, <2>1, <2>2 DEF WellFormed
<1>6. /\ new.id = ids + 1 /\ new.key = Now(p) /\ new.value = r.copy[Now(p)] /\ new.target = Target
  OBVIOUS
<1>7. new \in Variable
  <2>1. ids + 1 \in Nat
    BY <1>2 DEF Project
  <2> QED
    BY <1>5, <2>1 DEF Variable
<1> HIDE DEF new, r
<1>8. /\ IsFiniteSet(variables) /\ variables \subseteq Variable /\ ids \in Nat
      /\ \A v \in variables : v.id \in Nat /\ v.id <= ids
  BY <1>2 DEF Project, Variable
<1>9. new \notin variables
  BY <1>6, <1>8
<1>10. IsFiniteSet(variables') /\ Cardinality(variables') = Cardinality(variables) + 1
  BY <1>1, <1>8, <1>9, FS_AddElement
<1>11. \A v \in variables' : v \in variables \/ (v = new /\ v.id > ids /\ v.key = Now(p))
  BY <1>1, <1>6, <1>8
<1>12. ids <= ids' /\ ids' \in Nat /\ \A v \in variables' : v.id <= ids'
  BY <1>1, <1>6, <1>8
<1>13. \A v \in variables' : v.target # {} /\ (v.value # Nothing => v.value.for \in synced)
  BY <1>2, <1>3, <1>5, <1>6, <1>11, SyncAssumption DEF Project
<1>14. \A v \in variables : v.key = Now(p) => v.target \cap Target = {}
  BY DEF Conflicts
<1>15. ASSUME NEW v \in variables', NEW w \in variables', v # w
       PROVE  v.id # w.id /\ (v.key = w.key => v.target \cap w.target = {})
  <2>1. CASE v \in variables /\ w \in variables
    BY <1>2, <1>15, <2>1 DEF Project
  <2>2. CASE v \in variables /\ w = new
    BY <1>6, <1>8, <1>14, <2>2
  <2>3. CASE v = new /\ w \in variables
    BY <1>6, <1>8, <1>14, <2>3
  <2> QED
    BY <1>11, <1>15, <2>1, <2>2, <2>3
<1>16. variables' \subseteq Variable
  BY <1>1, <1>7, <1>8
<1>17. Project(variables', ids')
  BY <1>10, <1>12, <1>13, <1>15, <1>16 DEF Project
<1>18. ASSUME NEW q \in Busy PROVE Fits(run[q], variables', ids')
  <2>1. \A k \in DOMAIN run[q].existing : run[q].existing[k] \in Nat
    BY <1>2, SessionIs
  <2> QED
    BY <1>2, <1>6, <1>8, <1>11, <1>12, <2>1 DEF Fits
<1>19. ASSUME ShownIn(Now(p), variables) = {} PROVE Covers(Now(p), r.copy[Now(p)], variables')
  <2>1. ShownIn(Now(p), variables') = {new}
    BY <1>1, <1>6, <1>19 DEF ShownIn
  <2> QED
    BY <1>6, <2>1 DEF Covers
<1>20. \A m \in Key : m # Now(p) => ShownIn(m, variables') = ShownIn(m, variables)
  BY <1>1, <1>6 DEF ShownIn
<1> QED
  BY <1>1, <1>8, <1>10, <1>11, <1>12, <1>17, <1>18, <1>19, <1>20 DEF r

LEMMA PutRepository ==
  ASSUME SyncInv, NEW p \in Syncing, run[p].todo # {}
  PROVE  Repository([actions EXCEPT ![Now(p)] = run[p].copy[Now(p)]])
<1>1. p \in Busy /\ WellFormed(run[p]) /\ run[p].env \in synced /\ Repository(actions)
  BY DEF SyncInv, Syncing
<1>2. NowOf(run[p]) \in Name /\ run[p].copy[NowOf(run[p])] \in Value
      /\ run[p].copy[NowOf(run[p])] # Nothing
  BY <1>1, SessionIs, SyncAssumption
<1>3. Now(p) = NowOf(run[p]) /\ run[p].copy[Now(p)].for \in synced
  BY <1>1, <1>2 DEF Now, NowOf, WellFormed
<1> QED
  BY <1>1, <1>2, <1>3 DEF Repository

LEMMA ListKeeps ==
  ASSUME SyncInv, NEW p \in Process, List(p)
  PROVE  SyncInv'
<1> DEFINE r == run[p]
<1>1. /\ At(p, "list") /\ UNCHANGED <<Local, Remote, left, synced, deployed, broken>>
  BY DEF List
<1>2. PICK page \in SUBSET variables :
        /\ Cardinality(page) = IF Cardinality(variables) > Page THEN Page ELSE Cardinality(variables)
        /\ \E map \in [{v.key : v \in page} -> {v.id : v \in page}] :
             /\ \A k \in DOMAIN map : \E v \in page : v.key = k /\ v.id = map[k]
             /\ run' = [run EXCEPT ![p] = [@ EXCEPT !.existing = map, !.step = "next"]]
  BY DEF List
<1>3. PICK map \in [{v.key : v \in page} -> {v.id : v \in page}] :
        /\ \A k \in DOMAIN map : \E v \in page : v.key = k /\ v.id = map[k]
        /\ run' = [run EXCEPT ![p] = [@ EXCEPT !.existing = map, !.step = "next"]]
  BY <1>2
<1> DEFINE n == [r EXCEPT !.existing = map, !.step = "next"]
<1>4. run' = [run EXCEPT ![p] = n]
  BY <1>3
<1>5. /\ p \in Syncing /\ WellFormed(r) /\ r.step = "list"
      /\ r.alone => Undisturbed(r, variables, actions)
      /\ r \in Session /\ r.service = "vercel"
  BY <1>1, AtIs DEF WellFormed
<1>6. Project(variables, ids) /\ Repository(actions)
  BY DEF SyncInv
<1>7. map \in Maps /\ DOMAIN map = {v.key : v \in page}
  <2>1. {v.key : v \in page} \subseteq Key /\ {v.id : v \in page} \subseteq Nat
    BY <1>2, <1>6 DEF Project, Variable, Key
  <2>2. map \in [{v.key : v \in page} -> Nat]
    BY <2>1
  <2> QED
    BY <2>1, <2>2 DEF Maps, Key
<1>8. /\ n \in Session /\ n.service = r.service /\ n.env = r.env /\ n.copy = r.copy
      /\ n.alone = r.alone /\ n.step = "next" /\ n.todo = r.todo
      /\ n.existing = map /\ n.injected = r.injected
  BY <1>5, <1>7 DEF Session, Steps
<1> HIDE DEF n, r
<1>9. WellFormed(n)
  BY <1>5, <1>8 DEF WellFormed
<1>10. Fits(n, variables, ids)
  <2> SUFFICES ASSUME NEW k \in DOMAIN map
               PROVE  map[k] <= ids /\ \A v \in variables : v.id = map[k] => v.key = k
    BY <1>8 DEF Fits
  <2>1. PICK w \in page : w.key = k /\ w.id = map[k]
    BY <1>3
  <2>2. w \in variables
    BY <1>2, <2>1
  <2> QED
    BY <1>6, <2>1, <2>2 DEF Project
<1>11. ListedStays(n, variables)
  <2> SUFFICES ASSUME NEW i \in n.todo, Order[i] \in DOMAIN map
               PROVE  \E v \in variables : v.id = map[Order[i]]
    BY <1>8 DEF ListedStays
  <2> QED
    BY <1>2, <1>3
<1>12. ListedAll(n, variables)
  <2>1. CASE Cardinality(variables) > Page
    <3>1. Cardinality(variables) + 0 > Page
      BY <1>6, <2>1, FS_CardinalityType DEF Project
    <3>2. ~Deleted(n)
      BY <1>8 DEF Deleted
    <3> QED
      BY <3>1, <3>2 DEF ListedAll
  <2>2. CASE ~(Cardinality(variables) > Page)
    <3>1. Cardinality(page) = Cardinality(variables) /\ IsFiniteSet(variables)
      BY <1>2, <1>6, <2>2 DEF Project
    <3>2. page = variables
      BY <3>1, FS_Subset
    <3> QED
      BY <1>7, <1>8, <3>2 DEF ListedAll
  <2> QED
    BY <2>1, <2>2
<1>13. ASSUME n.alone PROVE Undisturbed(n, variables, actions)
  <2>1. Arrived(n, variables, actions)
    BY <1>5, <1>8, <1>13 DEF Undisturbed, Arrived
  <2>2. ~Deleted(n)
    BY <1>8 DEF Deleted
  <2> QED
    BY <1>8, <1>11, <1>12, <2>1, <2>2 DEF Undisturbed
<1>14. UNCHANGED <<variables, actions, ids, secrets, changes, synced>>
  BY <1>1 DEF Local, Remote
<1>15. ids <= ids'
  BY <1>6, <1>14 DEF Project
<1>16. n.alone => Undisturbed(n, variables', actions')
  BY <1>13, <1>14
<1>17. Fits(n, variables', ids') /\ Project(variables', ids') /\ Repository(actions')
  BY <1>6, <1>10, <1>14
<1> QED
  BY <1>4, <1>5, <1>8, <1>9, <1>14, <1>15, <1>16, <1>17, SyncMoves DEF r

LEMMA ChooseKeeps ==
  ASSUME SyncInv, NEW p \in Process, Choose(p)
  PROVE  SyncInv'
<1> DEFINE r == run[p]
           step == IF ~Todo(p) THEN "done"
                   ELSE IF r.service = "github" THEN "put"
                   ELSE IF Exists(p) THEN "delete" ELSE "post"
           n == [r EXCEPT !.step = step]
<1>1. /\ At(p, "next") /\ run' = [run EXCEPT ![p] = n]
      /\ UNCHANGED <<secrets, changes, variables, actions, ids, synced>>
  BY DEF Choose, Goto, Local, Remote
<1>2. /\ p \in Syncing /\ WellFormed(r) /\ Fits(r, variables, ids) /\ r.step = "next"
      /\ r.service \in {"vercel", "github"}
      /\ Now(p) = NowOf(r) /\ (Todo(p) <=> r.todo # {})
      /\ r.alone => Undisturbed(r, variables, actions)
  BY <1>1, AtIs
<1>3. step \in Steps
  BY DEF Steps
<1>4. /\ n \in Session /\ n.service = r.service /\ n.env = r.env /\ n.copy = r.copy
      /\ n.alone = r.alone /\ n.step = step /\ n.todo = r.todo
      /\ n.existing = r.existing /\ n.injected = r.injected
  BY <1>2, <1>3, StepIs
<1>5. /\ step = "done" <=> r.todo = {}
      /\ step = "put" <=> r.todo # {} /\ r.service = "github"
      /\ step = "delete" <=> r.todo # {} /\ r.service = "vercel" /\ NowOf(r) \in DOMAIN r.existing
      /\ step = "post" <=> r.todo # {} /\ r.service = "vercel" /\ NowOf(r) \notin DOMAIN r.existing
      /\ step \in {"done", "put", "delete", "post"}
  BY <1>2 DEF Exists
<1>6. NowOf(n) = NowOf(r)
  BY <1>4 DEF NowOf
<1> HIDE DEF n, r, step
<1>7. WellFormed(n)
  BY <1>2, <1>4, <1>5, <1>6 DEF WellFormed
<1>8. Fits(n, variables, ids)
  BY <1>2, <1>4 DEF Fits
<1>9. ASSUME n.alone PROVE Undisturbed(n, variables, actions)
  <2>1. Undisturbed(r, variables, actions)
    BY <1>2, <1>4, <1>9
  <2>2. Arrived(n, variables, actions)
    BY <1>4, <2>1 DEF Undisturbed, Arrived
  <2>3. ~Deleted(n) /\ ~Deleted(r)
    BY <1>2, <1>4, <1>5, <1>6 DEF Deleted
  <2>4. ASSUME n.service = "vercel" PROVE ListedStays(n, variables) /\ ListedAll(n, variables)
    BY <1>2, <1>4, <2>1, <2>3, <2>4 DEF Undisturbed, ListedStays, ListedAll
  <2>5. n.step # "refused"
    BY <1>4, <1>5
  <2> QED
    BY <2>2, <2>3, <2>4, <2>5 DEF Undisturbed
<1> QED
  BY <1>1, <1>2, <1>4, <1>7, <1>8, <1>9, QuietMoves DEF r

LEMMA DeleteKeeps ==
  ASSUME SyncInv, NEW p \in Process, Delete(p)
  PROVE  SyncInv'
<1> DEFINE r == run[p]
           there == {v \in variables : v.id = r.existing[Now(p)]}
           step == IF there = {} THEN "refused" ELSE "post"
           n == [r EXCEPT !.step = step]
<1>1. /\ At(p, "delete") /\ run' = [run EXCEPT ![p] = n] /\ variables' = variables \ there
      /\ UNCHANGED <<secrets, changes, actions, ids, synced>>
  BY DEF Delete, Goto, Local
<1>2. /\ p \in Syncing /\ WellFormed(r) /\ Fits(r, variables, ids) /\ r.step = "delete"
      /\ Now(p) = NowOf(r) /\ p \in Busy
      /\ r.alone => Undisturbed(r, variables, actions)
  BY <1>1, AtIs
<1>3. /\ n \in Session /\ n.service = r.service /\ n.env = r.env /\ n.copy = r.copy
      /\ n.alone = r.alone /\ n.step = step /\ n.todo = r.todo
      /\ n.existing = r.existing /\ n.injected = r.injected
  <2>1. step \in Steps
    BY DEF Steps
  <2> HIDE DEF step
  <2> QED
    BY <1>2, <2>1, StepIs
<1>4. /\ r.todo # {} /\ r.service = "vercel" /\ NowOf(r) \in DOMAIN r.existing
      /\ r.todo \in SUBSET Place /\ Least(r.todo) \in r.todo /\ NowOf(r) \in Name
  BY <1>2, SessionIs DEF WellFormed
<1>5. NowOf(n) = NowOf(r) /\ NowOf(r) = Order[Least(r.todo)]
  BY <1>3 DEF NowOf
<1>6. Project(variables, ids) /\ Repository(actions)
  BY DEF SyncInv
<1>7. there \subseteq variables /\ (there = {} => step = "refused") /\ (there # {} => step = "post")
      /\ \A v \in variables : v \in there <=> v.id = r.existing[NowOf(r)]
  BY <1>2
<1> HIDE DEF n, r, step, there
<1>8. WellFormed(n)
  BY <1>2, <1>3, <1>4, <1>7 DEF WellFormed
<1>9. Project(variables', ids') /\ Fits(n, variables', ids')
  <2>1. Project(variables', ids) /\ Fits(r, variables', ids)
    BY <1>1, <1>2, DeletedProject DEF r
  <2> QED
    BY <1>1, <1>3, <2>1 DEF Fits
<1>10. ASSUME n.alone PROVE Undisturbed(n, variables', actions)
  <2>1. /\ Arrived(r, variables, actions) /\ ListedStays(r, variables) /\ ListedAll(r, variables)
    BY <1>2, <1>3, <1>4, <1>10 DEF Undisturbed
  <2>2. PICK v \in variables : v.id = r.existing[NowOf(r)]
    BY <1>2, <1>4, <1>5, <2>1 DEF ListedStays
  <2>3. v.key = NowOf(r) /\ v \in there
    BY <1>2, <1>4, <1>7, <2>2 DEF Fits
  <2>4. there = {v}
    BY <1>6, <1>7, <2>2, <2>3 DEF Project
  <2>5. step = "post" /\ Deleted(n) /\ ~Deleted(r)
    BY <1>2, <1>3, <1>4, <1>5, <1>7, <2>3 DEF Deleted
  <2>6. \A m \in Key : m # NowOf(r) => ShownIn(m, variables') = ShownIn(m, variables)
    BY <1>1, <2>3, <2>4 DEF ShownIn
  <2>7. Arrived(n, variables', actions)
    <3> SUFFICES ASSUME NEW i \in Place, i \notin r.todo, r.copy[Order[i]] # Nothing
                 PROVE  Covers(Order[i], r.copy[Order[i]], variables')
      BY <1>3, <1>4 DEF Arrived
    <3>1. Order[i] \in Key /\ Order[i] # NowOf(r)
      BY <1>4, <1>5, PlaceIs DEF Key
    <3> QED
      BY <1>4, <2>1, <2>6, <3>1 DEF Arrived, Covers
  <2>8. ListedStays(n, variables')
    <3> SUFFICES ASSUME NEW i \in r.todo, Order[i] \in DOMAIN r.existing, i # Least(r.todo)
                 PROVE  \E w \in variables' : w.id = r.existing[Order[i]]
      BY <1>3, <2>5 DEF ListedStays
    <3>1. PICK w \in variables : w.id = r.existing[Order[i]]
      BY <1>2, <2>1 DEF ListedStays
    <3>2. w.key = Order[i]
      BY <1>2, <3>1 DEF Fits
    <3>3. Order[i] # NowOf(r)
      BY <1>4, <1>5, PlaceIs
    <3> QED
      BY <1>1, <2>3, <2>4, <3>1, <3>2, <3>3
  <2>9. ListedAll(n, variables')
    <3>1. CASE \A i \in r.todo, w \in variables : w.key = Order[i] => w.key \in DOMAIN r.existing
      BY <1>1, <1>3, <3>1 DEF ListedAll
    <3>2. CASE Cardinality(variables) + 0 > Page
      <4>1. /\ Cardinality(variables) \in Nat
            /\ Cardinality(variables') = Cardinality(variables) - 1
        BY <1>1, <1>6, <2>2, <2>4, FS_CardinalityType, FS_RemoveElement DEF Project
      <4>2. Cardinality(variables') + 1 > Page
        BY <3>2, <4>1, SyncAssumption
      <4> QED
        BY <2>5, <4>2 DEF ListedAll
    <3> QED
      BY <2>1, <2>5, <3>1, <3>2 DEF ListedAll
  <2>10. OtherTargets(n, variables')
    <3> SUFFICES ASSUME NEW w \in variables, w.key = NowOf(r), w # v
                 PROVE  w.target # Target
      BY <1>1, <1>5, <2>4 DEF OtherTargets, ShownIn
    <3>1. w.target \cap v.target = {} /\ v.target # {} /\ v.target \subseteq Target
      BY <1>6, <2>3, <2>2 DEF Project, Variable
    <3> QED
      BY <3>1
  <2> QED
    BY <1>3, <2>5, <2>7, <2>8, <2>9, <2>10 DEF Undisturbed
<1>11. \A v \in variables' : v \in variables \/ v.id > ids
  BY <1>1
<1>12. ids <= ids' /\ Repository(actions')
  BY <1>1, <1>6 DEF Project
<1>13. n.alone => Undisturbed(n, variables', actions')
  BY <1>1, <1>10
<1> QED
  BY <1>1, <1>2, <1>3, <1>8, <1>9, <1>11, <1>12, <1>13, SyncMoves DEF r

LEMMA PostKeeps ==
  ASSUME SyncInv, NEW p \in Process, Post(p)
  PROVE  SyncInv'
<1> DEFINE r == run[p]
<1>1. /\ At(p, "post") /\ UNCHANGED <<secrets, changes, actions, synced>>
      /\ \/ Conflicts(Now(p), Target) /\ UNCHANGED <<variables, ids>>
         \/ ~Conflicts(Now(p), Target) /\ Create(p)
      /\ Posted(p, Conflicts(Now(p), Target))
  BY DEF Post, Local
<1>2. /\ p \in Syncing /\ WellFormed(r) /\ Fits(r, variables, ids) /\ r.step = "post"
      /\ Now(p) = NowOf(r) /\ p \in Busy
      /\ r.alone => Undisturbed(r, variables, actions)
  BY <1>1, AtIs
<1>3. /\ r.todo # {} /\ r.service = "vercel" /\ r.todo \in SUBSET Place
      /\ Least(r.todo) \in r.todo /\ NowOf(r) \in Name
  BY <1>2, SessionIs DEF WellFormed
<1>4. Project(variables, ids) /\ Repository(actions)
  BY DEF SyncInv
<1>5. CASE Conflicts(Now(p), Target)
  <2> DEFINE n == [r EXCEPT !.step = "refused"]
  <2>1. run' = [run EXCEPT ![p] = n] /\ UNCHANGED <<variables, ids>>
    BY <1>1, <1>5 DEF Posted, Goto
  <2>2. /\ n \in Session /\ n.service = r.service /\ n.env = r.env /\ n.copy = r.copy
        /\ n.alone = r.alone /\ n.step = "refused" /\ n.todo = r.todo
        /\ n.existing = r.existing /\ n.injected = r.injected
    BY <1>2, StepIs DEF Steps
  <2>3. NowOf(n) = NowOf(r) /\ NowOf(r) = Order[Least(r.todo)]
    BY <2>2 DEF NowOf
  <2> HIDE DEF n, r
  <2>4. WellFormed(n) /\ Fits(n, variables, ids)
    BY <1>2, <1>3, <2>2 DEF WellFormed, Fits
  <2>5. ASSUME n.alone PROVE Undisturbed(n, variables, actions)
    <3>1. Arrived(r, variables, actions) /\ ListedAll(r, variables)
          /\ (Deleted(r) => OtherTargets(r, variables))
      BY <1>2, <1>3, <2>2, <2>5 DEF Undisturbed
    <3>2. Arrived(n, variables, actions) /\ ~Deleted(n)
      BY <2>2, <3>1 DEF Arrived, Deleted
    <3>3. PICK v \in variables : v.key = NowOf(r)
      BY <1>2, <1>5 DEF Conflicts
    <3>4. Unseen(n, variables)
      <4>1. CASE Deleted(r)
        BY <2>3, <3>1, <3>3, <4>1 DEF OtherTargets, Unseen, ShownIn
      <4>2. CASE ~Deleted(r)
        <5>1. ~(\A i \in r.todo, w \in variables : w.key = Order[i] => w.key \in DOMAIN r.existing)
          BY <1>2, <1>3, <2>3, <3>3, <4>2 DEF Deleted
        <5>2. Cardinality(variables) + 0 > Page
          BY <3>1, <4>2, <5>1 DEF ListedAll
        <5>3. Cardinality(variables) > Page
          BY <1>4, <5>2, FS_CardinalityType, SyncAssumption DEF Project
        <5> QED
          BY <5>3 DEF Unseen
      <4> QED
        BY <4>1, <4>2
    <3> QED
      BY <2>2, <3>2, <3>4 DEF Undisturbed
  <2> QED
    BY <1>1, <1>2, <2>1, <2>2, <2>4, <2>5, QuietMoves DEF r
<1>6. CASE ~Conflicts(Now(p), Target)
  <2> DEFINE n == Passed(p)
  <2>1. run' = [run EXCEPT ![p] = n] /\ Create(p)
    BY <1>1, <1>6 DEF Posted
  <2>2. /\ n \in Session /\ n.service = r.service /\ n.env = r.env /\ n.copy = r.copy
        /\ n.alone = r.alone /\ n.step = "next" /\ n.todo = r.todo \ {Least(r.todo)}
        /\ n.existing = r.existing /\ n.injected = r.injected
    BY <1>2, PassedIs
  <2>3. /\ Project(variables', ids') /\ ids <= ids'
        /\ \A v \in variables' : v \in variables \/ v.id > ids
        /\ Fits(r, variables', ids')
        /\ ShownIn(NowOf(r), variables) = {} => Covers(NowOf(r), r.copy[NowOf(r)], variables')
        /\ \A m \in Key : m # NowOf(r) => ShownIn(m, variables') = ShownIn(m, variables)
        /\ Cardinality(variables') = Cardinality(variables) + 1 /\ IsFiniteSet(variables)
        /\ \A v \in variables' : v \in variables \/ v.key = NowOf(r)
        /\ variables \subseteq variables'
    BY <1>2, <1>3, <1>6, <2>1, CreatedProject
  <2>4. ShownIn(NowOf(r), variables) = {}
    <3>1. \A v \in variables : v.key = NowOf(r) => v.target \cap Target = {}
      BY <1>2, <1>6 DEF Conflicts
    <3>2. \A v \in variables : v.target # {} /\ v.target \subseteq Target
      BY <1>4 DEF Project, Variable
    <3> QED
      BY <3>1, <3>2 DEF ShownIn
  <2>5. NowOf(r) = Order[Least(r.todo)]
    BY DEF NowOf
  <2> HIDE DEF n, r
  <2>6. WellFormed(n) /\ Fits(n, variables', ids')
    BY <1>2, <1>3, <2>2, <2>3 DEF WellFormed, Fits
  <2>7. ASSUME n.alone PROVE Undisturbed(n, variables', actions)
    <3>1. Arrived(r, variables, actions) /\ ListedAll(r, variables) /\ ListedStays(r, variables)
      BY <1>2, <1>3, <2>2, <2>7 DEF Undisturbed
    <3>2. Arrived(n, variables', actions)
      <4>1. \A m \in Name : m # NowOf(r) => actions[m] = actions[m] /\ ShownIn(m, variables') = ShownIn(m, variables)
        BY <2>3 DEF Key
      <4> QED
        BY <1>2, <1>3, <2>2, <2>3, <2>4, <3>1, <4>1, ArrivedAdvances
    <3>3. ~Deleted(n)
      BY <2>2 DEF Deleted
    <3>4. ListedStays(n, variables')
      BY <1>2, <2>2, <2>3, <3>1 DEF ListedStays
    <3>5. ListedAll(n, variables')
      <4>1. CASE \A i \in r.todo, v \in variables : v.key = Order[i] => v.key \in DOMAIN r.existing
        <5> SUFFICES ASSUME NEW i \in n.todo, NEW v \in variables', v.key = Order[i]
                     PROVE  v.key \in DOMAIN n.existing
          BY DEF ListedAll
        <5>1. i \in r.todo /\ i # Least(r.todo) /\ i \in Place
          BY <1>3, <2>2
        <5>2. Order[i] # NowOf(r)
          BY <1>3, <2>5, <5>1, PlaceIs
        <5>3. v \in variables
          BY <2>3, <5>2
        <5> QED
          BY <2>2, <4>1, <5>1, <5>3
      <4>2. CASE Cardinality(variables) + (IF Deleted(r) THEN 1 ELSE 0) > Page
        <5>1. Cardinality(variables) \in Nat
          BY <2>3, FS_CardinalityType
        <5>2. Cardinality(variables') + 0 > Page
          BY <2>3, <4>2, <5>1, SyncAssumption
        <5> QED
          BY <3>3, <5>2 DEF ListedAll
      <4> QED
        BY <3>1, <4>1, <4>2 DEF ListedAll
    <3> QED
      BY <2>2, <3>2, <3>3, <3>4, <3>5 DEF Undisturbed
  <2>8. n.alone => Undisturbed(n, variables', actions')
    BY <1>1, <2>7
  <2>9. Repository(actions')
    BY <1>1, <1>4
  <2> QED
    BY <1>1, <1>2, <2>1, <2>2, <2>3, <2>6, <2>8, <2>9, SyncMoves DEF r
<1> QED
  BY <1>5, <1>6

LEMMA PutKeeps ==
  ASSUME SyncInv, NEW p \in Process, Put(p)
  PROVE  SyncInv'
<1> DEFINE r == run[p]
           n == Passed(p)
<1>1. /\ At(p, "put") /\ run' = [run EXCEPT ![p] = n]
      /\ actions' = [actions EXCEPT ![Now(p)] = r.copy[Now(p)]]
      /\ UNCHANGED <<secrets, changes, variables, ids, synced>>
  BY DEF Put, Local
<1>2. /\ p \in Syncing /\ WellFormed(r) /\ Fits(r, variables, ids) /\ r.step = "put"
      /\ Now(p) = NowOf(r)
      /\ r.alone => Undisturbed(r, variables, actions)
  BY <1>1, AtIs
<1>3. r.todo # {} /\ r.service = "github" /\ NowOf(r) \in Name
  BY <1>2, SessionIs DEF WellFormed
<1>4. /\ n \in Session /\ n.service = r.service /\ n.env = r.env /\ n.copy = r.copy
      /\ n.alone = r.alone /\ n.step = "next" /\ n.todo = r.todo \ {Least(r.todo)}
      /\ n.existing = r.existing /\ n.injected = r.injected
  BY <1>2, PassedIs
<1>5. Project(variables, ids) /\ Repository(actions) /\ ids <= ids
  BY DEF SyncInv, Project
<1>6. Repository(actions')
  BY <1>1, <1>2, <1>3, PutRepository
<1> HIDE DEF n, r
<1>7. WellFormed(n) /\ Fits(n, variables, ids)
  BY <1>2, <1>3, <1>4 DEF WellFormed, Fits
<1>8. ASSUME n.alone PROVE Undisturbed(n, variables, actions')
  <2>1. Arrived(r, variables, actions)
    BY <1>2, <1>4, <1>8 DEF Undisturbed
  <2>2. /\ actions'[NowOf(r)] = r.copy[NowOf(r)]
        /\ \A m \in Name : m # NowOf(r) => actions'[m] = actions[m]
    BY <1>1, <1>2, <1>3, <1>5 DEF Repository
  <2>3. Arrived(n, variables, actions')
    BY <1>2, <1>3, <1>4, <2>1, <2>2, ArrivedAdvances
  <2> QED
    BY <1>3, <1>4, <2>3 DEF Undisturbed, Deleted
<1>9. /\ Project(variables', ids') /\ Fits(n, variables', ids') /\ ids <= ids'
      /\ n.alone => Undisturbed(n, variables', actions')
      /\ \A v \in variables' : v \in variables \/ v.id > ids
  BY <1>1, <1>5, <1>7, <1>8
<1> QED
  BY <1>1, <1>2, <1>4, <1>6, <1>7, <1>9, SyncMoves DEF r

LEMMA ReportKeeps ==
  ASSUME SyncInv, NEW p \in Process, Report(p)
  PROVE  SyncInv'
<1>1. /\ At(p, "done") /\ run' = [run EXCEPT ![p] = Nothing]
      /\ UNCHANGED <<secrets, changes, variables, actions, ids, synced>>
  BY DEF Report, Local, Remote
<1>2. p \in Syncing
  BY <1>1, AtIs
<1> QED
  BY <1>1, <1>2, QuietMoves

LEMMA BreaksKeeps ==
  ASSUME SyncInv, NEW p \in Process, Breaks(p)
  PROVE  SyncInv'
<1>1. /\ p \in Syncing /\ run' = [run EXCEPT ![p] = Nothing]
      /\ UNCHANGED <<secrets, changes, variables, actions, ids, synced>>
  BY DEF Breaks, Fails, Ends, Local, Remote
<1> QED
  BY <1>1, QuietMoves

LEMMA AnswerLostKeeps ==
  ASSUME SyncInv, NEW p \in Process, AnswerLost(p)
  PROVE  SyncInv'
<1>1. run' = [run EXCEPT ![p] = Nothing] /\ UNCHANGED <<secrets, changes, synced>>
  BY DEF AnswerLost, Fails, Ends, Local
<1>2. Project(variables, ids) /\ Repository(actions) /\ ids <= ids
  BY DEF SyncInv, Project
<1>3. CASE /\ At(p, "delete") /\ UNCHANGED <<actions, ids>>
           /\ variables' = {v \in variables : v.id # run[p].existing[Now(p)]}
  <2>1. p \in Syncing
    BY <1>3, AtIs
  <2>2. variables' \subseteq variables
    BY <1>3
  <2>3. Project(variables', ids)
    BY <2>2, DeletedProject
  <2>4. Project(variables', ids') /\ Repository(actions') /\ ids <= ids'
        /\ \A v \in variables' : v \in variables \/ v.id > ids
    BY <1>2, <1>3, <2>2, <2>3
  <2> QED
    BY <1>1, <2>1, <2>4, SyncMoves
<1>4. CASE At(p, "post") /\ ~Conflicts(Now(p), Target) /\ Create(p) /\ UNCHANGED actions
  <2>1. p \in Syncing /\ WellFormed(run[p]) /\ run[p].step = "post"
    BY <1>4, AtIs
  <2>2. run[p].todo # {}
    BY <2>1 DEF WellFormed
  <2>3. /\ Project(variables', ids') /\ ids <= ids'
        /\ \A v \in variables' : v \in variables \/ v.id > ids
    BY <1>4, <2>1, <2>2, CreatedProject
  <2>4. Repository(actions')
    BY <1>2, <1>4
  <2> QED
    BY <1>1, <2>1, <2>3, <2>4, SyncMoves
<1>5. CASE /\ At(p, "put") /\ UNCHANGED <<variables, ids>>
           /\ actions' = [actions EXCEPT ![Now(p)] = run[p].copy[Now(p)]]
  <2>1. p \in Syncing /\ WellFormed(run[p]) /\ run[p].step = "put"
    BY <1>5, AtIs
  <2>2. run[p].todo # {}
    BY <2>1 DEF WellFormed
  <2>3. Repository(actions')
    BY <1>5, <2>1, <2>2, PutRepository
  <2>4. Project(variables', ids') /\ ids <= ids'
        /\ \A v \in variables' : v \in variables \/ v.id > ids
    BY <1>2, <1>5
  <2> QED
    BY <1>1, <2>1, <2>3, <2>4, SyncMoves
<1> QED
  BY <1>3, <1>4, <1>5 DEF AnswerLost

\* Nobody syncs who did not: a shell ends, the vault is written.
LEMMA OthersKeep ==
  ASSUME SyncInv, VaultTagged', Busy' \subseteq Busy,
         run' = [q \in Process |-> run'[q]], \A q \in Busy' : run'[q] = run[q],
         UNCHANGED <<variables, actions, ids, synced>>
  PROVE  SyncInv'
<1>1. Syncing' \subseteq Syncing
  BY DEF Syncing
<1>2. Project(variables, ids)' /\ Repository(actions)' /\ (synced \subseteq Environment)'
  BY DEF SyncInv, Project, Repository
<1>3. \A q \in Busy' : WellFormed(run'[q]) /\ Fits(run'[q], variables', ids')
  BY DEF SyncInv
<1>4. Syncing' \subseteq Busy'
  BY DEF Syncing
<1>5. \A q \in Syncing' : run'[q].env \in synced'
  BY <1>1, <1>4 DEF SyncInv
<1>6. \A q \in Syncing' : run'[q].alone =>
        Undisturbed(run'[q], variables', actions') /\ \A o \in Syncing' : o = q
  BY <1>1, <1>4 DEF SyncInv
<1> QED
  BY <1>2, <1>3, <1>5, <1>6 DEF SyncInv

LEMMA ExitKeeps ==
  ASSUME SyncInv, NEW p \in Process, Exit(p)
  PROVE  SyncInv'
<1>1. /\ run' = [q \in Process |-> IF q = p THEN Nothing ELSE run[q]]
      /\ UNCHANGED <<secrets, changes, variables, actions, ids, synced>>
  BY DEF Exit, Local, Remote, SyncInv
<1>2. Busy' \subseteq Busy /\ \A q \in Busy' : run'[q] = run[q]
  BY <1>1 DEF Busy
<1>3. VaultTagged' /\ run' = [q \in Process |-> run'[q]]
  BY <1>1 DEF SyncInv, VaultTagged
<1> QED
  BY <1>1, <1>2, <1>3, OthersKeep

LEMMA VaultKeeps ==
  ASSUME SyncInv, NEW name \in Name,
         DeleteSecret(name) \/ \E env \in Environment : SetSecret(name, env)
  PROVE  SyncInv'
<1>1. UNCHANGED <<run, variables, actions, ids, synced>> /\ changes' = changes + 1
  BY DEF DeleteSecret, SetSecret, Remote
<1>2. VaultTagged
  BY DEF SyncInv
<1>3. changes' \in Nat
  BY <1>1, <1>2 DEF VaultTagged
<1>4. ASSUME DeleteSecret(name) PROVE VaultTagged'
  <2>1. secrets' = [secrets EXCEPT ![name] = Nothing]
    BY <1>4 DEF DeleteSecret
  <2>2. secrets' \in [Name -> Secret \cup {Nothing}]
        /\ \A m \in Name : secrets'[m] = IF m = name THEN Nothing ELSE secrets[m]
    BY <1>2, <2>1 DEF VaultTagged
  <2>3. \A m \in Name : secrets'[m] # Nothing => secrets'[m].tags = {secrets'[m].value.for}
    BY <1>2, <2>2 DEF VaultTagged
  <2> QED
    BY <1>3, <2>2, <2>3, Zenon DEF VaultTagged
<1>5. ASSUME NEW env \in Environment, SetSecret(name, env) PROVE VaultTagged'
  <2> DEFINE new == [value |-> [number |-> changes', for |-> env], tags |-> {env}]
  <2>1. secrets' = [secrets EXCEPT ![name] = new]
    BY <1>5 DEF SetSecret, TagsFor
  <2>2. new \in Secret /\ new.tags = {new.value.for}
    BY <1>3 DEF Secret, Value
  <2> HIDE DEF new
  <2>3. secrets' \in [Name -> Secret \cup {Nothing}]
        /\ \A m \in Name : secrets'[m] = IF m = name THEN new ELSE secrets[m]
    BY <1>2, <2>1, <2>2 DEF VaultTagged
  <2>4. \A m \in Name : secrets'[m] # Nothing => secrets'[m].tags = {secrets'[m].value.for}
    BY <1>2, <2>2, <2>3 DEF VaultTagged
  <2> QED
    BY <1>3, <2>3, <2>4, Zenon DEF VaultTagged
<1>6. VaultTagged'
  BY <1>4, <1>5
<1>7. Busy' = Busy /\ run' = [q \in Process |-> run'[q]]
  BY <1>1 DEF Busy, SyncInv
<1> QED
  BY <1>1, <1>6, <1>7, OthersKeep

\* What an environment has is of that environment.
LEMMA InEnvIs ==
  ASSUME SyncInv, NEW env \in Environment
  PROVE  /\ InEnv(env) \in [Name -> Value \cup {Nothing}]
         /\ \A n \in Name : InEnv(env)[n] # Nothing => InEnv(env)[n].for = env
<1>1. VaultTagged
  BY DEF SyncInv
<1>2. ASSUME NEW n \in Name, InEnv(env)[n] # Nothing
      PROVE  InEnv(env)[n] = secrets[n].value /\ secrets[n] # Nothing /\ env \in secrets[n].tags
  BY <1>2 DEF InEnv
<1>3. ASSUME NEW n \in Name, secrets[n] # Nothing PROVE secrets[n].value \in Value
  <2>1. secrets[n] \in Secret
    BY <1>1, <1>3 DEF VaultTagged
  <2> QED
    BY <2>1 DEF Secret
<1>4. InEnv(env) \in [Name -> Value \cup {Nothing}]
  BY <1>3 DEF InEnv
<1>5. \A n \in Name : InEnv(env)[n] # Nothing => InEnv(env)[n].for = env
  BY <1>1, <1>2 DEF VaultTagged
<1> QED
  BY <1>4, <1>5

LEMMA BeginKeeps ==
  ASSUME SyncInv, NEW p \in Process, NEW service \in {"vercel", "github", "shell"},
         NEW env \in Environment, Begin(p, service, env)
  PROVE  SyncInv'
<1> DEFINE copy == InEnv(env)
           todo == {i \in DOMAIN Order : copy[Order[i]] # Nothing}
           ahead == IF service = "shell" THEN {} ELSE todo
           shown == IF service = "shell" THEN todo ELSE {}
           step == CASE service = "vercel" -> "list" [] service = "github" -> "next"
                     [] service = "shell" -> "shell"
           r == [service |-> service, env |-> env, copy |-> copy, alone |-> Syncing = {},
                 step |-> step, todo |-> ahead, existing |-> [k \in {} |-> 0],
                 injected |-> Injected(copy, shown)]
<1>1. /\ p \notin Busy /\ UNCHANGED <<secrets, changes, variables, actions, ids>>
      /\ run' = [q \in Process |->
           IF q = p THEN r
           ELSE IF q \in Syncing /\ service # "shell" THEN [run[q] EXCEPT !.alone = FALSE]
           ELSE run[q]]
      /\ synced' = IF service # "shell" THEN synced \cup {env} ELSE synced
  BY DEF Begin, Local, Remote
<1>2. /\ copy \in [Name -> Value \cup {Nothing}]
      /\ \A n \in Name : copy[n] # Nothing => copy[n].for = env
  BY InEnvIs
<1> HIDE DEF copy
<1>3. /\ todo \in SUBSET Place /\ ahead \in SUBSET Place /\ shown \in SUBSET Place
      /\ \A i \in todo : copy[Order[i]] # Nothing
      /\ \A i \in Place : copy[Order[i]] # Nothing => i \in todo
      /\ (service # "shell" => ahead = todo) /\ (service = "shell" => ahead = {} /\ shown = todo)
      /\ \A i \in ahead : i \in todo
      /\ \A i \in shown : i \in todo
  BY DEF Place
<1> HIDE DEF todo, ahead, shown
<1>4. /\ Injected(copy, shown) \in Injections
      /\ DOMAIN Injected(copy, shown) = {Sanitized(Order[i]) : i \in shown} \ {PasswordKey}
      /\ \A k \in DOMAIN Injected(copy, shown) :
           \E i \in shown : Sanitized(Order[i]) = k /\ Injected(copy, shown)[k] = copy[Order[i]]
  <2>1. \A i \in shown : copy[Order[i]] # Nothing
    BY <1>3
  <2> HIDE DEF r, step
  <2> QED
    BY <1>2, <1>3, <2>1, InjectedIs
<1>5. /\ step \in Steps /\ (service = "vercel" <=> step = "list")
      /\ (service = "github" <=> step = "next") /\ (service = "shell" <=> step = "shell")
      /\ step \in {"list", "next", "shell"}
  BY DEF Steps
<1>6. [k \in {} |-> 0] \in Maps /\ DOMAIN [k \in {} |-> 0] = {}
  <2>1. [k \in {} |-> 0] \in [{} -> Nat] /\ DOMAIN [k \in {} |-> 0] = {}
    OBVIOUS
  <2> QED
    BY <2>1 DEF Maps
<1>7. /\ r.service = service /\ r.env = env /\ r.copy = copy /\ r.alone = (Syncing = {})
      /\ r.step = step /\ r.todo = ahead /\ r.existing = [k \in {} |-> 0]
      /\ r.injected = Injected(copy, shown)
  OBVIOUS
<1>8. r \in Session
  <2>1. (Syncing = {}) \in BOOLEAN
    OBVIOUS
  <2> HIDE DEF step
  <2> QED
    BY <1>2, <1>3, <1>4, <1>5, <1>6, <2>1 DEF Session, Place
<1> HIDE DEF r, step
<1>9. ASSUME service = "shell" PROVE Shelled(r)
  <2>1. ASSUME NEW n \in Name, copy[n] # Nothing
        PROVE  \/ /\ Sanitized(n) \in DOMAIN Injected(copy, shown)
                  /\ Injected(copy, shown)[Sanitized(n)] = copy[n]
               \/ Sanitized(n) = PasswordKey
               \/ \E m \in Name \ {n} : copy[m] # Nothing /\ Sanitized(m) = Sanitized(n)
    <3> SUFFICES ASSUME Sanitized(n) # PasswordKey
                 PROVE  \/ /\ Sanitized(n) \in DOMAIN Injected(copy, shown)
                           /\ Injected(copy, shown)[Sanitized(n)] = copy[n]
                        \/ \E m \in Name \ {n} : copy[m] # Nothing /\ Sanitized(m) = Sanitized(n)
      OBVIOUS
    <3>1. PICK i \in Place : Order[i] = n
      BY PlaceIs
    <3>2. i \in shown
      BY <1>3, <1>9, <2>1, <3>1
    <3>3. Sanitized(n) \in DOMAIN Injected(copy, shown)
      BY <1>4, <3>1, <3>2
    <3>4. PICK j \in shown : /\ Sanitized(Order[j]) = Sanitized(n)
                             /\ Injected(copy, shown)[Sanitized(n)] = copy[Order[j]]
      BY <1>4, <3>3
    <3>5. Order[j] \in Name /\ copy[Order[j]] # Nothing
      BY <1>3, PlaceIs
    <3> QED
      BY <3>3, <3>4, <3>5
  <2>2. ASSUME NEW k \in DOMAIN Injected(copy, shown)
        PROVE  Injected(copy, shown)[k].for = env
    <3>1. PICK i \in shown : Injected(copy, shown)[k] = copy[Order[i]]
      BY <1>4
    <3>2. Order[i] \in Name /\ copy[Order[i]] # Nothing
      BY <1>3, PlaceIs
    <3> QED
      BY <1>2, <3>1, <3>2
  <2> QED
    BY <1>7, <2>1, <2>2 DEF Shelled
<1>10. WellFormed(r)
  BY <1>2, <1>3, <1>5, <1>6, <1>7, <1>8, <1>9 DEF WellFormed
<1>11. Fits(r, variables, ids)
  BY <1>6, <1>7 DEF Fits
<1>12. ASSUME service # "shell" PROVE Undisturbed(r, variables, actions)
  <2>1. Arrived(r, variables, actions)
    BY <1>3, <1>7, <1>12 DEF Arrived
  <2> QED
    BY <1>5, <1>7, <2>1 DEF Undisturbed, Deleted
<1>13. /\ Busy' \subseteq Busy \cup {p} /\ run'[p] = r /\ run' = [q \in Process |-> run'[q]]
       /\ \A q \in Process : q # p =>
            run'[q] = IF q \in Syncing /\ service # "shell" THEN [run[q] EXCEPT !.alone = FALSE]
                                                              ELSE run[q]
  <2>1. Syncing \subseteq Busy
    BY DEF Syncing
  <2> QED
    BY <1>1, <2>1 DEF Busy
<1>14. ASSUME NEW q \in Busy, q # p
       PROVE  /\ q \in Process /\ WellFormed(run[q]) /\ Fits(run[q], variables, ids)
              /\ run'[q].service = run[q].service /\ run'[q].env = run[q].env
              /\ WellFormed(run'[q]) /\ Fits(run'[q], variables, ids)
              /\ q \in Syncing /\ service # "shell" => ~run'[q].alone
              /\ q \notin Syncing \/ service = "shell" => run'[q] = run[q]
  <2>1. q \in Process /\ WellFormed(run[q]) /\ Fits(run[q], variables, ids)
    BY DEF SyncInv, Busy
  <2>2. CASE q \in Syncing /\ service # "shell"
    <3> DEFINE o == run[q]
               n == [o EXCEPT !.alone = FALSE]
    <3>1. run'[q] = n
      BY <1>13, <1>14, <2>1, <2>2
    <3>2. o \in Session
      BY <2>1 DEF WellFormed
    <3>3. /\ n \in Session /\ n.service = o.service /\ n.env = o.env /\ n.copy = o.copy
          /\ n.alone = FALSE /\ n.step = o.step /\ n.todo = o.todo /\ n.existing = o.existing
          /\ n.injected = o.injected
      BY <3>2 DEF Session
    <3>4. NowOf(n) = NowOf(o)
      BY <3>3 DEF NowOf
    <3> HIDE DEF n
    <3>5. WellFormed(n) /\ Fits(n, variables, ids)
      <4> HIDE DEF o
      <4> QED
        BY <2>1, <3>3, <3>4 DEF WellFormed, Fits, Shelled, o
    <3> QED
      BY <2>1, <2>2, <3>1, <3>3, <3>5
  <2>3. CASE ~(q \in Syncing /\ service # "shell")
    BY <1>13, <1>14, <2>1, <2>3
  <2> QED
    BY <2>2, <2>3
<1>15. \A q \in Busy' : WellFormed(run'[q]) /\ Fits(run'[q], variables', ids')
  BY <1>1, <1>10, <1>11, <1>13, <1>14
<1>16. ASSUME NEW q \in Syncing'
       PROVE  /\ run'[q].env \in synced'
              /\ run'[q].alone => Undisturbed(run'[q], variables', actions')
                                  /\ \A o \in Syncing' : o = q
  <2>1. q \in Busy' /\ run'[q].service # "shell"
    BY <1>16 DEF Syncing
  <2>2. CASE q = p
    <3>1. service # "shell"
      BY <1>7, <1>13, <2>1, <2>2
    <3>2. run'[q].env \in synced'
      BY <1>1, <1>7, <1>13, <2>2, <3>1
    <3>3. ASSUME run'[q].alone PROVE \A o \in Syncing' : o = q
      <4>1. Syncing = {}
        BY <1>7, <1>13, <2>2, <3>3
      <4> SUFFICES ASSUME NEW o \in Syncing', o # p PROVE FALSE
        BY <2>2
      <4>2. o \in Busy /\ o \in Busy' /\ run'[o].service # "shell"
        BY <1>13 DEF Syncing
      <4>3. run[o].service # "shell"
        BY <1>14, <4>2
      <4> QED
        BY <4>1, <4>2, <4>3 DEF Syncing
    <3>4. Undisturbed(run'[q], variables', actions')
      BY <1>1, <1>12, <1>13, <2>2, <3>1
    <3> QED
      BY <3>2, <3>3, <3>4
  <2>3. CASE q # p
    <3>1. q \in Busy /\ q \in Syncing
      BY <1>13, <1>14, <2>1, <2>3 DEF Syncing
    <3>2. run'[q].env \in synced'
      <4>1. run[q].env \in synced
        BY <3>1 DEF SyncInv
      <4>2. synced \subseteq synced'
        BY <1>1
      <4>3. run'[q].env = run[q].env
        BY <1>14, <2>3, <3>1
      <4> QED
        BY <4>1, <4>2, <4>3
    <3>3. ASSUME run'[q].alone
          PROVE  Undisturbed(run'[q], variables', actions') /\ \A o \in Syncing' : o = q
      <4>1. service = "shell" /\ run'[q] = run[q]
        BY <1>14, <2>3, <3>1, <3>3
      <4>2. Undisturbed(run[q], variables, actions) /\ \A o \in Syncing : o = q
        BY <3>1, <3>3, <4>1 DEF SyncInv
      <4>3. ASSUME NEW o \in Syncing' PROVE o \in Syncing
        <5>1. o \in Busy' /\ run'[o].service # "shell"
          BY DEF Syncing
        <5>2. o # p
          BY <1>7, <1>13, <4>1, <5>1
        <5> QED
          BY <1>13, <1>14, <5>1, <5>2 DEF Syncing
      <4> QED
        BY <1>1, <4>1, <4>2, <4>3
    <3> QED
      BY <3>2, <3>3
  <2> QED
    BY <2>2, <2>3
<1>17. VaultTagged' /\ Project(variables, ids)' /\ Repository(actions)' /\ (synced \subseteq Environment)'
  <2>1. VaultTagged'
    BY <1>1 DEF SyncInv, VaultTagged
  <2>2. synced \subseteq synced' /\ synced' \subseteq Environment
    BY <1>1 DEF SyncInv
  <2>3. Project(variables, ids)'
    BY <1>1, <2>2 DEF SyncInv, Project
  <2>4. Repository(actions)'
    BY <1>1, <2>2 DEF SyncInv, Repository
  <2> QED
    BY <2>1, <2>2, <2>3, <2>4
<1> QED
  BY <1>13, <1>15, <1>16, <1>17 DEF SyncInv

LEMMA NextKeeps ==
  SyncInv /\ [Next]_vars => SyncInv'
<1> SUFFICES ASSUME SyncInv, [Next]_vars PROVE SyncInv'
  OBVIOUS
<1>1. CASE UNCHANGED vars
  <2>1. VaultTagged' /\ Busy' = Busy /\ UNCHANGED <<run, variables, actions, ids, synced>>
    BY <1>1 DEF vars, SyncInv, VaultTagged, Busy
  <2>2. run' = [q \in Process |-> run'[q]]
    BY <2>1 DEF SyncInv
  <2> QED
    BY <2>1, <2>2, OthersKeep
<1>2. ASSUME NEW p \in Process, Step(p) PROVE SyncInv'
  BY <1>2, ListKeeps, ChooseKeeps, DeleteKeeps, PostKeeps, PutKeeps, ReportKeeps, BreaksKeeps,
     AnswerLostKeeps, ExitKeeps DEF Step
<1>3. ASSUME NEW p \in Process, NEW service \in {"vercel", "github", "shell"},
             NEW env \in Environment, Begin(p, service, env)
      PROVE  SyncInv'
  BY <1>3, BeginKeeps
<1>4. ASSUME NEW n \in Name, DeleteSecret(n) \/ \E env \in Environment : SetSecret(n, env)
      PROVE  SyncInv'
  BY <1>4, VaultKeeps
<1> QED
  BY <1>1, <1>2, <1>3, <1>4 DEF Next

\* The invariant of every behaviour: whom a sync has met, what it found, and what of it has
\* arrived.
THEOREM SyncAlwaysHolds ==
  Spec => []SyncInv
<1> QED
  BY InitHolds, NextKeeps, PTL DEF Spec

-----------------------------------------------------------------------------
(* What the invariant says of the runs' properties.                        *)

\* main.rs:494, secrets set with --env: no shell and no project ever has a value of an
\* environment that it was not given.
THEOREM EnvironmentsAlwaysApart ==
  Spec => []EnvironmentsApart
<1>1. SyncInv => EnvironmentsApart
  <2> SUFFICES ASSUME SyncInv PROVE EnvironmentsApart
    OBVIOUS
  <2>1. ASSUME NEW p \in Busy, At(p, "shell"), NEW k \in DOMAIN run[p].injected
        PROVE  run[p].injected[k].for = run[p].env
    <3>1. WellFormed(run[p]) /\ run[p].step = "shell"
      BY <2>1 DEF SyncInv, At
    <3> QED
      BY <2>1, <3>1 DEF WellFormed, Shelled
  <2>2. \A n \in Name : actions[n] # Nothing => actions[n].for \in synced
    BY DEF SyncInv, Repository
  <2>3. \A v \in variables : v.value # Nothing => v.value.for \in synced
    BY DEF SyncInv, Project
  <2> QED
    BY <2>1, <2>2, <2>3 DEF EnvironmentsApart
<1> QED
  BY <1>1, SyncAlwaysHolds, PTL

\* error_for_status on the requests of sync_vercel: a sync that met no other is refused
\* only where the first page did not show every variable, or a key has two.
THEOREM OnlyUnseenIsRefused ==
  Spec => []RefusedOnlyUnseen
<1>1. SyncInv => RefusedOnlyUnseen
  <2> SUFFICES ASSUME SyncInv, NEW p \in Busy, At(p, "refused"), run[p].alone
               PROVE  \/ Cardinality(variables) > Page
                      \/ \E v \in Shown(Now(p)) : v.target # Target
    BY DEF RefusedOnlyUnseen
  <2>1. p \in Process
    BY DEF Busy
  <2>2. Undisturbed(run[p], variables, actions) /\ run[p].step = "refused" /\ Now(p) = NowOf(run[p])
    BY <2>1, AtIs
  <2> QED
    BY <2>2 DEF Undisturbed, Unseen, Shown, ShownIn
<1> QED
  BY <1>1, SyncAlwaysHolds, PTL

\* README.md:268-269: "Synced" is printed after the loop over the pairs, so what a sync that
\* met no other reports is there, whatever was cut before it; and a shell has what it says.
THEOREM ReportedIsAlwaysDeployed ==
  Spec => []ReportedIsDeployed
<1>1. SyncInv => ReportedIsDeployed
  <2> SUFFICES ASSUME SyncInv, NEW p \in Busy, At(p, "shell") \/ (At(p, "done") /\ run[p].alone),
                      NEW n \in Name, run[p].copy[n] # Nothing
               PROVE  Reached(p, n)
    BY DEF ReportedIsDeployed
  <2>1. p \in Process /\ WellFormed(run[p])
    BY DEF Busy, SyncInv
  <2>2. CASE At(p, "shell")
    <3>1. run[p].service = "shell" /\ Shelled(run[p])
      BY <2>1, <2>2 DEF WellFormed, At
    <3> QED
      BY <3>1 DEF Shelled, Reached
  <2>3. CASE At(p, "done") /\ run[p].alone
    <3>1. /\ run[p].service \in {"vercel", "github"} /\ run[p].step = "done"
          /\ Undisturbed(run[p], variables, actions)
      BY <2>1, <2>3, AtIs
    <3>2. run[p].todo = {}
      BY <2>1, <3>1 DEF WellFormed
    <3>3. PICK i \in Place : Order[i] = n
      BY PlaceIs
    <3>4. /\ run[p].service = "github" => actions[n] = run[p].copy[n]
          /\ run[p].service = "vercel" => Covers(n, run[p].copy[n], variables)
      BY <3>1, <3>2, <3>3 DEF Undisturbed, Arrived
    <3>5. CASE run[p].service = "github"
      BY <3>4, <3>5 DEF Reached
    <3>6. CASE run[p].service = "vercel"
      BY <3>4, <3>6 DEF Reached, Covers, Shown, ShownIn
    <3> QED
      BY <3>1, <3>5, <3>6
  <2> QED
    BY <2>2, <2>3
<1> QED
  BY <1>1, SyncAlwaysHolds, PTL

-----------------------------------------------------------------------------
(* The variables that are missing.                                         *)

Between == {p \in Busy : At(p, "post") \/ At(p, "refused")}
Owed == {Now(p) : p \in Between}
Missing == {k \in deployed : ShownIn(k, variables) = {}}

\* Of the keys that are missing, each that no sync is about to post was left by one that
\* was cut.
GapInv ==
  /\ broken \in Nat /\ IsFiniteSet(deployed)
  /\ Cardinality(Missing \ Owed) <= broken

\* What a step may do to the missing keys.
LEMMA GapMoves ==
  ASSUME GapInv, IsFiniteSet(deployed'), NEW key,
         \/ /\ \A k \in Missing' : k \notin Owed' => k \in Missing /\ k \notin Owed
            /\ broken' \in {broken, broken + 1}
         \/ /\ \A k \in Missing' : k \notin Owed' => (k \in Missing /\ k \notin Owed) \/ k = key
            /\ broken' = broken + 1
  PROVE  GapInv'
<1> DEFINE M == Missing \ Owed
           N == Missing' \ Owed'
<1>1. M \subseteq deployed /\ N \subseteq deployed'
  BY DEF Missing
<1>2. /\ IsFiniteSet(M) /\ Cardinality(M) \in Nat /\ Cardinality(M) <= broken /\ broken \in Nat
      /\ IsFiniteSet(N) /\ Cardinality(N) \in Nat
  BY <1>1, FS_Subset, FS_CardinalityType DEF GapInv
<1>3. \/ N \subseteq M /\ broken' \in {broken, broken + 1}
      \/ N \subseteq M \cup {key} /\ broken' = broken + 1
  OBVIOUS
<1>4. IsFiniteSet(M \cup {key}) /\ Cardinality(M \cup {key}) <= Cardinality(M) + 1
  <2> HIDE DEF M
  <2>1. IsFiniteSet(M \cup {key})
        /\ Cardinality(M \cup {key}) = IF key \in M THEN Cardinality(M) ELSE Cardinality(M) + 1
    BY <1>2, FS_AddElement
  <2> QED
    BY <1>2, <2>1
<1> HIDE DEF M, N
<1>5. CASE N \subseteq M /\ broken' \in {broken, broken + 1}
  <2>1. Cardinality(N) <= Cardinality(M)
    BY <1>2, <1>5, FS_Subset
  <2>2. Cardinality(N) <= broken' /\ broken' \in Nat
    BY <1>2, <1>5, <2>1
  <2> QED
    BY <2>2 DEF GapInv, N
<1>6. CASE N \subseteq M \cup {key} /\ broken' = broken + 1
  <2>1. Cardinality(N) <= Cardinality(M \cup {key}) /\ Cardinality(M \cup {key}) \in Nat
    BY <1>4, <1>6, FS_Subset, FS_CardinalityType
  <2>2. Cardinality(N) <= broken' /\ broken' \in Nat
    BY <1>2, <1>4, <1>6, <2>1
  <2> QED
    BY <2>2 DEF GapInv, N
<1> QED
  BY <1>3, <1>5, <1>6

\* What the other syncs owe stays so when one moves.
LEMMA OwedStays ==
  ASSUME SyncInv, NEW p \in Process, NEW n, run' = [run EXCEPT ![p] = n]
  PROVE  /\ \A k \in Owed : k \in Owed' \/ (k = Now(p) /\ (At(p, "post") \/ At(p, "refused")))
         /\ n # Nothing /\ n.step \in {"post", "refused"} => NowOf(n) \in Owed'
<1>1. run' = [q \in Process |-> IF q = p THEN n ELSE run[q]]
  BY DEF SyncInv
<1>2. ASSUME NEW q \in Between, q # p PROVE Now(q) \in Owed'
  <2>1. run'[q] = run[q] /\ q \in Process
    BY <1>1, <1>2 DEF Between, Busy
  <2>2. q \in Between' /\ Now(q)' = Now(q)
    BY <2>1 DEF Between, Busy, At, Now
  <2> QED
    BY <2>2 DEF Owed
<1>3. ASSUME n # Nothing, n.step \in {"post", "refused"} PROVE NowOf(n) \in Owed'
  <2>1. run'[p] = n
    BY <1>1
  <2>2. p \in Between' /\ Now(p)' = NowOf(n)
    BY <1>3, <2>1 DEF Between, Busy, At, Now, NowOf
  <2> QED
    BY <2>2 DEF Owed
<1>4. ASSUME NEW k \in Owed
      PROVE  k \in Owed' \/ (k = Now(p) /\ (At(p, "post") \/ At(p, "refused")))
  <2>1. PICK q \in Between : k = Now(q)
    BY DEF Owed
  <2>2. CASE q = p
    BY <2>1, <2>2 DEF Between
  <2>3. CASE q # p
    BY <1>2, <2>1, <2>3
  <2> QED
    BY <2>2, <2>3
<1> QED
  BY <1>3, <1>4

LEMMA InitGaps ==
  Init => GapInv
<1> SUFFICES ASSUME Init PROVE GapInv
  OBVIOUS
<1>1. broken = 0 /\ deployed = {v.key : v \in variables} /\ IsFiniteSet(variables)
  BY BeforeAssumption DEF Init
<1>2. IsFiniteSet(deployed)
  <2> DEFINE f == [v \in variables |-> v.key]
  <2>1. f \in Surjection(variables, deployed)
    BY <1>1 DEF Surjection
  <2> QED
    BY <1>1, <2>1, FS_Surjection
<1>3. Missing = {}
  BY <1>1 DEF Missing, ShownIn
<1>4. Cardinality(Missing \ Owed) = 0
  <2>1. Missing \ Owed = {}
    BY <1>3
  <2> QED
    BY <2>1, FS_EmptySet
<1> QED
  BY <1>1, <1>2, <1>4 DEF GapInv

\* A step of a sync that sends nothing and does not end it.
LEMMA QuietGaps ==
  ASSUME SyncInv, GapInv, NEW p \in Process, NEW n, run' = [run EXCEPT ![p] = n],
         UNCHANGED <<variables, deployed, broken>>,
         At(p, "post") \/ At(p, "refused") =>
           n # Nothing /\ n.step \in {"post", "refused"} /\ NowOf(n) = Now(p)
  PROVE  GapInv'
<1>1. \A k \in Owed : k \in Owed'
  BY OwedStays
<1>2. Missing' = Missing /\ IsFiniteSet(deployed')
  BY DEF Missing, GapInv
<1> QED
  BY <1>1, <1>2, GapMoves

\* A variable of the key of a sync is there.
LEMMA PostedGaps ==
  ASSUME SyncInv, GapInv, NEW p \in Syncing, run[p].todo # {}, NEW n,
         run' = [run EXCEPT ![p] = n], ~Conflicts(Now(p), Target), Create(p),
         broken' \in {broken, broken + 1}
  PROVE  GapInv'
<1>1. p \in Process
  BY DEF Syncing, Busy
<1>2. /\ variables \subseteq variables' /\ deployed' = deployed \cup {Now(p)}
      /\ \E v \in variables' : v.key = Now(p)
  <2> DEFINE new == [id |-> ids + 1, key |-> Now(p), value |-> run[p].copy[Now(p)],
                     target |-> Target]
  <2>1. variables' = variables \cup {new} /\ deployed' = deployed \cup {Now(p)}
    BY DEF Create
  <2>2. new.key = Now(p)
    OBVIOUS
  <2> HIDE DEF new
  <2> QED
    BY <2>1, <2>2
<1>3. IsFiniteSet(deployed')
  BY <1>2, FS_AddElement DEF GapInv
<1>4. \A k \in Missing' : k \in Missing /\ k # Now(p)
  BY <1>2 DEF Missing, ShownIn
<1>5. \A k \in Owed : k \in Owed' \/ k = Now(p)
  BY <1>1, OwedStays
<1> QED
  BY <1>3, <1>4, <1>5, GapMoves

\* The variable of the key of a sync is gone.
LEMMA DeletedMissing ==
  ASSUME SyncInv, NEW p \in Process, At(p, "delete"), deployed' = deployed,
         variables' = {v \in variables : v.id # run[p].existing[Now(p)]}
  PROVE  \A k \in Missing' : k \in Missing \/ k = Now(p)
<1>1. Fits(run[p], variables, ids) /\ WellFormed(run[p]) /\ Now(p) = NowOf(run[p])
      /\ run[p].step = "delete"
  BY AtIs
<1>2. \A v \in variables : v \notin variables' => v.key = Now(p)
  BY <1>1 DEF Fits, WellFormed
<1> QED
  BY <1>2 DEF Missing, ShownIn

LEMMA DeleteGaps ==
  ASSUME SyncInv, GapInv, NEW p \in Process, Delete(p)
  PROVE  GapInv'
<1> DEFINE r == run[p]
           step == IF {v \in variables : v.id = r.existing[Now(p)]} = {} THEN "refused" ELSE "post"
           n == [r EXCEPT !.step = step]
<1>1. /\ At(p, "delete") /\ run' = [run EXCEPT ![p] = n] /\ UNCHANGED <<deployed, broken>>
      /\ variables' = {v \in variables : v.id # r.existing[Now(p)]}
  BY DEF Delete, Goto
<1>2. WellFormed(r) /\ Now(p) = NowOf(r)
  BY <1>1, AtIs
<1>3. n \in Session /\ n.step \in {"post", "refused"} /\ n.todo = r.todo
  <2>1. step \in Steps /\ step \in {"post", "refused"}
    BY DEF Steps
  <2> HIDE DEF step
  <2> QED
    BY <1>2, <2>1, StepIs
<1> HIDE DEF n
<1>4. NowOf(n) = Now(p) /\ n # Nothing
  BY <1>2, <1>3, SessionAssumption DEF NowOf
<1>5. \A k \in Missing' : k \in Missing \/ k = Now(p)
  BY <1>1, DeletedMissing
<1>6. ~At(p, "post") /\ ~At(p, "refused")
  BY <1>1 DEF At
<1>7. Now(p) \in Owed' /\ \A k \in Owed : k \in Owed'
  BY <1>1, <1>3, <1>4, <1>6, OwedStays
<1>8. IsFiniteSet(deployed')
  BY <1>1 DEF GapInv
<1> QED
  BY <1>1, <1>5, <1>7, <1>8, GapMoves

LEMMA PostGaps ==
  ASSUME SyncInv, GapInv, NEW p \in Process, Post(p)
  PROVE  GapInv'
<1> DEFINE r == run[p]
<1>1. /\ At(p, "post") /\ UNCHANGED broken
      /\ \/ Conflicts(Now(p), Target) /\ UNCHANGED <<variables, deployed>>
         \/ ~Conflicts(Now(p), Target) /\ Create(p)
      /\ Posted(p, Conflicts(Now(p), Target))
  BY DEF Post
<1>2. p \in Syncing /\ WellFormed(r) /\ r.step = "post" /\ Now(p) = NowOf(r)
  BY <1>1, AtIs
<1>3. CASE Conflicts(Now(p), Target)
  <2> DEFINE n == [r EXCEPT !.step = "refused"]
  <2>1. run' = [run EXCEPT ![p] = n] /\ UNCHANGED <<variables, deployed, broken>>
    BY <1>1, <1>3 DEF Posted, Goto
  <2>2. n \in Session /\ n.step = "refused" /\ n.todo = r.todo
    BY <1>2, StepIs DEF Steps
  <2> HIDE DEF n
  <2>3. n # Nothing /\ NowOf(n) = Now(p)
    BY <1>2, <2>2, SessionAssumption DEF NowOf
  <2> QED
    BY <2>1, <2>2, <2>3, QuietGaps
<1>4. CASE ~Conflicts(Now(p), Target)
  <2>1. run' = [run EXCEPT ![p] = Passed(p)] /\ Create(p)
    BY <1>1, <1>4 DEF Posted
  <2>2. run[p].todo # {}
    BY <1>2 DEF WellFormed
  <2> QED
    BY <1>1, <1>2, <1>4, <2>1, <2>2, PostedGaps
<1> QED
  BY <1>3, <1>4

\* A sync ends early.
LEMMA CutGaps ==
  ASSUME SyncInv, GapInv, NEW p \in Process, run' = [run EXCEPT ![p] = Nothing],
         deployed' = deployed, broken' = broken + 1,
         \A k \in Missing' : k \in Missing \/ (k = Now(p) /\ At(p, "delete"))
  PROVE  GapInv'
<1>1. \A k \in Owed : k \in Owed' \/ k = Now(p)
  BY OwedStays
<1>2. IsFiniteSet(deployed')
  BY DEF GapInv
<1> QED
  BY <1>1, <1>2, GapMoves

LEMMA AnswerLostGaps ==
  ASSUME SyncInv, GapInv, NEW p \in Process, AnswerLost(p)
  PROVE  GapInv'
<1>1. run' = [run EXCEPT ![p] = Nothing] /\ broken' = broken + 1
  BY DEF AnswerLost, Fails, Ends
<1>2. CASE /\ At(p, "delete") /\ UNCHANGED deployed
           /\ variables' = {v \in variables : v.id # run[p].existing[Now(p)]}
  <2>1. \A k \in Missing' : k \in Missing \/ k = Now(p)
    BY <1>2, DeletedMissing
  <2> QED
    BY <1>1, <1>2, <2>1, CutGaps
<1>3. CASE At(p, "post") /\ ~Conflicts(Now(p), Target) /\ Create(p)
  <2>1. p \in Syncing /\ WellFormed(run[p]) /\ run[p].step = "post"
    BY <1>3, AtIs
  <2>2. run[p].todo # {}
    BY <2>1 DEF WellFormed
  <2> QED
    BY <1>1, <1>3, <2>1, <2>2, PostedGaps
<1>4. CASE UNCHANGED <<variables, deployed>>
  <2>1. Missing' = Missing
    BY <1>4 DEF Missing
  <2> QED
    BY <1>1, <1>4, <2>1, CutGaps
<1> QED
  BY <1>2, <1>3, <1>4 DEF AnswerLost

LEMMA BeginGaps ==
  ASSUME SyncInv, GapInv, NEW p \in Process, NEW service, NEW env, Begin(p, service, env)
  PROVE  GapInv'
<1>1. /\ p \notin Busy /\ UNCHANGED <<variables, deployed, broken>>
      /\ \A q \in Process : q # p =>
           run'[q] = run[q] \/ (q \in Syncing /\ run'[q] = [run[q] EXCEPT !.alone = FALSE])
  BY DEF Begin, Remote
<1>2. ASSUME NEW q \in Between PROVE Now(q) \in Owed'
  <2>1. q \in Process /\ q \in Busy /\ q # p /\ WellFormed(run[q])
    BY <1>1 DEF Between, Busy, SyncInv
  <2>2. run'[q] # Nothing /\ run'[q].step = run[q].step /\ run'[q].todo = run[q].todo
    <3>1. CASE run'[q] = run[q]
      BY <2>1, <3>1 DEF Busy
    <3>2. CASE run'[q] = [run[q] EXCEPT !.alone = FALSE]
      <4>1. run[q] \in Session
        BY <2>1 DEF WellFormed
      <4>2. run'[q] \in Session /\ run'[q].step = run[q].step /\ run'[q].todo = run[q].todo
        BY <3>2, <4>1 DEF Session
      <4> QED
        BY <4>2, SessionAssumption
    <3> QED
      BY <1>1, <2>1, <3>1, <3>2
  <2>3. q \in Between' /\ Now(q)' = Now(q)
    BY <2>1, <2>2 DEF Between, Busy, At, Now
  <2> QED
    BY <2>3 DEF Owed
<1>3. \A k \in Owed : k \in Owed'
  BY <1>2 DEF Owed
<1>4. Missing' = Missing /\ IsFiniteSet(deployed')
  BY <1>1 DEF Missing, GapInv
<1> QED
  BY <1>1, <1>3, <1>4, GapMoves

LEMMA NextGaps ==
  SyncInv /\ GapInv /\ [Next]_vars => GapInv'
<1> SUFFICES ASSUME SyncInv, GapInv, [Next]_vars PROVE GapInv'
  OBVIOUS
<1>1. ASSUME UNCHANGED <<run, variables, deployed, broken>> PROVE GapInv'
  <2>1. Owed' = Owed
    BY <1>1 DEF Owed, Between, Busy, At, Now
  <2>2. Missing' = Missing
    BY <1>1 DEF Missing
  <2> QED
    BY <1>1, <2>1, <2>2 DEF GapInv
<1>2. ASSUME NEW p \in Process, List(p) PROVE GapInv'
  <2>1. At(p, "list") /\ UNCHANGED <<variables, deployed, broken>>
        /\ \E n : run' = [run EXCEPT ![p] = n]
    BY <1>2 DEF List, Remote
  <2> QED
    BY <2>1, QuietGaps DEF At
<1>3. ASSUME NEW p \in Process, Choose(p) PROVE GapInv'
  <2>1. At(p, "next") /\ UNCHANGED <<variables, deployed, broken>>
        /\ \E n : run' = [run EXCEPT ![p] = n]
    BY <1>3 DEF Choose, Goto, Remote
  <2> QED
    BY <2>1, QuietGaps DEF At
<1>4. ASSUME NEW p \in Process, Put(p) PROVE GapInv'
  <2>1. At(p, "put") /\ UNCHANGED <<variables, deployed, broken>>
        /\ run' = [run EXCEPT ![p] = Passed(p)]
    BY <1>4 DEF Put
  <2> QED
    BY <2>1, QuietGaps DEF At
<1>5. ASSUME NEW p \in Process, Report(p) \/ Exit(p) PROVE GapInv'
  <2>1. (At(p, "done") \/ At(p, "shell")) /\ UNCHANGED <<variables, deployed, broken>>
        /\ run' = [run EXCEPT ![p] = Nothing]
    BY <1>5 DEF Report, Exit, Remote
  <2> QED
    BY <2>1, QuietGaps DEF At
<1>6. ASSUME NEW p \in Process, Breaks(p) PROVE GapInv'
  <2>1. /\ run' = [run EXCEPT ![p] = Nothing] /\ UNCHANGED <<variables, deployed>>
        /\ broken' = broken + 1
    BY <1>6 DEF Breaks, Fails, Ends, Remote
  <2>2. Missing' = Missing
    BY <2>1 DEF Missing
  <2> QED
    BY <2>1, <2>2, CutGaps
<1>7. ASSUME NEW p \in Process, Step(p) PROVE GapInv'
  BY <1>2, <1>3, <1>4, <1>5, <1>6, <1>7, DeleteGaps, PostGaps, AnswerLostGaps DEF Step
<1>8. ASSUME NEW n \in Name, DeleteSecret(n) \/ \E env \in Environment : SetSecret(n, env)
      PROVE  GapInv'
  BY <1>1, <1>8 DEF DeleteSecret, SetSecret, Remote
<1> QED
  BY <1>1, <1>7, <1>8, BeginGaps DEF Next, vars

\* sync_vercel deletes and posts: what the project has had and has no more was left by a
\* sync that was cut between the two, or will be posted.
THEOREM GapsAreAlwaysCounted ==
  Spec => []GapsAreCounted
<1>1. Spec => [](SyncInv /\ GapInv)
  <2>1. SyncInv /\ GapInv /\ [Next]_vars => (SyncInv /\ GapInv)'
    BY NextKeeps, NextGaps
  <2> QED
    BY InitHolds, InitGaps, <2>1, PTL DEF Spec
<1>2. SyncInv /\ GapInv => GapsAreCounted
  <2> SUFFICES ASSUME SyncInv, GapInv PROVE GapsAreCounted
    OBVIOUS
  <2>1. IsFiniteSet(Between) /\ IsFiniteSet(Missing)
    BY FS_Subset, SyncAssumption DEF Between, Busy, Missing, GapInv
  <2>2. IsFiniteSet(Owed) /\ Cardinality(Owed) <= Cardinality(Between)
    <3> DEFINE f == [p \in Between |-> Now(p)]
    <3>1. f \in Surjection(Between, Owed)
      BY DEF Surjection, Owed
    <3> QED
      BY <2>1, <3>1, FS_Surjection
  <2>3. /\ Cardinality(Missing \ Owed) = Cardinality(Missing) - Cardinality(Missing \cap Owed)
        /\ Cardinality(Missing \cap Owed) <= Cardinality(Owed)
    BY <2>1, <2>2, FS_Difference, FS_Intersection
  <2>4. /\ Cardinality(Missing) \in Nat /\ Cardinality(Owed) \in Nat /\ Cardinality(Between) \in Nat
        /\ Cardinality(Missing \cap Owed) \in Nat
    BY <2>1, <2>2, FS_CardinalityType, FS_Intersection
  <2>5. Cardinality(Missing) <= broken + Cardinality(Between)
    BY <2>2, <2>3, <2>4 DEF GapInv
  <2>6. Missing = {k \in deployed : Shown(k) = {}}
    BY DEF Missing, Shown, ShownIn
  <2> QED
    BY <2>5, <2>6 DEF GapsAreCounted, Between
<1> QED
  BY <1>1, <1>2, PTL
=============================================================================
