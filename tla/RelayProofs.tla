---------------------------- MODULE RelayProofs -----------------------------
(***************************************************************************)
(* Theorems about Relay, for every number of relays, arrivals,             *)
(* capabilities and instants.                                              *)
(***************************************************************************)
EXTENDS Relay, FiniteSetTheorems, TLAPS

\* Every variable keeps its type, and a store's lock is held exactly by the
\* arrival that is about to write it.
THEOREM TypeCorrect == Spec => []TypeOK
<1> USE ConstantsAssumption, DistinctAssumption
<1>1. Init => TypeOK
  BY SMTT(30) DEF Init, TypeOK, Time, Vault, ReplayMap, UsageMap, Step, Final, At
<1>2. TypeOK /\ [Next]_vars => TypeOK'
  <2> SUFFICES ASSUME TypeOK, [Next]_vars PROVE TypeOK'
    OBVIOUS
  <2> USE DEF clock, process, replays, usages, operator, At, Goto, Refuse,
             CapOf, NeedsProof
  <2>1. ASSUME NEW r \in Req, Admit(r) PROVE TypeOK'
    <3>1. CASE Goto(r, "enforce") /\ opened' = opened \cup {r} /\ UNCHANGED audit
      <4>1. NeedsProof(CapOf(r)) => job[r].proof \in ProofSet
        BY <2>1 DEF Admit, Admissible, ProofValid, TypeOK, OfferSet
      <4> QED
        BY <2>1, <3>1, <4>1, SMTT(30) DEF Admit, TypeOK, Step, Final
    <3>2. CASE Refuse(r, audit) /\ UNCHANGED opened
      BY <2>1, <3>2, SMTT(30) DEF Admit, TypeOK, Step, Final
    <3> QED
      BY <2>1, <3>1, <3>2 DEF Admit
  <2>2. ASSUME NEW r \in Req, AdmitFails(r) PROVE TypeOK'
    BY <2>2, SMTT(30) DEF AdmitFails, TypeOK, Step, Final
  <2>3. ASSUME NEW r \in Req, Enforce(r) PROVE TypeOK'
    BY <2>3, SMTT(30) DEF Enforce, TypeOK, Step, Final
  <2>4. ASSUME NEW r \in Req, Resolve(r) PROVE TypeOK'
    BY <2>4, SMTT(30) DEF Resolve, TypeOK, Step, Final
  <2>5. ASSUME NEW r \in Req, OpenReplay(r) PROVE TypeOK'
    <3>1. ReplayKeyOf(r) \in ReplayKey /\ job[r] \in Offer
      BY <2>5 DEF OpenReplay, TypeOK, ReplayKeyOf, ReplayKey, CapOf, ProofSet,
                  OfferSet
    <3>2. CASE Replayed(r)
      BY <2>5, <3>2, SMTT(30) DEF OpenReplay, TypeOK, Step, Final, CapOf
    <3>3. CASE ~Replayed(r)
      <4>1. Prune(replayFile) \cup {ReplayKeyOf(r)} \in ReplayMap
        BY <3>1, <3>3 DEF Replayed, Prune, TypeOK, ReplayMap
      <4>2. \A s \in Req : /\ pc'[s] = "writeReplay" <=> replayLock' = s
                           /\ pc'[s] = "writeUsage" <=> usageLock' = s
        BY <2>5, <3>3 DEF OpenReplay, TypeOK, CanLock
      <4>3. /\ replayDraft' \in [Req -> {Nothing} \cup ReplayMap]
            /\ \A s \in Req : pc'[s] = "writeReplay" => replayDraft'[s] \in ReplayMap
        <5> DEFINE kept == Prune(replayFile) \cup {ReplayKeyOf(r)}
        <5>1. replayDraft' = [replayDraft EXCEPT ![r] = kept] /\ kept \in ReplayMap
          BY <2>5, <3>3, <4>1 DEF OpenReplay
        <5>2. \A s \in Req : pc'[s] = "writeReplay" => s = r \/ pc[s] = "writeReplay"
          BY <2>5, <3>3 DEF OpenReplay, TypeOK
        <5> HIDE DEF kept
        <5> QED
          BY <5>1, <5>2 DEF TypeOK
      <4> QED
        BY <2>5, <3>3, <4>2, <4>3, SMTT(30)
        DEF OpenReplay, TypeOK, Step, Final
    <3> QED
      BY <3>2, <3>3
  <2>6. ASSUME NEW r \in Req, WriteReplay(r) PROVE TypeOK'
    BY <2>6, SMTT(30) DEF WriteReplay, TypeOK, Step, Final
  <2>7. ASSUME NEW r \in Req, WriteReplayFails(r) PROVE TypeOK'
    BY <2>7, SMTT(30) DEF WriteReplayFails, TypeOK, Step, Final
  <2>8. ASSUME NEW r \in Req, OpenUsage(r) PROVE TypeOK'
    <3>1. CASE Exhausted(CapOf(r))
      BY <2>8, <3>1, SMTT(30) DEF OpenUsage, TypeOK, Step, Final, CapOf
    <3>2. CASE ~Exhausted(CapOf(r))
      <4> DEFINE next == [ReadUsage EXCEPT ![CapOf(r)] = @ + 1]
      <4>1. next \in UsageMap
        <5>1. usageFile \in UsageMap /\ CapOf(r) \in Cap
          BY <2>8, <3>2 DEF OpenUsage, Exhausted, ReadUsage, TypeOK, OfferSet
        <5> QED
          BY <5>1 DEF ReadUsage, UsageMap
      <4>2. \A s \in Req : /\ pc'[s] = "writeReplay" <=> replayLock' = s
                           /\ pc'[s] = "writeUsage" <=> usageLock' = s
        BY <2>8, <3>2 DEF OpenUsage, TypeOK, CanLock
      <4>3. /\ usageDraft' \in [Req -> {Nothing} \cup UsageMap]
            /\ \A s \in Req : pc'[s] = "writeUsage" => usageDraft'[s] \in UsageMap
        <5>1. usageDraft' = [usageDraft EXCEPT ![r] = next]
          BY <2>8, <3>2 DEF OpenUsage
        <5>2. \A s \in Req : pc'[s] = "writeUsage" => s = r \/ pc[s] = "writeUsage"
          BY <2>8, <3>2 DEF OpenUsage, TypeOK
        <5> HIDE DEF next
        <5> QED
          BY <4>1, <5>1, <5>2 DEF TypeOK
      <4> QED
        BY <2>8, <3>2, <4>2, <4>3, SMTT(30)
        DEF OpenUsage, TypeOK, Step, Final
    <3> QED
      BY <3>1, <3>2
  <2>9. ASSUME NEW r \in Req, WriteUsage(r) PROVE TypeOK'
    BY <2>9, SMTT(30) DEF WriteUsage, TypeOK, Step, Final
  <2>10. ASSUME NEW r \in Req, WriteUsageFails(r) PROVE TypeOK'
    BY <2>10, SMTT(30) DEF WriteUsageFails, TypeOK, Step, Final
  <2>11. ASSUME NEW r \in Req, AuditRequest(r) PROVE TypeOK'
    BY <2>11, SMTT(30) DEF AuditRequest, TypeOK, Step, Final
  <2>12. ASSUME NEW r \in Req, Send(r) PROVE TypeOK'
    BY <2>12, SMTT(30) DEF Send, TypeOK, Step, Final
  <2>13. ASSUME NEW r \in Req, Await(r) PROVE TypeOK'
    BY <2>13, SMTT(30) DEF Await, TypeOK, Step, Final
  <2>14. ASSUME NEW r \in Req, Finish(r) PROVE TypeOK'
    BY <2>14, SMTT(30) DEF Finish, TypeOK, Step, Final
  <2>15. ASSUME NEW r \in Req, Cancel(r) PROVE TypeOK'
    BY <2>15, SMTT(30) DEF Cancel, TypeOK, Step, Final, Awaiting
  <2>16. ASSUME NEW r \in Req, NEW p \in Relay, NEW o \in Offer, Receive(r, p, o)
         PROVE TypeOK'
    BY <2>16, SMTT(30) DEF Receive, TypeOK, Step, Final
  <2>17. ASSUME NEW p \in Relay, Start(p) PROVE TypeOK'
    BY <2>17, SMTT(30) DEF Start, TypeOK, Step, Final
  <2>18. ASSUME NEW p \in Relay, Crash(p) PROVE TypeOK'
    <3>1. pc' \in [Req -> Step \cup Final]
      BY <2>18 DEF Crash, TypeOK, Final
    <3>2. /\ replayFile' \in {Torn} \cup ReplayMap /\ replayLock' \in {Free} \cup Req
          /\ usageFile' \in {Torn} \cup UsageMap /\ usageLock' \in {Free} \cup Req
      BY <2>18 DEF Crash, TypeOK
    <3>3. \A r \in Req : /\ pc'[r] = "writeReplay" <=> replayLock' = r
                         /\ pc'[r] = "writeUsage" <=> usageLock' = r
      BY <2>18, SMTT(30) DEF Crash, Dies, TypeOK, Final
    <3>4. /\ replayDraft' \in [Req -> {Nothing} \cup ReplayMap]
          /\ usageDraft' \in [Req -> {Nothing} \cup UsageMap]
      BY <2>18 DEF Crash, TypeOK
    <3>5. \A r \in Req : pc'[r] # "gone" =>
             /\ pc'[r] = pc[r]
             /\ replayDraft'[r] = replayDraft[r] /\ usageDraft'[r] = usageDraft[r]
      BY <2>18 DEF Crash, TypeOK
    <3>6. \A r \in Req : pc'[r] = "gone" => pc[r] # "new"
      BY <2>18 DEF Crash, Dies, TypeOK
    <3> QED
      <4>1. \A r \in Req :
              /\ pc'[r] = "writeReplay" => replayDraft'[r] \in ReplayMap
              /\ pc'[r] = "writeUsage" => usageDraft'[r] \in UsageMap
        BY <3>5 DEF TypeOK
      <4>2. \A r \in Req : pc'[r] # "new" =>
              via[r] \in Relay /\ loaded[via[r]] \in Vault /\ job[r] \in Offer
        BY <2>18, <3>5, <3>6 DEF Crash, TypeOK
      <4>3. \A r \in Req :
              \/ pc'[r] = "openReplay"
              \/ pc'[r] \in {"enforce", "resolve"} /\ NeedsProof(CapOf(r))
              => job[r].proof \in ProofSet
        BY <3>5 DEF TypeOK
      <4> QED
        BY <2>18, <3>1, <3>2, <3>3, <3>4, <4>1, <4>2, <4>3, SMTT(30)
        DEF Crash, TypeOK
  <2>19. ASSUME NEW cmd \in Command, CliOpen(cmd) PROVE TypeOK'
    <3>1. Apply(cmd, vaultFile) \in Vault /\ Saves(cmd) \in 1..2
      BY DEF TypeOK, Apply, Saves, CommandSet, Vault
    <3> QED
      BY <2>19, <3>1, SMTT(30) DEF CliOpen, TypeOK, Session
  <2>20. CASE CliSave
    BY <2>20, SMTT(30) DEF CliSave, TypeOK, Session
  <2>21. CASE Tick
    BY <2>21, SMTT(30) DEF Tick, TypeOK, Time
  <2>22. CASE UNCHANGED vars
    BY <2>22, SMTT(30) DEF vars, TypeOK
  <2>23. CASE CliStops
    BY <2>23, SMTT(30) DEF CliStops, TypeOK
  <2>24. CASE SetBack
    BY <2>24, SMTT(30) DEF SetBack, TypeOK, Time
  <2> QED
    BY <2>1, <2>2, <2>3, <2>4, <2>5, <2>6, <2>7, <2>8, <2>9, <2>10, <2>11,
       <2>12, <2>13, <2>14, <2>15, <2>16, <2>17, <2>18, <2>19, <2>20, <2>21,
       <2>22, <2>23, <2>24 DEF Next, Handler
<1> QED
  BY <1>1, <1>2, PTL DEF Spec

-----------------------------------------------------------------------------
\* A step that grants nothing keeps BudgetInv: the grants and what they were
\* made for stay, the counters stay or become unreadable, and a handler about
\* to write has a draft made from the current counters.
LEMMA GrantingNothing ==
  ASSUME TypeOK, BudgetInv, charged' = charged,
         \A r \in charged : job'[r] = job[r] /\ pc'[r] \in Charging \cup Final,
         \A r \in Req : pc'[r] \in Charging => r \in charged,
         Sent' \subseteq charged,
         \A r \in Sent' : pc'[r] \in {"await", "finish"} \cup Final,
         usageFile' \in {usageFile, Torn},
         \A r \in Req : pc'[r] = "writeUsage" =>
           /\ usageFile' # Torn
           /\ usageDraft'[r] = [usageFile' EXCEPT ![CapOf(r)'] = @ + 1]
           /\ Claims[CapOf(r)'].maxUses # NoLimit =>
                usageFile'[CapOf(r)'] < Claims[CapOf(r)'].maxUses
  PROVE  BudgetInv'
<1>1. \A c : ChargedTo(c)' = ChargedTo(c)
  BY DEF ChargedTo, CapOf
<1>2. StoreCountsUses'
  BY <1>1 DEF StoreCountsUses, BudgetInv
<1>3. \A c \in Cap : Claims[c].maxUses # NoLimit =>
        Cardinality(ChargedTo(c)') <= Claims[c].maxUses
  BY <1>1 DEF BudgetInv
<1> QED
  BY <1>2, <1>3 DEF BudgetInv, At

\* The counters in usage-store.json are exactly the uses granted, and a use is
\* granted before its request is sent, in every reachable state.
THEOREM BudgetInvariant == Spec => []BudgetInv
<1> USE ConstantsAssumption, DistinctAssumption
<1>1. Init => BudgetInv
  <2> SUFFICES ASSUME Init PROVE BudgetInv
    OBVIOUS
  <2>1. charged = {} /\ Sent = {} /\ \A c : ChargedTo(c) = {}
    BY DEF Init, Sent, ChargedTo
  <2>2. \A c \in Cap : Cardinality(ChargedTo(c)) = 0
    BY <2>1, FS_EmptySet
  <2>3. StoreCountsUses
    BY <2>2 DEF Init, StoreCountsUses
  <2>4. \A c \in Cap : Claims[c].maxUses # NoLimit =>
          Cardinality(ChargedTo(c)) <= Claims[c].maxUses
    <3> TAKE c \in Cap
    <3>1. Claims[c].maxUses \in Nat \cup {NoLimit}
      BY DEF ClaimSet
    <3> QED
      BY <2>2, <3>1
  <2> QED
    BY <2>1, <2>3, <2>4 DEF Init, BudgetInv, At, Charging
<1>2. TypeOK /\ BudgetInv /\ [Next]_vars => BudgetInv'
  <2> SUFFICES ASSUME TypeOK, BudgetInv, [Next]_vars PROVE BudgetInv'
    OBVIOUS
  <2> USE DEF clock, process, replays, usages, operator, At, Goto, Refuse, CapOf,
              Charging, Final
  <2>1. ASSUME NEW r \in Req, Admit(r) PROVE BudgetInv'
    BY <2>1, GrantingNothing, SMTT(30) DEF Admit, TypeOK, BudgetInv, Sent
  <2>2. ASSUME NEW r \in Req, AdmitFails(r) PROVE BudgetInv'
    BY <2>2, GrantingNothing, SMTT(30) DEF AdmitFails, TypeOK, BudgetInv, Sent
  <2>3. ASSUME NEW r \in Req, Enforce(r) PROVE BudgetInv'
    BY <2>3, GrantingNothing, SMTT(30) DEF Enforce, TypeOK, BudgetInv, Sent
  <2>4. ASSUME NEW r \in Req, Resolve(r) PROVE BudgetInv'
    BY <2>4, GrantingNothing, SMTT(30) DEF Resolve, TypeOK, BudgetInv, Sent
  <2>5. ASSUME NEW r \in Req, OpenReplay(r) PROVE BudgetInv'
    BY <2>5, GrantingNothing, SMTT(30) DEF OpenReplay, TypeOK, BudgetInv, Sent, CanLock
  <2>6. ASSUME NEW r \in Req, WriteReplay(r) PROVE BudgetInv'
    BY <2>6, GrantingNothing, SMTT(30) DEF WriteReplay, TypeOK, BudgetInv, Sent
  <2>7. ASSUME NEW r \in Req, WriteReplayFails(r) PROVE BudgetInv'
    BY <2>7, GrantingNothing, SMTT(30) DEF WriteReplayFails, TypeOK, BudgetInv, Sent
  <2>8. ASSUME NEW r \in Req, AuditRequest(r) PROVE BudgetInv'
    BY <2>8, GrantingNothing, SMTT(30) DEF AuditRequest, TypeOK, BudgetInv, Sent
  <2>9. ASSUME NEW r \in Req, Await(r) PROVE BudgetInv'
    BY <2>9, GrantingNothing, SMTT(30) DEF Await, TypeOK, BudgetInv, Sent
  <2>10. ASSUME NEW r \in Req, Finish(r) PROVE BudgetInv'
    BY <2>10, GrantingNothing, SMTT(30) DEF Finish, TypeOK, BudgetInv, Sent
  <2>11. ASSUME NEW r \in Req, OpenUsage(r) PROVE BudgetInv'
    <3>1. CASE Exhausted(CapOf(r))
      BY <2>11, <3>1, GrantingNothing, SMTT(30) DEF OpenUsage, TypeOK, BudgetInv, Sent
    <3>2. CASE ~Exhausted(CapOf(r))
      <4>1. usageFile \in UsageMap /\ usageFile # Torn /\ CapOf(r) \in Cap
        BY <2>11, <3>2 DEF OpenUsage, Exhausted, ReadUsage, TypeOK, OfferSet
      <4>2. Claims[CapOf(r)].maxUses # NoLimit =>
              usageFile[CapOf(r)] < Claims[CapOf(r)].maxUses
        BY <3>2, <4>1 DEF Exhausted, ReadUsage, ClaimSet, UsageMap
      <4>3. /\ usageFile' = usageFile /\ job' = job /\ charged' = charged
            /\ sentAt' = sentAt
            /\ usageDraft' = [usageDraft EXCEPT ![r] = [usageFile EXCEPT ![CapOf(r)] = @ + 1]]
            /\ pc' = [pc EXCEPT ![r] = "writeUsage"] /\ usageLock = Free
        BY <2>11, <3>2 DEF OpenUsage, ReadUsage, CanLock
      <4>4. \A s \in Req : pc'[s] = "writeUsage" => s = r
        BY <4>3 DEF TypeOK
      <4>5. usageDraft'[r] = [usageFile EXCEPT ![CapOf(r)] = @ + 1]
        BY <4>3 DEF TypeOK
      <4>6. /\ \A s \in charged : pc'[s] \in Charging \cup Final
            /\ \A s \in Req : pc'[s] \in Charging => s \in charged
            /\ Sent' = Sent
            /\ \A s \in Sent : pc'[s] \in {"await", "finish"} \cup Final
        BY <2>11, <4>3 DEF OpenUsage, TypeOK, BudgetInv, Sent
      <4>7. \A s \in Req : pc'[s] = "writeUsage" =>
              /\ usageFile' # Torn
              /\ usageDraft'[s] = [usageFile' EXCEPT ![CapOf(s)'] = @ + 1]
              /\ Claims[CapOf(s)'].maxUses # NoLimit =>
                   usageFile'[CapOf(s)'] < Claims[CapOf(s)'].maxUses
        BY <4>1, <4>2, <4>3, <4>4, <4>5
      <4>8. \A s \in charged : job'[s] = job[s] /\ pc'[s] \in Charging \cup Final
        BY <4>3, <4>6
      <4>9. Sent' \subseteq charged /\ \A s \in Sent' : pc'[s] \in {"await", "finish"} \cup Final
        BY <4>6 DEF BudgetInv
      <4> HIDE DEF Charging, Final, CapOf
      <4> QED
        BY <4>3, <4>6, <4>7, <4>8, <4>9, GrantingNothing
    <3> QED
      BY <3>1, <3>2
  <2>12. ASSUME NEW r \in Req, WriteUsage(r) PROVE BudgetInv'
    <3>0. PICK d \in Cap : d = CapOf(r)
      BY <2>12 DEF WriteUsage, TypeOK, OfferSet
    <3>1. /\ r \notin charged /\ charged' = charged \cup {r}
          /\ usageFile \in UsageMap /\ usageFile # Torn
          /\ usageFile' = [usageFile EXCEPT ![d] = @ + 1] /\ job' = job
      BY <2>12, <3>0 DEF WriteUsage, TypeOK, BudgetInv, OfferSet
    <3>2. /\ ChargedTo(d)' = ChargedTo(d) \cup {r} /\ r \notin ChargedTo(d)
          /\ \A c \in Cap \ {d} : ChargedTo(c)' = ChargedTo(c)
      BY <3>0, <3>1 DEF ChargedTo
    <3>3. IsFiniteSet(ChargedTo(d))
      <4>1. ChargedTo(d) \in SUBSET Req
        BY DEF ChargedTo, TypeOK
      <4> QED
        BY <4>1, FS_Subset
    <3>4. /\ Cardinality(ChargedTo(d)') = Cardinality(ChargedTo(d)) + 1
          /\ Cardinality(ChargedTo(d)) = usageFile[d]
      <4>1. Cardinality(ChargedTo(d)) = usageFile[d]
        BY <2>12, <3>1 DEF BudgetInv, StoreCountsUses, WriteUsage
      <4> QED
        BY <4>1, <3>2, <3>3, FS_AddElement
    <3>5. StoreCountsUses'
      <4>1. \A c \in Cap : usageFile[c] = Cardinality(ChargedTo(c))
        BY <3>1 DEF StoreCountsUses, BudgetInv
      <4>2. \A c \in Cap : usageFile'[c] = Cardinality(ChargedTo(c)')
        BY <4>1, <3>1, <3>2, <3>4 DEF UsageMap
      <4> QED
        BY <4>2 DEF StoreCountsUses
    <3>6. \A c \in Cap : Claims[c].maxUses # NoLimit =>
            Cardinality(ChargedTo(c)') <= Claims[c].maxUses
      <4> SUFFICES ASSUME NEW c \in Cap, Claims[c].maxUses # NoLimit
                   PROVE  Cardinality(ChargedTo(c)') <= Claims[c].maxUses
        OBVIOUS
      <4>1. CASE c # d
        BY <3>2, <4>1 DEF BudgetInv
      <4>2. CASE c = d
        <5>1. Claims[d].maxUses \in Nat /\ usageFile[d] \in Nat
          BY <3>1, <4>2 DEF ClaimSet, UsageMap
        <5>2. usageFile[d] < Claims[d].maxUses
          BY <2>12, <3>0, <4>2 DEF WriteUsage, BudgetInv
        <5> QED
          BY <3>4, <4>2, <5>1, <5>2
      <4> QED
        BY <4>1, <4>2
    <3>7. \A s \in Req : pc'[s] # "writeUsage"
      BY <2>12 DEF WriteUsage, TypeOK
    <3> QED
      BY <2>12, <3>1, <3>5, <3>6, <3>7 DEF WriteUsage, TypeOK, BudgetInv, Sent
  <2>13. ASSUME NEW r \in Req, WriteUsageFails(r) PROVE BudgetInv'
    BY <2>13, GrantingNothing, SMTT(30) DEF WriteUsageFails, TypeOK, BudgetInv, Sent
  <2>14. ASSUME NEW r \in Req, Send(r) PROVE BudgetInv'
    BY <2>14, GrantingNothing, SMTT(30) DEF Send, TypeOK, BudgetInv, Sent
  <2>15. ASSUME NEW r \in Req, Cancel(r) PROVE BudgetInv'
    BY <2>15, GrantingNothing, SMTT(30) DEF Cancel, Awaiting, TypeOK, BudgetInv, Sent
  <2>16. ASSUME NEW r \in Req, NEW p \in Relay, NEW o \in Offer, Receive(r, p, o)
         PROVE BudgetInv'
    BY <2>16, GrantingNothing, SMTT(30) DEF Receive, TypeOK, BudgetInv, Sent
  <2>17. ASSUME NEW p \in Relay, Crash(p) PROVE BudgetInv'
    BY <2>17, GrantingNothing, SMTT(30) DEF Crash, Dies, TypeOK, BudgetInv, Sent
  <2>18. CASE UNCHANGED <<replays, usages, pc, job, sentAt>>
    BY <2>18, GrantingNothing, SMTT(30) DEF TypeOK, BudgetInv, Sent
  <2>19. ASSUME NEW p \in Relay, Start(p) PROVE BudgetInv'
    BY <2>18, <2>19 DEF Start
  <2>20. ASSUME NEW cmd \in Command, CliOpen(cmd) PROVE BudgetInv'
    BY <2>18, <2>20 DEF CliOpen
  <2>21. CASE CliSave
    BY <2>18, <2>21 DEF CliSave
  <2>22. CASE Tick
    BY <2>18, <2>22 DEF Tick
  <2>23. CASE UNCHANGED vars
    BY <2>18, <2>23 DEF vars
  <2>24. CASE CliStops
    BY <2>18, <2>24 DEF CliStops
  <2>25. CASE SetBack
    BY <2>18, <2>25 DEF SetBack
  <2> QED
    BY <2>1, <2>2, <2>3, <2>4, <2>5, <2>6, <2>7, <2>8, <2>9, <2>10, <2>11,
       <2>12, <2>13, <2>14, <2>15, <2>16, <2>17, <2>19, <2>20, <2>21, <2>22,
       <2>23, <2>24, <2>25 DEF Next, Handler
<1> QED
  BY <1>1, <1>2, TypeCorrect, PTL DEF Spec

\* However handlers, relays, crashes, cancelled calls and failed writes
\* interleave, the requests sent under a capability number at most max_uses.
THEOREM BudgetHolds == Spec => []UsesWithinBudget
<1> USE ConstantsAssumption
<1>1. TypeOK /\ BudgetInv => UsesWithinBudget
  <2> SUFFICES ASSUME TypeOK, BudgetInv, NEW c \in Cap, Claims[c].maxUses # NoLimit
               PROVE  Cardinality({r \in Sent : CapOf(r) = c}) <= Claims[c].maxUses
    BY DEF UsesWithinBudget
  <2> DEFINE S == {r \in Sent : CapOf(r) = c}
  <2>1. ChargedTo(c) \in SUBSET Req /\ S \in SUBSET ChargedTo(c)
    BY DEF ChargedTo, TypeOK, BudgetInv
  <2>2. IsFiniteSet(ChargedTo(c))
    BY <2>1, FS_Subset
  <2>3. IsFiniteSet(S) /\ Cardinality(S) <= Cardinality(ChargedTo(c))
    BY <2>1, <2>2, FS_Subset
  <2>4. Cardinality(S) \in Nat /\ Cardinality(ChargedTo(c)) \in Nat
    BY <2>2, <2>3, FS_CardinalityType
  <2>5. Claims[c].maxUses \in Nat /\ Cardinality(ChargedTo(c)) <= Claims[c].maxUses
    BY DEF ClaimSet, BudgetInv
  <2> QED
    BY <2>3, <2>4, <2>5
<1> QED
  BY <1>1, TypeCorrect, BudgetInvariant, PTL

\* The counters of a readable usage-store.json are the uses granted.
THEOREM CountersExact == Spec => []StoreCountsUses
<1>1. BudgetInv => StoreCountsUses
  BY DEF BudgetInv
<1> QED
  BY <1>1, BudgetInvariant, PTL

-----------------------------------------------------------------------------
\* What the abstract capability sees of a state changes only when a use is
\* charged, a request leaves, or the request of a charged arrival is replaced.
LEMMA SeenUnchanged ==
  ASSUME charged' = charged, sentAt' = sentAt,
         \A r \in charged : job'[r] = job[r]
  PROVE  UNCHANGED Use!useVars
<1>1. \A c : ChargedTo(c)' = ChargedTo(c)
  BY DEF ChargedTo, CapOf
<1>2. [c \in Cap |-> ChargedTo(c)]' = [c \in Cap |-> ChargedTo(c)] /\ Sent' = Sent
  BY <1>1 DEF Sent
<1> QED
  BY <1>2 DEF Use!useVars

\* The relay implements CapabilityUse: record_use's write grants, the send
\* performs, and no other step of a handler, a process or the operator shows.
THEOREM RelayImplementsUse == Spec => ImplementsCapabilityUse
<1> USE ConstantsAssumption, DistinctAssumption
<1>1. Init => Use!UseInit
  BY DEF Init, Use!UseInit, ChargedTo, Sent
<1>2. TypeOK /\ BudgetInv /\ [Next]_vars => [Use!UseNext]_(Use!useVars)
  <2> SUFFICES ASSUME TypeOK, BudgetInv, [Next]_vars
               PROVE  Use!UseNext \/ UNCHANGED Use!useVars
    OBVIOUS
  <2> USE DEF clock, process, replays, usages, operator, At, Goto
  <2>1. CASE UNCHANGED <<charged, sentAt, job>>
    BY <2>1, SeenUnchanged
  <2>2. ASSUME NEW r \in Req, WriteUsage(r) PROVE Use!UseNext
    <3>1. PICK d \in Cap : d = CapOf(r)
      BY <2>2 DEF WriteUsage, TypeOK, OfferSet, CapOf
    <3>2. /\ r \notin charged /\ charged' = charged \cup {r} /\ job' = job
          /\ usageFile \in UsageMap /\ usageFile # Torn
      BY <2>2 DEF WriteUsage, TypeOK, BudgetInv, Charging, Final
    <3>3. \A c \in Cap : /\ r \notin ChargedTo(c)
                         /\ ChargedTo(c)' = IF c = d THEN ChargedTo(c) \cup {r}
                                                     ELSE ChargedTo(c)
      BY <3>1, <3>2 DEF ChargedTo, CapOf
    <3>4. Claims[d].maxUses # NoLimit => Cardinality(ChargedTo(d)) < Claims[d].maxUses
      BY <2>2, <3>1, <3>2 DEF WriteUsage, BudgetInv, StoreCountsUses
    <3>5. [c \in Cap |-> ChargedTo(c)]' =
            [[c \in Cap |-> ChargedTo(c)] EXCEPT ![d] = @ \cup {r}]
      BY <3>3
    <3>6. Sent' = Sent
      BY <2>2 DEF WriteUsage, Sent
    <3>7. Use!Cardinality(ChargedTo(d)) = Cardinality(ChargedTo(d))
      BY DEF Cardinality, Use!Cardinality
    <3> QED
      BY <3>1, <3>3, <3>4, <3>5, <3>6, <3>7 DEF Use!UseNext, Use!Grant
  <2>3. ASSUME NEW r \in Req, Send(r) PROVE Use!UseNext \/ UNCHANGED Use!useVars
    <3>1. charged' = charged /\ job' = job /\ r \in charged /\ r \notin Sent
      BY <2>3 DEF Send, BudgetInv, Charging, Final
    <3>2. CASE sentAt' = sentAt
      BY <3>1, <3>2, SeenUnchanged
    <3>3. CASE sentAt' = [sentAt EXCEPT ![r] = now]
      <4>1. Sent' = Sent \cup {r}
        BY <3>3 DEF Sent, TypeOK
      <4>2. CapOf(r) \in Cap /\ r \in ChargedTo(CapOf(r))
        BY <2>3, <3>1 DEF Send, TypeOK, OfferSet, ChargedTo, CapOf
      <4>3. [c \in Cap |-> ChargedTo(c)]' = [c \in Cap |-> ChargedTo(c)]
        BY <3>1 DEF ChargedTo, CapOf
      <4> QED
        BY <3>1, <4>1, <4>2, <4>3 DEF Use!UseNext, Use!Perform
    <3> QED
      BY <2>3, <3>2, <3>3 DEF Send
  <2>4. ASSUME NEW r \in Req, NEW p \in Relay, NEW o \in Offer, Receive(r, p, o)
        PROVE  UNCHANGED Use!useVars
    <3>1. charged' = charged /\ sentAt' = sentAt /\ r \notin charged
      BY <2>4 DEF Receive, BudgetInv, Charging, Final
    <3>2. \A s \in charged : job'[s] = job[s]
      BY <2>4, <3>1 DEF Receive, TypeOK
    <3> QED
      BY <3>1, <3>2, SeenUnchanged
  <2> QED
    BY <2>1, <2>2, <2>3, <2>4
    DEF Next, Handler, Admit, AdmitFails, Enforce, Resolve, OpenReplay, WriteReplay,
        WriteReplayFails, OpenUsage, WriteUsageFails, AuditRequest, Await, Finish,
        Cancel, Start, Crash, CliOpen, CliSave, CliStops, Tick, SetBack, vars
<1> QED
  BY <1>1, <1>2, TypeCorrect, BudgetInvariant, PTL DEF Spec, ImplementsCapabilityUse,
     Use!UseSpec

-----------------------------------------------------------------------------
(* What a torn store, a repeated nonce, a request that left and a command *)
(* of the operator can lead to.                                           *)

\* A store that no longer parses is never accepted, charged or written again:
\* the holder of its lock read it before, and locks it until the write.
THEOREM TornStoresShut == Spec => TornStoresStayShut
<1> USE ConstantsAssumption, DistinctAssumption
<1> DEFINE
  Shut == /\ usageFile = Torn => usageFile' = Torn /\ charged' = charged
          /\ replayFile = Torn => replayFile' = Torn /\ acceptedAt' = acceptedAt
  Readable == \A r \in Req : At(r, "writeReplay") => replayFile # Torn
<1>1. Init => Readable
  BY DEF Init, At
<1>2. TypeOK /\ Readable /\ [Next]_vars => Readable'
  <2> SUFFICES ASSUME TypeOK, Readable, [Next]_vars PROVE Readable'
    OBVIOUS
  <2> USE DEF clock, process, replays, usages, operator, At, Goto, Refuse
  <2>1. ASSUME NEW r \in Req, OpenReplay(r) PROVE Readable'
    BY <2>1 DEF OpenReplay, Replayed, CanLock, TypeOK
  <2>2. ASSUME NEW r \in Req, WriteReplay(r) PROVE Readable'
    BY <2>2 DEF WriteReplay, TypeOK
  <2>3. ASSUME NEW r \in Req, WriteReplayFails(r) PROVE Readable'
    BY <2>3 DEF WriteReplayFails, TypeOK
  <2>4. ASSUME NEW p \in Relay, Crash(p) PROVE Readable'
    BY <2>4, SMTT(30) DEF Crash, Dies, TypeOK, Final
  <2>5. CASE /\ UNCHANGED replayFile
             /\ \A r \in Req : pc'[r] = "writeReplay" => pc[r] = "writeReplay"
    BY <2>5
  <2>6. ASSUME NEW r \in Req,
               \/ Admit(r) \/ AdmitFails(r) \/ Enforce(r) \/ Resolve(r)
               \/ OpenUsage(r) \/ WriteUsage(r) \/ WriteUsageFails(r)
               \/ AuditRequest(r) \/ Send(r) \/ Await(r) \/ Finish(r) \/ Cancel(r)
        PROVE  Readable'
    BY <2>5, <2>6, SMTT(30) DEF Admit, AdmitFails, Enforce, Resolve, OpenUsage, WriteUsage,
       WriteUsageFails, AuditRequest, Send, Await, Finish, Cancel, TypeOK
  <2>7. ASSUME NEW r \in Req, NEW p \in Relay, NEW o \in Offer, Receive(r, p, o)
        PROVE  Readable'
    BY <2>5, <2>7 DEF Receive, TypeOK
  <2>8. CASE UNCHANGED <<replays, pc>>
    BY <2>5, <2>8
  <2> QED
    BY <2>1, <2>2, <2>3, <2>4, <2>6, <2>7, <2>8
    DEF Next, Handler, Start, CliOpen, CliSave, CliStops, Tick, SetBack, vars
<1>3. TypeOK /\ BudgetInv /\ Readable /\ [Next]_vars => Shut
  <2> SUFFICES ASSUME TypeOK, BudgetInv, Readable, [Next]_vars PROVE Shut
    OBVIOUS
  <2> USE DEF clock, process, replays, usages, operator, At, Goto
  <2>1. ASSUME NEW r \in Req, WriteReplay(r) PROVE Shut
    BY <2>1 DEF WriteReplay
  <2>2. ASSUME NEW r \in Req, WriteUsage(r) PROVE Shut
    BY <2>2 DEF WriteUsage, BudgetInv
  <2>3. ASSUME NEW r \in Req, OpenReplay(r) PROVE Shut
    BY <2>3 DEF OpenReplay
  <2>4. ASSUME NEW r \in Req, OpenUsage(r) PROVE Shut
    BY <2>4 DEF OpenUsage
  <2>5. ASSUME NEW r \in Req, WriteReplayFails(r) PROVE Shut
    BY <2>5 DEF WriteReplayFails
  <2>6. ASSUME NEW r \in Req, WriteUsageFails(r) PROVE Shut
    BY <2>6 DEF WriteUsageFails
  <2>7. ASSUME NEW p \in Relay, Crash(p) PROVE Shut
    BY <2>7 DEF Crash
  <2>8. CASE UNCHANGED <<replays, usages>>
    BY <2>8
  <2> QED
    BY <2>1, <2>2, <2>3, <2>4, <2>5, <2>6, <2>7, <2>8
    DEF Next, Handler, Admit, AdmitFails, Enforce, Resolve, AuditRequest, Send, Await,
        Finish, Cancel, Receive, Start, CliOpen, CliSave, CliStops, Tick, SetBack, vars
<1>4. TypeOK /\ BudgetInv /\ Readable /\ [Next]_vars => [Shut]_vars
  BY <1>3
<1> QED
  BY <1>1, <1>2, <1>4, TypeCorrect, BudgetInvariant, PTL DEF Spec, TornStoresStayShut

-----------------------------------------------------------------------------
\* Why a nonce passes once: the cache keeps an accepted nonce until its
\* capability has expired, and so does the draft of whoever writes it next.
ReplayInv ==
  /\ \A r \in Req : acceptedAt[r] # Nothing =>
       /\ pc[r] \in {"openUsage", "writeUsage"} \cup Charging \cup Final
       /\ \/ replayFile = Torn
          \/ ReplayKeyOf(r) \in replayFile
          \/ Claims[CapOf(r)].exp < latest
  /\ \A r \in Req : At(r, "writeReplay") =>
       /\ replayFile # Torn
       /\ ReplayKeyOf(r) \in replayDraft[r]
       /\ ReplayKeyOf(r) \in replayFile => Claims[CapOf(r)].exp < latest
       /\ \A k \in replayFile \ replayDraft[r] : Claims[k[1]].exp < latest
  /\ ReplayOnlyAfterExpiry

\* A step that accepts nothing and leaves the cache, the clock and the drafts
\* alone, except that the cache may become unreadable, keeps ReplayInv.
LEMMA AcceptingNothing ==
  ASSUME TypeOK, ReplayInv, acceptedAt' = acceptedAt,
         \A r \in Req : acceptedAt[r] # Nothing =>
           /\ job'[r] = job[r]
           /\ pc'[r] \in {"openUsage", "writeUsage"} \cup Charging \cup Final,
         latest' = latest,
         \/ replayFile' = replayFile
         \/ /\ replayFile' = Torn
            /\ \A r \in Req : pc'[r] # "writeReplay",
         \A r \in Req : pc'[r] = "writeReplay" =>
           pc[r] = "writeReplay" /\ replayDraft'[r] = replayDraft[r] /\ job'[r] = job[r]
  PROVE  ReplayInv'
<1>1. ReplayOnlyAfterExpiry'
  BY DEF ReplayInv, ReplayOnlyAfterExpiry, SameNonce, ReplayKeyOf, CapOf
<1>2. (\A r \in Req : acceptedAt[r] # Nothing =>
        /\ pc[r] \in {"openUsage", "writeUsage"} \cup Charging \cup Final
        /\ \/ replayFile = Torn
           \/ ReplayKeyOf(r) \in replayFile
           \/ Claims[CapOf(r)].exp < latest)'
  BY DEF ReplayInv, ReplayKeyOf, CapOf, Charging, Final
<1>3. (\A r \in Req : At(r, "writeReplay") =>
        /\ replayFile # Torn
        /\ ReplayKeyOf(r) \in replayDraft[r]
        /\ ReplayKeyOf(r) \in replayFile => Claims[CapOf(r)].exp < latest
        /\ \A k \in replayFile \ replayDraft[r] : Claims[k[1]].exp < latest)'
  BY DEF ReplayInv, ReplayKeyOf, CapOf, At
<1> QED
  BY <1>1, <1>2, <1>3 DEF ReplayInv

\* Two arrivals with one nonce are both accepted only if one of them reaches the
\* cache after the clock has passed the capability's expiry: pruning, a clock set
\* back and the waits of the handlers can do no worse.
THEOREM ReplayBounded == Spec => []ReplayOnlyAfterExpiry
<1> USE ConstantsAssumption, DistinctAssumption
<1>1. Init => ReplayInv
  BY DEF Init, ReplayInv, ReplayOnlyAfterExpiry, SameNonce, At
<1>2. TypeOK /\ ReplayInv /\ [Next]_vars => ReplayInv'
  <2> SUFFICES ASSUME TypeOK, ReplayInv, [Next]_vars PROVE ReplayInv'
    OBVIOUS
  <2> USE DEF clock, process, replays, usages, operator, At, Goto, Refuse,
              Charging, Final
  <2>1. ASSUME NEW r \in Req,
               \/ Admit(r) \/ AdmitFails(r) \/ Enforce(r) \/ Resolve(r)
        PROVE  ReplayInv'
    BY <2>1, AcceptingNothing, SMTT(30)
    DEF Admit, AdmitFails, Enforce, Resolve, TypeOK, ReplayInv
  <2>2. ASSUME NEW r \in Req,
               \/ OpenUsage(r) \/ WriteUsage(r) \/ WriteUsageFails(r)
        PROVE  ReplayInv'
    BY <2>2, AcceptingNothing, SMTT(30)
    DEF OpenUsage, WriteUsage, WriteUsageFails, TypeOK, ReplayInv
  <2>3. ASSUME NEW r \in Req,
               \/ AuditRequest(r) \/ Send(r) \/ Await(r) \/ Finish(r) \/ Cancel(r)
        PROVE  ReplayInv'
    BY <2>3, AcceptingNothing, SMTT(30)
    DEF AuditRequest, Send, Await, Finish, Cancel, Awaiting, TypeOK, ReplayInv
  <2>4. ASSUME NEW r \in Req, NEW p \in Relay, NEW o \in Offer, Receive(r, p, o)
        PROVE  ReplayInv'
    BY <2>4, AcceptingNothing, SMTT(30) DEF Receive, TypeOK, ReplayInv
  <2>5. ASSUME NEW r \in Req, WriteReplayFails(r) PROVE ReplayInv'
    <3>1. \A s \in Req : pc'[s] # "writeReplay"
      BY <2>5 DEF WriteReplayFails, TypeOK
    <3> QED
      BY <2>5, <3>1, AcceptingNothing, SMTT(30) DEF WriteReplayFails, TypeOK, ReplayInv
  <2>6. ASSUME NEW p \in Relay, Crash(p) PROVE ReplayInv'
    <3>1. replayFile' # replayFile => \A r \in Req : pc'[r] # "writeReplay"
      BY <2>6 DEF Crash, Dies, TypeOK
    <3>2. \A r \in Req : \/ pc'[r] = "gone"
                         \/ pc'[r] = pc[r] /\ replayDraft'[r] = replayDraft[r]
      BY <2>6 DEF Crash, TypeOK
    <3> QED
      BY <2>6, <3>1, <3>2, AcceptingNothing, SMTT(30) DEF Crash, TypeOK, ReplayInv
  <2>7. CASE UNCHANGED <<latest, replays, pc, job>>
    BY <2>7, AcceptingNothing DEF ReplayInv
  <2>8. CASE Tick
    <3>1. latest' \in Int /\ latest \in Int /\ latest' >= latest
      BY <2>8 DEF Tick, TypeOK, Time
    <3>2. \A r \in Req : ~At(r, "new") => Claims[CapOf(r)].exp \in Int
      BY DEF TypeOK, OfferSet, ClaimSet, Time, CapOf
    <3>3. \A k \in ReplayKey : Claims[k[1]].exp \in Int
      BY DEF ReplayKey, ClaimSet, Time
    <3>4. ReplayOnlyAfterExpiry'
      BY <2>8 DEF Tick, ReplayInv, ReplayOnlyAfterExpiry, SameNonce, ReplayKeyOf, CapOf
    <3>5. (\A r \in Req : acceptedAt[r] # Nothing =>
            /\ pc[r] \in {"openUsage", "writeUsage"} \cup Charging \cup Final
            /\ \/ replayFile = Torn
               \/ ReplayKeyOf(r) \in replayFile
               \/ Claims[CapOf(r)].exp < latest)'
      BY <2>8, <3>1, <3>2 DEF Tick, ReplayInv, ReplayKeyOf, CapOf
    <3>6. (\A r \in Req : At(r, "writeReplay") =>
            /\ replayFile # Torn
            /\ ReplayKeyOf(r) \in replayDraft[r]
            /\ ReplayKeyOf(r) \in replayFile => Claims[CapOf(r)].exp < latest
            /\ \A k \in replayFile \ replayDraft[r] : Claims[k[1]].exp < latest)'
      <4> SUFFICES ASSUME NEW r \in Req, pc[r] = "writeReplay"
                   PROVE  /\ replayFile # Torn
                          /\ ReplayKeyOf(r) \in replayDraft[r]
                          /\ ReplayKeyOf(r) \in replayFile => Claims[CapOf(r)].exp < latest'
                          /\ \A k \in replayFile \ replayDraft[r] : Claims[k[1]].exp < latest'
        BY <2>8 DEF Tick, ReplayKeyOf, CapOf
      <4>1. replayFile \in SUBSET ReplayKey
        BY DEF TypeOK, ReplayInv, ReplayMap
      <4>2. \A k \in replayFile \ replayDraft[r] : Claims[k[1]].exp < latest'
        BY <3>1, <3>3, <4>1 DEF ReplayInv
      <4> QED
        BY <3>1, <3>2, <4>2 DEF ReplayInv
    <3> QED
      BY <3>4, <3>5, <3>6 DEF ReplayInv
  <2>9. ASSUME NEW r \in Req, OpenReplay(r) PROVE ReplayInv'
    <3>1. CASE Replayed(r)
      BY <2>9, <3>1, AcceptingNothing, SMTT(30) DEF OpenReplay, TypeOK, ReplayInv
    <3>2. CASE ~Replayed(r)
      <4>1. PICK draft : draft = Prune(replayFile) \cup {ReplayKeyOf(r)}
        OBVIOUS
      <4>2. /\ replayFile # Torn /\ replayFile \in SUBSET ReplayKey
            /\ ReplayKeyOf(r) \notin Prune(replayFile)
        BY <3>2 DEF Replayed, TypeOK, ReplayMap
      <4>3. /\ replayDraft' = [replayDraft EXCEPT ![r] = draft]
            /\ pc' = [pc EXCEPT ![r] = "writeReplay"] /\ replayLock = Free
            /\ UNCHANGED <<latest, replayFile, acceptedAt, job>>
        BY <2>9, <3>2, <4>1 DEF OpenReplay, CanLock
      <4>4. \A s \in Req : /\ pc'[s] = "writeReplay" => s = r
                           /\ acceptedAt[s] # Nothing => pc'[s] = pc[s]
        BY <2>9, <4>3 DEF OpenReplay, TypeOK, ReplayInv
      <4>5. \A k \in replayFile \ Prune(replayFile) : Claims[k[1]].exp < latest
        BY <4>2 DEF Prune, ReplayKey, ClaimSet, Time, TypeOK
      <4>6. /\ ReplayKeyOf(r) \in draft
            /\ \A k \in replayFile \ draft : Claims[k[1]].exp < latest
            /\ ReplayKeyOf(r) \in replayFile => Claims[CapOf(r)].exp < latest
        BY <4>1, <4>2, <4>5 DEF ReplayKeyOf
      <4>7. ReplayOnlyAfterExpiry'
        BY <4>3 DEF ReplayInv, ReplayOnlyAfterExpiry, SameNonce, ReplayKeyOf, CapOf
      <4>8. (\A s \in Req : acceptedAt[s] # Nothing =>
              /\ pc[s] \in {"openUsage", "writeUsage"} \cup Charging \cup Final
              /\ \/ replayFile = Torn
                 \/ ReplayKeyOf(s) \in replayFile
                 \/ Claims[CapOf(s)].exp < latest)'
        BY <4>3, <4>4 DEF ReplayInv, ReplayKeyOf, CapOf
      <4>9. (\A s \in Req : At(s, "writeReplay") =>
              /\ replayFile # Torn
              /\ ReplayKeyOf(s) \in replayDraft[s]
              /\ ReplayKeyOf(s) \in replayFile => Claims[CapOf(s)].exp < latest
              /\ \A k \in replayFile \ replayDraft[s] : Claims[k[1]].exp < latest)'
        BY <4>2, <4>3, <4>4, <4>6 DEF ReplayKeyOf, CapOf, TypeOK
      <4> QED
        BY <4>7, <4>8, <4>9 DEF ReplayInv
    <3> QED
      BY <3>1, <3>2
  <2>10. ASSUME NEW r \in Req, WriteReplay(r) PROVE ReplayInv'
    <3>1. /\ replayFile' = replayDraft[r] /\ latest' = latest /\ job' = job
          /\ acceptedAt' = [acceptedAt EXCEPT ![r] = latest]
          /\ pc' = [pc EXCEPT ![r] = "openUsage"]
          /\ \A s \in Req : pc'[s] # "writeReplay"
      BY <2>10 DEF WriteReplay, TypeOK
    <3>2. /\ replayFile # Torn
          /\ ReplayKeyOf(r) \in replayDraft[r]
          /\ ReplayKeyOf(r) \in replayFile => Claims[CapOf(r)].exp < latest
          /\ \A k \in replayFile \ replayDraft[r] : Claims[k[1]].exp < latest
      BY <2>10 DEF WriteReplay, ReplayInv
    <3>3. \A s \in Req : acceptedAt[s] # Nothing /\ s # r =>
            \/ ReplayKeyOf(s) \in replayFile
            \/ Claims[CapOf(s)].exp < latest
      BY <3>2 DEF ReplayInv
    <3>4. \A s \in Req : acceptedAt'[s] # Nothing =>
            \/ ReplayKeyOf(s) \in replayFile'
            \/ Claims[CapOf(s)].exp < latest
      BY <3>1, <3>2, <3>3 DEF TypeOK, ReplayKeyOf
    <3>5. ASSUME NEW s \in Req, s # r, acceptedAt[s] # Nothing,
                 ReplayKeyOf(s) = ReplayKeyOf(r)
          PROVE  Claims[CapOf(r)].exp < latest
      BY <3>2, <3>3, <3>5 DEF ReplayKeyOf
    <3>6. Claims[CapOf(r)].exp \in Int /\ latest \in Int
      BY <2>10 DEF WriteReplay, TypeOK, OfferSet, ClaimSet, Time, CapOf
    <3>7. ReplayOnlyAfterExpiry'
      <4> SUFFICES ASSUME NEW s \in Req, NEW t \in Req, s # t, SameNonce(s, t)'
                   PROVE  \E q \in {s, t} : acceptedAt'[q] > Claims[CapOf(q)].exp
        BY <3>1 DEF ReplayOnlyAfterExpiry, CapOf
      <4>1. ReplayKeyOf(s) = ReplayKeyOf(t)
        BY <3>1 DEF SameNonce, ReplayKeyOf, CapOf
      <4>2. CASE r \in {s, t}
        <5>1. \A q \in {s, t} : q # r => acceptedAt[q] # Nothing
          BY <3>1 DEF SameNonce, TypeOK
        <5>2. Claims[CapOf(r)].exp < latest
          BY <3>5, <4>1, <4>2, <5>1
        <5> QED
          BY <3>1, <3>6, <4>2, <5>2 DEF TypeOK
      <4>3. CASE r \notin {s, t}
        <5>1. SameNonce(s, t)
          BY <3>1, <4>1, <4>3 DEF SameNonce, TypeOK
        <5> QED
          BY <3>1, <4>3, <5>1 DEF ReplayInv, ReplayOnlyAfterExpiry, TypeOK
      <4> QED
        BY <4>2, <4>3
    <3>8. (\A s \in Req : acceptedAt[s] # Nothing =>
            /\ pc[s] \in {"openUsage", "writeUsage"} \cup Charging \cup Final
            /\ \/ replayFile = Torn
               \/ ReplayKeyOf(s) \in replayFile
               \/ Claims[CapOf(s)].exp < latest)'
      BY <3>1, <3>4 DEF ReplayInv, ReplayKeyOf, CapOf, TypeOK
    <3> QED
      BY <3>1, <3>7, <3>8 DEF ReplayInv
  <2> QED
    BY <2>1, <2>2, <2>3, <2>4, <2>5, <2>6, <2>7, <2>8, <2>9, <2>10
    DEF Next, Handler, Start, CliOpen, CliSave, CliStops, SetBack, vars
<1>3. ReplayInv => ReplayOnlyAfterExpiry
  BY DEF ReplayInv
<1> QED
  BY <1>1, <1>2, <1>3, TypeCorrect, PTL DEF Spec

-----------------------------------------------------------------------------
\* What a handler has done by the time it reaches a step.
AfterAdmit == {"enforce", "resolve", "openReplay", "writeReplay", "openUsage",
               "writeUsage"} \cup Charging
AfterReplay == {"openUsage", "writeUsage"} \cup Charging
AfterAudit == {"send", "await", "finish"}

ProgressInv ==
  /\ \A r \in Req : pc[r] \in AfterAdmit => r \in opened
  /\ \A r \in Req : pc[r] \in AfterReplay /\ NeedsProof(CapOf(r)) => acceptedAt[r] # Nothing
  /\ \A r \in Req : pc[r] \in AfterAudit => <<"request", r>> \in audit
  /\ \A r \in Sent :
       /\ r \in opened /\ <<"request", r>> \in audit
       /\ NeedsProof(CapOf(r)) => acceptedAt[r] # Nothing

\* What was done stays done, so a step keeps ProgressInv when each handler it
\* moves past a point has done what that point stands for.
LEMMA ProgressKept ==
  ASSUME ProgressInv, opened \subseteq opened', audit \subseteq audit',
         \A r \in Req : acceptedAt[r] # Nothing => acceptedAt'[r] # Nothing,
         \A r \in Req : pc[r] \in AfterReplay \/ r \in Sent => job'[r] = job[r],
         \A r \in Req : pc'[r] \in AfterAdmit => pc[r] \in AfterAdmit \/ r \in opened',
         \A r \in Req : pc'[r] \in AfterReplay =>
           \/ pc[r] \in AfterReplay
           \/ ~NeedsProof(CapOf(r)') \/ acceptedAt'[r] # Nothing,
         \A r \in Req : pc'[r] \in AfterAudit =>
           pc[r] \in AfterAudit \/ <<"request", r>> \in audit',
         \A r \in Sent' : r \in Sent \/ pc[r] = "send"
  PROVE  ProgressInv'
<1>1. \A r \in Req : pc'[r] \in AfterReplay /\ NeedsProof(CapOf(r)') => acceptedAt'[r] # Nothing
  BY DEF ProgressInv, CapOf
<1>2. \A r \in Sent' : /\ r \in opened' /\ <<"request", r>> \in audit'
                       /\ NeedsProof(CapOf(r)') => acceptedAt'[r] # Nothing
  BY DEF ProgressInv, CapOf, AfterAdmit, AfterReplay, AfterAudit, Charging, Sent
<1>3. \A r \in Req : /\ pc'[r] \in AfterAdmit => r \in opened'
                     /\ pc'[r] \in AfterAudit => <<"request", r>> \in audit'
  BY DEF ProgressInv
<1> QED
  BY <1>1, <1>2, <1>3 DEF ProgressInv

\* Whatever left for an upstream had its secret opened for it, was charged,
\* stands in the audit log and, where a proof is needed, used up its nonce.
THEOREM SentAccounted == Spec => []SentIsAccountedFor
<1> USE ConstantsAssumption, DistinctAssumption
<1>1. Init => ProgressInv
  BY DEF Init, ProgressInv, Sent, Charging, AfterAdmit, AfterReplay, AfterAudit
<1>2. TypeOK /\ BudgetInv /\ ProgressInv /\ [Next]_vars => ProgressInv'
  <2> SUFFICES ASSUME TypeOK, BudgetInv, ProgressInv, [Next]_vars PROVE ProgressInv'
    OBVIOUS
  <2> USE DEF clock, process, replays, usages, operator, At, Goto, Refuse,
              Charging, Final, CapOf, Sent, AfterAdmit, AfterReplay, AfterAudit
  <2>1. ASSUME NEW r \in Req, Admit(r) PROVE ProgressInv'
    BY <2>1, ProgressKept, SMTT(30) DEF Admit, TypeOK
  <2>2. ASSUME NEW r \in Req, AdmitFails(r) PROVE ProgressInv'
    BY <2>2, ProgressKept, SMTT(30) DEF AdmitFails, TypeOK
  <2>3. ASSUME NEW r \in Req, Enforce(r) PROVE ProgressInv'
    BY <2>3, ProgressKept, SMTT(30) DEF Enforce, TypeOK
  <2>4. ASSUME NEW r \in Req, Resolve(r) PROVE ProgressInv'
    BY <2>4, ProgressKept, SMTT(30) DEF Resolve, TypeOK
  <2>5. ASSUME NEW r \in Req, OpenReplay(r) PROVE ProgressInv'
    BY <2>5, ProgressKept, SMTT(30) DEF OpenReplay, TypeOK
  <2>6. ASSUME NEW r \in Req, WriteReplay(r) PROVE ProgressInv'
    BY <2>6, ProgressKept, SMTT(30) DEF WriteReplay, TypeOK
  <2>7. ASSUME NEW r \in Req, WriteReplayFails(r) PROVE ProgressInv'
    BY <2>7, ProgressKept, SMTT(30) DEF WriteReplayFails, TypeOK
  <2>8. ASSUME NEW r \in Req, OpenUsage(r) PROVE ProgressInv'
    BY <2>8, ProgressKept, SMTT(30) DEF OpenUsage, TypeOK
  <2>9. ASSUME NEW r \in Req, WriteUsage(r) PROVE ProgressInv'
    BY <2>9, ProgressKept, SMTT(30) DEF WriteUsage, TypeOK
  <2>10. ASSUME NEW r \in Req, WriteUsageFails(r) PROVE ProgressInv'
    BY <2>10, ProgressKept, SMTT(30) DEF WriteUsageFails, TypeOK
  <2>11. ASSUME NEW r \in Req, AuditRequest(r) PROVE ProgressInv'
    BY <2>11, ProgressKept, SMTT(30) DEF AuditRequest, TypeOK
  <2>12. ASSUME NEW r \in Req, Send(r) PROVE ProgressInv'
    BY <2>12, ProgressKept, SMTT(30) DEF Send, TypeOK
  <2>13. ASSUME NEW r \in Req, Await(r) PROVE ProgressInv'
    BY <2>13, ProgressKept, SMTT(30) DEF Await, TypeOK
  <2>14. ASSUME NEW r \in Req, Finish(r) PROVE ProgressInv'
    BY <2>14, ProgressKept, SMTT(30) DEF Finish, TypeOK
  <2>15. ASSUME NEW r \in Req, Cancel(r) PROVE ProgressInv'
    BY <2>15, ProgressKept, SMTT(30) DEF Cancel, TypeOK
  <2>16. ASSUME NEW r \in Req, NEW p \in Relay, NEW o \in Offer, Receive(r, p, o)
         PROVE  ProgressInv'
    <3>1. r \notin Sent
      BY <2>16 DEF Receive, BudgetInv
    <3> QED
      BY <2>16, <3>1, ProgressKept, SMTT(30) DEF Receive, TypeOK
  <2>17. ASSUME NEW p \in Relay, Crash(p) PROVE ProgressInv'
    BY <2>17, ProgressKept, SMTT(30) DEF Crash, TypeOK
  <2>18. CASE UNCHANGED <<pc, job, audit, opened, acceptedAt, sentAt>>
    BY <2>18, ProgressKept
  <2> QED
    BY <2>1, <2>2, <2>3, <2>4, <2>5, <2>6, <2>7, <2>8, <2>9, <2>10, <2>11, <2>12,
       <2>13, <2>14, <2>15, <2>16, <2>17, <2>18
    DEF Next, Handler, Start, CliOpen, CliSave, CliStops, Tick, SetBack, vars
<1>3. TypeOK /\ BudgetInv /\ ProgressInv => SentIsAccountedFor
  BY DEF ProgressInv, BudgetInv, SentIsAccountedFor, Sent
<1> QED
  BY <1>1, <1>2, <1>3, TypeCorrect, BudgetInvariant, PTL DEF Spec

-----------------------------------------------------------------------------
\* Commands add to what is revoked and take from the secrets: applied again they
\* change nothing, and applied after each other none undoes the other.
LEMMA CommandsMonotone ==
  ASSUME NEW c1 \in Command, NEW c2 \in Command, NEW v \in Vault
  PROVE  /\ Apply(c1, v) \in Vault
         /\ Effective(c1, Apply(c1, v))
         /\ Effective(c1, v) => Effective(c1, Apply(c2, v))
<1> USE ConstantsAssumption
<1> DEFINE Gone(cmd, w) == CASE cmd.op = "revoke" -> cmd.of \in w.revoked
                             [] cmd.op = "delete" -> cmd.of \notin w.keys
                             [] cmd.op = "bar" -> cmd.of \in w.barred
<1>1. ASSUME NEW cmd \in Command PROVE cmd.op \in {"revoke", "delete", "bar"}
  BY <1>1 DEF CommandSet
<1>2. ASSUME NEW cmd \in Command, NEW w \in Vault
      PROVE  /\ Apply(cmd, w) \in Vault
             /\ Effective(cmd, w) <=> Gone(cmd, w)
  <2>1. CASE cmd.op = "revoke"
    <3>1. cmd.of \in Cap
      BY <1>2, <2>1 DEF CommandSet
    <3>2. Apply(cmd, w) = [w EXCEPT !.revoked = @ \cup {cmd.of}]
      BY <2>1 DEF Apply
    <3> QED
      BY <1>2, <2>1, <3>1, <3>2 DEF Vault, Effective
  <2>2. CASE cmd.op = "delete"
    <3>1. Apply(cmd, w) = [w EXCEPT !.keys = @ \ {cmd.of}]
      BY <2>2 DEF Apply
    <3> QED
      BY <1>2, <2>2, <3>1 DEF Vault, Effective
  <2>3. CASE cmd.op = "bar"
    <3>1. cmd.of \in Agent
      BY <1>2, <2>3 DEF CommandSet
    <3>2. Apply(cmd, w) = [w EXCEPT !.barred = @ \cup {cmd.of}]
      BY <2>3 DEF Apply
    <3> QED
      BY <1>2, <2>3, <3>1, <3>2 DEF Vault, Effective
  <2> QED
    BY <1>1, <2>1, <2>2, <2>3
<1>3. \A cmd \in Command :
        /\ cmd.op = "revoke" =>
             Apply(cmd, v) = [v EXCEPT !.revoked = v.revoked \cup {cmd.of}]
        /\ cmd.op = "delete" => Apply(cmd, v) = [v EXCEPT !.keys = v.keys \ {cmd.of}]
        /\ cmd.op = "bar" => Apply(cmd, v) = [v EXCEPT !.barred = v.barred \cup {cmd.of}]
  BY DEF Apply
<1>4. \A cmd \in Command :
        /\ v.revoked \subseteq Apply(cmd, v).revoked
        /\ Apply(cmd, v).keys \subseteq v.keys
        /\ v.barred \subseteq Apply(cmd, v).barred
        /\ Gone(cmd, Apply(cmd, v))
  <2> TAKE cmd \in Command
  <2>1. CASE cmd.op = "revoke"
    <3>1. /\ Apply(cmd, v).revoked = v.revoked \cup {cmd.of}
          /\ Apply(cmd, v).keys = v.keys /\ Apply(cmd, v).barred = v.barred
      BY <1>3, <2>1 DEF Vault
    <3> QED
      BY <2>1, <3>1
  <2>2. CASE cmd.op = "delete"
    <3>1. /\ Apply(cmd, v).keys = v.keys \ {cmd.of}
          /\ Apply(cmd, v).revoked = v.revoked /\ Apply(cmd, v).barred = v.barred
      BY <1>3, <2>2 DEF Vault
    <3> QED
      BY <2>2, <3>1
  <2>3. CASE cmd.op = "bar"
    <3>1. /\ Apply(cmd, v).barred = v.barred \cup {cmd.of}
          /\ Apply(cmd, v).revoked = v.revoked /\ Apply(cmd, v).keys = v.keys
      BY <1>3, <2>3 DEF Vault
    <3> QED
      BY <2>3, <3>1
  <2> QED
    BY <1>1, <2>1, <2>2, <2>3
<1>5. Gone(c1, v) => Gone(c1, Apply(c2, v))
  BY <1>1, <1>4
<1> QED
  BY <1>2, <1>4, <1>5

\* What a completed command changed is in the file, in every copy a relay that
\* is up may save, and in the operator's own copy.
CommandsInv ==
  /\ CommandsAloneHold
  /\ cli # Nothing =>
       /\ done[cli.cmd] = "no" /\ Effective(cli.cmd, cli.vault)
       /\ \A cmd \in Command : done[cmd] = "alone" => Effective(cmd, cli.vault)
  /\ \A r \in Req : pc[r] \notin Final \cup {"new"} => up[via[r]]

\* A revocation or deletion made with no relay running is never undone, by no
\* later command, relay, crash or restart.
THEOREM CommandsHold == Spec => []CommandsAloneHold
<1> USE ConstantsAssumption, DistinctAssumption
<1>1. Init => CommandsInv
  BY DEF Init, CommandsInv, CommandsAloneHold, At
<1>2. TypeOK /\ CommandsInv /\ [Next]_vars => CommandsInv'
  <2> SUFFICES ASSUME TypeOK, CommandsInv, [Next]_vars PROVE CommandsInv'
    OBVIOUS
  <2> USE DEF clock, process, replays, usages, operator, At, Goto, Refuse
  <2>1. CASE /\ UNCHANGED <<process, vaultFile, operator, via>>
             /\ \A r \in Req : pc'[r] \notin Final \cup {"new"} => pc[r] \notin Final \cup {"new"}
    BY <2>1 DEF CommandsInv, CommandsAloneHold, TypeOK, Effective
  <2>2. ASSUME NEW r \in Req,
               \/ AdmitFails(r) \/ Enforce(r) \/ Resolve(r) \/ OpenReplay(r)
               \/ WriteReplay(r) \/ WriteReplayFails(r) \/ OpenUsage(r)
        PROVE  CommandsInv'
    BY <2>1, <2>2, SMTT(30) DEF AdmitFails, Enforce, Resolve, OpenReplay, WriteReplay,
       WriteReplayFails, OpenUsage, TypeOK, Final
  <2>3. ASSUME NEW r \in Req,
               \/ WriteUsage(r) \/ WriteUsageFails(r) \/ AuditRequest(r)
               \/ Send(r) \/ Await(r) \/ Finish(r) \/ Cancel(r)
        PROVE  CommandsInv'
    BY <2>1, <2>3, SMTT(30) DEF WriteUsage, WriteUsageFails, AuditRequest, Send, Await,
       Finish, Cancel, Awaiting, TypeOK, Final
  <2>4. ASSUME NEW r \in Req, Admit(r) PROVE CommandsInv'
    <3>1. up[via[r]] /\ via[r] \in Relay
      BY <2>4 DEF Admit, CommandsInv, TypeOK, Final
    <3>2. \A cmd \in Command : done[cmd] = "alone" => Effective(cmd, vaultFile')
      BY <2>4, <3>1 DEF Admit, CommandsInv, CommandsAloneHold
    <3>3. \A s \in Req : pc'[s] \notin Final \cup {"new"} => pc[s] \notin Final \cup {"new"}
      BY <2>4 DEF Admit, TypeOK, Final
    <3> QED
      BY <2>4, <3>2, <3>3, SMTT(30)
      DEF Admit, CommandsInv, CommandsAloneHold, Effective, TypeOK, Final
  <2>5. ASSUME NEW r \in Req, NEW p \in Relay, NEW o \in Offer, Receive(r, p, o)
        PROVE  CommandsInv'
    BY <2>5 DEF Receive, CommandsInv, CommandsAloneHold, Effective, TypeOK
  <2>6. ASSUME NEW p \in Relay, Start(p) PROVE CommandsInv'
    <3>1. \A cmd \in Command, q \in Relay :
            done[cmd] = "alone" /\ up'[q] => Effective(cmd, loaded'[q])
      BY <2>6 DEF Start, CommandsInv, CommandsAloneHold, TypeOK
    <3>2. \A r \in Req : pc[r] \notin Final \cup {"new"} => up'[via[r]]
      BY <2>6 DEF Start, CommandsInv, TypeOK
    <3> QED
      BY <2>6, <3>1, <3>2 DEF Start, CommandsInv, CommandsAloneHold, Effective
  <2>7. ASSUME NEW p \in Relay, Crash(p) PROVE CommandsInv'
    <3>1. /\ up' = [up EXCEPT ![p] = FALSE]
          /\ UNCHANGED <<loaded, vaultFile, operator, via>>
      BY <2>7 DEF Crash
    <3>2. \A r \in Req : pc'[r] \notin Final \cup {"new"} => up'[via[r]]
      BY <2>7, <3>1 DEF Crash, Dies, CommandsInv, TypeOK, Final
    <3>3. CommandsAloneHold'
      BY <3>1 DEF CommandsInv, CommandsAloneHold, Effective, TypeOK
    <3> QED
      BY <3>1, <3>2, <3>3 DEF CommandsInv, Effective
  <2>8. ASSUME NEW cmd \in Command, CliOpen(cmd) PROVE CommandsInv'
    <3>1. /\ cli' = [vault |-> Apply(cmd, vaultFile), cmd |-> cmd, saves |-> Saves(cmd)]
          /\ done[cmd] = "no" /\ UNCHANGED <<done, process, vaultFile, pc, via>>
      BY <2>8 DEF CliOpen
    <3>2. /\ Effective(cmd, cli'.vault)
          /\ \A c \in Command : Effective(c, vaultFile) => Effective(c, cli'.vault)
      BY <3>1, CommandsMonotone DEF TypeOK
    <3> QED
      BY <3>1, <3>2 DEF CommandsInv, CommandsAloneHold, Effective
  <2>9. CASE CliSave
    <3>1. cli \in Session /\ vaultFile' = cli.vault /\ UNCHANGED <<process, pc, via>>
      BY <2>9 DEF CliSave, TypeOK
    <3>2. CASE cli.saves > 1
      <4>1. cli'.vault = cli.vault /\ cli'.cmd = cli.cmd /\ done' = done /\ cli # Nothing
        BY <2>9, <3>1, <3>2 DEF CliSave, Session
      <4> QED
        BY <3>1, <4>1 DEF CommandsInv, CommandsAloneHold, Effective
    <3>3. CASE ~(cli.saves > 1)
      <4>1. /\ cli' = Nothing /\ cli # Nothing
            /\ done' = [done EXCEPT ![cli.cmd] =
                          IF \E p \in Relay : up[p] THEN "racing" ELSE "alone"]
        BY <2>9, <3>3 DEF CliSave
      <4>2. \A cmd \in Command : done'[cmd] = "alone" =>
              /\ Effective(cmd, cli.vault)
              /\ done[cmd] = "alone" \/ \A p \in Relay : ~up[p]
        BY <3>1, <4>1 DEF CommandsInv, TypeOK, Session
      <4>3. CommandsAloneHold'
        BY <3>1, <4>2 DEF CommandsInv, CommandsAloneHold, Effective
      <4> QED
        BY <3>1, <4>1, <4>3 DEF CommandsInv
    <3> QED
      BY <3>2, <3>3
  <2>10. CASE CliStops
    BY <2>10 DEF CliStops, CommandsInv, CommandsAloneHold, Effective
  <2>11. CASE UNCHANGED <<process, vaultFile, operator, via, pc>>
    BY <2>1, <2>11
  <2> QED
    BY <2>2, <2>3, <2>4, <2>5, <2>6, <2>7, <2>8, <2>9, <2>10, <2>11
    DEF Next, Handler, Tick, SetBack, vars
<1>3. CommandsInv => CommandsAloneHold
  BY DEF CommandsInv
<1> QED
  BY <1>1, <1>2, <1>3, TypeCorrect, PTL DEF Spec
=============================================================================
