------------------------------- MODULE Relay --------------------------------
(***************************************************************************)
(* The local relay of lockrail (crates/lockrail-relay): every POST /relay  *)
(* runs perform_relay as an asynchronous handler.  Handlers of one process *)
(* share an in-memory vault; handlers of all processes on the same home    *)
(* share the vault file, replay-cache.json and usage-store.json, the last  *)
(* two under advisory file locks.  Meanwhile the command line edits the    *)
(* vault file, the clock runs or is set back, clients disconnect and       *)
(* processes crash.                                                        *)
(*                                                                         *)
(* One action per stretch of a handler between two points where another    *)
(* party can act: an await, a lock, a file replacement.  pc names the next *)
(* stretch.  What a request says (its policy verdict, its signature) is    *)
(* data of the offer; what the world answers (DNS, upstream, I/O) is the   *)
(* choice of an action.                                                    *)
(***************************************************************************)
EXTENDS Integers, FiniteSets

CONSTANTS
  Relay,      \* relay processes started on one lockrail home
  Req,        \* arrivals at /relay: a retry or a duplicate is another arrival
  Cap, Key,   \* issued capabilities and the vault's credentials
  Agent,      \* agent identities
  Nonce,      \* agent id and nonce of a proof: what the replay cache keys on
  Claims,     \* the signed claims of each capability
  Offer,      \* the requests clients send
  Command,    \* the vault commands the operator runs, each at most once
  MaxSkew,    \* MAX_PROOF_SKEW_SECONDS, in the model's ticks
  MaxTime,    \* bound: the last instant of the clock
  NoLimit,    \* max_uses = None
  NoProof,    \* proof = None
  NoAgent,    \* agent_public_key = None
  Torn,       \* contents of a store that no longer parses
  Free,       \* an advisory lock nobody holds
  Nothing     \* no value yet

Time == 0..MaxTime
ProofSet == [nonce: Nonce, ts: Time, genuine: BOOLEAN]
OfferSet == [cap: Cap, proof: ProofSet \cup {NoProof}, lawful: BOOLEAN]
ClaimSet == [key: Key, iat: Time, nbf: Time, exp: Time,
             maxUses: Nat \cup {NoLimit},
             requireProof: BOOLEAN, agent: Agent \cup {NoAgent}]
Vault == [revoked: SUBSET Cap, keys: SUBSET Key, barred: SUBSET Agent]
CommandSet == [op: {"revoke"}, of: Cap] \cup [op: {"delete"}, of: Key]
                \cup [op: {"bar"}, of: Agent]
Session == [vault: Vault, cmd: Command, saves: 1..2]
ReplayKey == Cap \X Nonce
ReplayMap == SUBSET ReplayKey   \* an entry's expiry is its capability's exp
UsageMap == [Cap -> Nat]

ASSUME ConstantsAssumption ==
  /\ IsFiniteSet(Req)
  /\ MaxSkew \in Nat /\ MaxTime \in Nat
  /\ Claims \in [Cap -> ClaimSet]
  /\ Offer \subseteq OfferSet
  /\ Command \subseteq CommandSet

ASSUME DistinctAssumption == Free \notin Req /\ Nothing \notin Time

VARIABLES
  now,          \* now_unix(): the wall clock, which may be set back
  up, loaded,   \* per relay: is it serving, and RelayState.vault
  vaultFile,    \* vault.lockrail
  replayFile, replayLock,   \* replay-cache.json and its .lock
  usageFile, usageLock,     \* usage-store.json and its .lock
  replayDraft, usageDraft,  \* per arrival: the contents it is about to write
  pc, via, job, \* per arrival: next step, the relay serving it, its request
  audit,        \* rows appended to audit.log, as <<action, arrival>>
  cli,          \* the operator's vault command between its open and its save
  done,         \* history: commands that succeeded, and was a relay up then
  opened,       \* history: arrivals whose secret was decrypted
  latest,       \* history: the latest time the clock has shown
  acceptedAt,   \* history: latest, when the replay cache took the arrival's nonce
  charged,      \* history: arrivals the usage store has counted
  sentAt        \* history: when the request left for the upstream

clock == <<now, latest>>
process == <<up, loaded>>
replays == <<replayFile, replayLock, replayDraft, acceptedAt>>
usages == <<usageFile, usageLock, usageDraft, charged>>
operator == <<cli, done>>
vars == <<now, latest, up, loaded, vaultFile, replayFile, replayLock, replayDraft,
          usageFile, usageLock, usageDraft, pc, via, job, audit, cli, done, opened,
          acceptedAt, charged, sentAt>>

Final == {"ok", "denied", "gone"}
Step == {"new", "admit", "enforce", "resolve", "openReplay", "writeReplay",
         "openUsage", "writeUsage", "audit", "send", "await", "finish"}
Charging == {"audit", "send", "await", "finish"}   \* after record_use succeeded
Awaiting == {"resolve", "send", "await"}   \* where the handler's future can be dropped

Sent == {r \in Req : sentAt[r] # Nothing}
CapOf(r) == job[r].cap
ChargedTo(c) == {r \in charged : CapOf(r) = c}
ReplayKeyOf(r) == <<CapOf(r), job[r].proof.nonce>>

Init ==
  /\ now = 0 /\ latest = 0
  /\ up = [p \in Relay |-> FALSE]
  /\ loaded = [p \in Relay |-> Nothing]
  /\ vaultFile = [revoked |-> {}, keys |-> Key, barred |-> {}]
  /\ replayFile = {} /\ replayLock = Free
  /\ replayDraft = [r \in Req |-> Nothing]
  /\ usageFile = [c \in Cap |-> 0] /\ usageLock = Free
  /\ usageDraft = [r \in Req |-> Nothing]
  /\ pc = [r \in Req |-> "new"]
  /\ via = [r \in Req |-> Nothing]
  /\ job = [r \in Req |-> Nothing]
  /\ audit = {}
  /\ cli = Nothing /\ done = [cmd \in Command |-> "no"]
  /\ opened = {} /\ charged = {}
  /\ acceptedAt = [r \in Req |-> Nothing]
  /\ sentAt = [r \in Req |-> Nothing]

-----------------------------------------------------------------------------
(* The checks, as the code makes them.                                     *)

\* CapabilityToken::verify against the relay's own list of revocations
TokenValid(c, vault) ==
  /\ Claims[c].iat <= now + MaxSkew
  /\ Claims[c].nbf <= now
  /\ now <= Claims[c].exp
  /\ c \notin vault.revoked

NeedsProof(c) == Claims[c].requireProof \/ Claims[c].agent # NoAgent

\* AccessProof::verify; a capability without an agent key cannot be proved
ProofValid(c, proof) ==
  /\ proof # NoProof
  /\ Claims[c].agent # NoAgent
  /\ proof.genuine
  /\ now - proof.ts \in (-MaxSkew)..MaxSkew

Admissible(r) ==
  LET vault == loaded[via[r]] IN
  /\ TokenValid(CapOf(r), vault)
  /\ NeedsProof(CapOf(r)) => ProofValid(CapOf(r), job[r].proof)
  /\ Claims[CapOf(r)].key \in vault.keys

PruneAtExpiry(entries) == {k \in entries : Claims[k[1]].exp > now}   \* faulty

\* entries the replay cache keeps: retain(expiry >= now)
Prune(entries) == {k \in entries : Claims[k[1]].exp >= now}

\* what check_and_store refuses: an unreadable cache, or a nonce it still keeps
Replayed(r) == replayFile = Torn \/ ReplayKeyOf(r) \in Prune(replayFile)

ReadUsageOrEmpty ==   \* faulty: a parse error is taken for an empty store
  IF usageFile = Torn THEN [c \in Cap |-> 0] ELSE usageFile

\* the counts record_use starts from; what does not parse stays an error
ReadUsage == usageFile

ExhaustedAbove(c) ==   \* faulty: off by one
  \/ ReadUsage = Torn
  \/ Claims[c].maxUses # NoLimit /\ ReadUsage[c] > Claims[c].maxUses

\* what record_use refuses: an unreadable store, or current >= max
Exhausted(c) ==
  \/ ReadUsage = Torn
  \/ Claims[c].maxUses # NoLimit /\ ReadUsage[c] >= Claims[c].maxUses

CanAlwaysLock(lock) == lock \in {Free} \cup Req   \* faulty: the lock is not taken

\* lock_exclusive returns
CanLock(lock) == lock = Free

-----------------------------------------------------------------------------
(* Steps of a handler.                                                     *)

At(r, step) == pc[r] = step
Goto(r, step) == pc' = [pc EXCEPT ![r] = step]

\* relay_handler's Err arm: 403, and a relay.denied row if it can be written
Refuse(r, rows) ==
  /\ Goto(r, "denied")
  /\ audit' \in {rows, rows \cup {<<"denied", r>>}}

Receive(r, p, o) ==
  /\ At(r, "new") /\ up[p]
  /\ Goto(r, "admit")
  /\ via' = [via EXCEPT ![r] = p]
  /\ job' = [job EXCEPT ![r] = o]
  /\ UNCHANGED <<clock, process, vaultFile, replays, usages, audit,
                 operator, opened, sentAt>>

\* Under the vault mutex: verify the token and the proof, then use_key, which
\* decrypts the secret and saves the relay's whole copy of the vault.
Admit(r) ==
  /\ At(r, "admit")
  /\ Admissible(r)
  /\ vaultFile' = loaded[via[r]]
  /\ \/ Goto(r, "enforce") /\ opened' = opened \cup {r} /\ UNCHANGED audit
     \/ Refuse(r, audit) /\ UNCHANGED opened   \* the directory's fsync failed
  /\ UNCHANGED <<clock, process, replays, usages, via, job, operator,
                 sentAt>>

AdmitFails(r) ==   \* a check says no, or the save fails before its rename
  /\ At(r, "admit")
  /\ Refuse(r, audit)
  /\ UNCHANGED <<clock, process, vaultFile, replays, usages, via, job,
                 operator, opened, sentAt>>

\* enforce_request, enforce_body_size, enforce_content_type
Enforce(r) ==
  /\ At(r, "enforce")
  /\ IF job[r].lawful THEN Goto(r, "resolve") /\ UNCHANGED audit
                      ELSE Refuse(r, audit)
  /\ UNCHANGED <<clock, process, vaultFile, replays, usages, via, job,
                 operator, opened, sentAt>>

\* lookup_host: all addresses public, or no address or a private one
Resolve(r) ==
  /\ At(r, "resolve")
  /\ \/ /\ Goto(r, IF NeedsProof(CapOf(r)) THEN "openReplay" ELSE "openUsage")
        /\ UNCHANGED audit
     \/ Refuse(r, audit)
  /\ UNCHANGED <<clock, process, vaultFile, replays, usages, via, job,
                 operator, opened, sentAt>>

\* check_and_store up to its write: lock, read, prune, look the nonce up
OpenReplay(r) ==
  /\ At(r, "openReplay")
  /\ CanLock(replayLock)
  /\ IF Replayed(r)
     THEN Refuse(r, audit) /\ UNCHANGED <<replayLock, replayDraft>>
     ELSE /\ replayLock' = r
          /\ replayDraft' = [replayDraft EXCEPT ![r] = Prune(replayFile) \cup {ReplayKeyOf(r)}]
          /\ Goto(r, "writeReplay")
          /\ UNCHANGED audit
  /\ UNCHANGED <<clock, process, vaultFile, replayFile, acceptedAt, usages,
                 via, job, operator, opened, sentAt>>

\* fs::write over the cache, then the lock is dropped
WriteReplay(r) ==
  /\ At(r, "writeReplay")
  /\ replayFile' = replayDraft[r]
  /\ replayLock' = Free
  /\ acceptedAt' = [acceptedAt EXCEPT ![r] = latest]
  /\ replayDraft' = [replayDraft EXCEPT ![r] = Nothing]
  /\ Goto(r, "openUsage")
  /\ UNCHANGED <<clock, process, vaultFile, usages, via, job, audit, operator,
                 opened, sentAt>>

\* fs::write fails: before the truncation, or after it (a full disk)
WriteReplayFails(r) ==
  /\ At(r, "writeReplay")
  /\ replayFile' \in {replayFile, Torn}
  /\ replayLock' = Free
  /\ replayDraft' = [replayDraft EXCEPT ![r] = Nothing]
  /\ Refuse(r, audit)
  /\ UNCHANGED <<clock, process, vaultFile, acceptedAt, usages, via, job,
                 operator, opened, sentAt>>

\* record_use up to its write: lock, read, compare with max_uses
OpenUsage(r) ==
  /\ At(r, "openUsage")
  /\ CanLock(usageLock)
  /\ IF Exhausted(CapOf(r))
     THEN Refuse(r, audit) /\ UNCHANGED <<usageLock, usageDraft>>
     ELSE /\ usageLock' = r
          /\ usageDraft' = [usageDraft EXCEPT ![r] =
                         [ReadUsage EXCEPT ![CapOf(r)] = @ + 1]]
          /\ Goto(r, "writeUsage")
          /\ UNCHANGED audit
  /\ UNCHANGED <<clock, process, vaultFile, replays, usageFile, charged, via,
                 job, operator, opened, sentAt>>

WriteUsage(r) ==
  /\ At(r, "writeUsage")
  /\ usageFile' = usageDraft[r]
  /\ usageLock' = Free
  /\ charged' = charged \cup {r}
  /\ usageDraft' = [usageDraft EXCEPT ![r] = Nothing]
  /\ Goto(r, "audit")
  /\ UNCHANGED <<clock, process, vaultFile, replays, via, job, audit, operator,
                 opened, sentAt>>

WriteUsageFailsLocked(r) ==   \* faulty: the error path keeps the lock
  /\ At(r, "writeUsage")
  /\ usageDraft' = [usageDraft EXCEPT ![r] = Nothing]
  /\ Refuse(r, audit)
  /\ UNCHANGED <<clock, process, vaultFile, replays, usageFile, usageLock,
                 charged, via, job, operator, opened, sentAt>>

WriteUsageFails(r) ==
  /\ At(r, "writeUsage")
  /\ usageFile' \in {usageFile, Torn}
  /\ usageLock' = Free
  /\ usageDraft' = [usageDraft EXCEPT ![r] = Nothing]
  /\ Refuse(r, audit)
  /\ UNCHANGED <<clock, process, vaultFile, replays, charged, via, job,
                 operator, opened, sentAt>>

AuditRequestBestEffort(r) ==   \* faulty: a failed append is ignored
  /\ At(r, "audit")
  /\ Goto(r, "send")
  /\ audit' \in {audit, audit \cup {<<"request", r>>}}
  /\ UNCHANGED <<clock, process, vaultFile, replays, usages, via, job,
                 operator, opened, sentAt>>

\* inject_secret and the relay.request row; either may fail, the row's fsync
\* after the row is in the file
AuditRequest(r) ==
  LET rows == audit \cup {<<"request", r>>} IN
  /\ At(r, "audit")
  /\ \/ Goto(r, "send") /\ audit' = rows
     \/ Refuse(r, audit)
     \/ Refuse(r, rows)
  /\ UNCHANGED <<clock, process, vaultFile, replays, usages, via, job,
                 operator, opened, sentAt>>

\* the method and the client are built, the connection is made, the request
\* leaves; or one of these fails and nothing has left
Send(r) ==
  /\ At(r, "send")
  /\ \/ /\ Goto(r, "await")
        /\ sentAt' = [sentAt EXCEPT ![r] = now]
        /\ UNCHANGED audit
     \/ Refuse(r, audit) /\ UNCHANGED sentAt
  /\ UNCHANGED <<clock, process, vaultFile, replays, usages, via, job,
                 operator, opened>>

\* the whole answer arrives; or the 30 s timeout, or the connection breaks
Await(r) ==
  /\ At(r, "await")
  /\ \/ Goto(r, "finish") /\ UNCHANGED audit
     \/ Refuse(r, audit)
  /\ UNCHANGED <<clock, process, vaultFile, replays, usages, via, job,
                 operator, opened, sentAt>>

\* the answer is sealed, the receipt signed and the relay.response row written
Finish(r) ==
  LET rows == audit \cup {<<"response", r>>} IN
  /\ At(r, "finish")
  /\ \/ Goto(r, "ok") /\ audit' = rows
     \/ Refuse(r, audit)
     \/ Refuse(r, rows)
  /\ UNCHANGED <<clock, process, vaultFile, replays, usages, via, job,
                 operator, opened, sentAt>>

Handler(r) ==
  \/ Admit(r) \/ AdmitFails(r) \/ Enforce(r) \/ Resolve(r)
  \/ OpenReplay(r) \/ WriteReplay(r) \/ WriteReplayFails(r)
  \/ OpenUsage(r) \/ WriteUsage(r) \/ WriteUsageFails(r)
  \/ AuditRequest(r) \/ Send(r) \/ Await(r) \/ Finish(r)

-----------------------------------------------------------------------------
(* The world around the handlers.                                          *)

\* the client disconnects: the server drops the handler's future
Cancel(r) ==
  /\ pc[r] \in Awaiting
  /\ Goto(r, "gone")
  /\ UNCHANGED <<clock, process, vaultFile, replays, usages, via, job,
                 audit, operator, opened, sentAt>>

StartCached(p) ==   \* faulty: a restarted relay reuses its old copy
  /\ ~up[p]
  /\ up' = [up EXCEPT ![p] = TRUE]
  /\ loaded' = [loaded EXCEPT ![p] = IF @ = Nothing THEN vaultFile ELSE @]
  /\ UNCHANGED <<clock, vaultFile, replays, usages, pc, via, job, audit,
                 operator, opened, sentAt>>

\* relay_state: the vault is opened once, and kept
Start(p) ==
  /\ ~up[p]
  /\ up' = [up EXCEPT ![p] = TRUE]
  /\ loaded' = [loaded EXCEPT ![p] = vaultFile]
  /\ UNCHANGED <<clock, vaultFile, replays, usages, pc, via, job, audit,
                 operator, opened, sentAt>>

Dies(r, p) == via[r] = p /\ pc[r] \notin Final \cup {"new"}

\* the process ends: its handlers are lost, the system drops its locks, and a
\* store it was writing may be left truncated
Crash(p) ==
  /\ up[p]
  /\ up' = [up EXCEPT ![p] = FALSE]
  /\ pc' = [r \in Req |-> IF Dies(r, p) THEN "gone" ELSE pc[r]]
  /\ replayDraft' = [r \in Req |-> IF Dies(r, p) THEN Nothing ELSE replayDraft[r]]
  /\ usageDraft' = [r \in Req |-> IF Dies(r, p) THEN Nothing ELSE usageDraft[r]]
  /\ IF replayLock # Free /\ Dies(replayLock, p)
     THEN replayLock' = Free /\ replayFile' \in {replayFile, Torn}
     ELSE UNCHANGED <<replayLock, replayFile>>
  /\ IF usageLock # Free /\ Dies(usageLock, p)
     THEN usageLock' = Free /\ usageFile' \in {usageFile, Torn}
     ELSE UNCHANGED <<usageLock, usageFile>>
  /\ UNCHANGED <<clock, loaded, vaultFile, acceptedAt, charged, via, job, audit,
                 operator, opened, sentAt>>

\* Vault::revoke, delete_secret, revoke_agent, on a copy in memory
Apply(cmd, vault) ==
  CASE cmd.op = "revoke" -> [vault EXCEPT !.revoked = @ \cup {cmd.of}]
    [] cmd.op = "delete" -> [vault EXCEPT !.keys = @ \ {cmd.of}]
    [] cmd.op = "bar"    -> [vault EXCEPT !.barred = @ \cup {cmd.of}]

\* secret delete saves the vault twice, in delete_secret and after it; the
\* other commands once
Saves(cmd) == IF cmd.op = "delete" THEN 2 ELSE 1

\* capability revoke, secret delete, agent revoke: open the vault file (its lock is released
\* once it is read) and edit the copy, ...
CliOpen(cmd) ==
  /\ cli = Nothing /\ done[cmd] = "no"
  /\ cli' = [vault |-> Apply(cmd, vaultFile), cmd |-> cmd, saves |-> Saves(cmd)]
  /\ UNCHANGED <<clock, process, vaultFile, replays, usages, pc, via, job,
                 audit, done, opened, sentAt>>

\* ... then save the whole copy
CliSave ==
  /\ cli # Nothing
  /\ vaultFile' = cli.vault
  /\ IF cli.saves > 1
     THEN cli' = [cli EXCEPT !.saves = @ - 1] /\ UNCHANGED done
     ELSE /\ cli' = Nothing
          /\ done' = [done EXCEPT ![cli.cmd] =
                        IF \E p \in Relay : up[p] THEN "racing" ELSE "alone"]
  /\ UNCHANGED <<clock, process, replays, usages, pc, via, job, audit,
                 opened, sentAt>>

\* the command ends before its last save
CliStops ==
  /\ cli # Nothing
  /\ cli' = Nothing
  /\ UNCHANGED <<clock, process, vaultFile, replays, usages, pc, via, job,
                 audit, done, opened, sentAt>>

Tick ==
  /\ now < MaxTime
  /\ now' = now + 1
  /\ latest' = IF now' > latest THEN now' ELSE latest
  /\ UNCHANGED <<process, vaultFile, replays, usages, pc, via, job,
                 audit, operator, opened, sentAt>>

\* the wall clock is corrected: what has expired may be valid again, and what was
\* pruned stays pruned
SetBack ==
  /\ now' \in 0..(now - 1)
  /\ UNCHANGED <<latest, process, vaultFile, replays, usages, pc, via, job,
                 audit, operator, opened, sentAt>>

Next ==
  \/ \E r \in Req : Handler(r) \/ Cancel(r)
  \/ \E r \in Req, p \in Relay, o \in Offer : Receive(r, p, o)
  \/ \E p \in Relay : Start(p) \/ Crash(p)
  \/ \E cmd \in Command : CliOpen(cmd)
  \/ CliSave \/ CliStops
  \/ Tick \/ SetBack

Spec == Init /\ [][Next]_vars

\* The runtime polls every live handler, and the 30 s timeout and the
\* resolver's own end its two waits.  Nobody promises that a client sends, that
\* a relay is started or that the operator acts.
FairSpec == Spec /\ \A r \in Req : WF_vars(Handler(r))

-----------------------------------------------------------------------------
(* What must hold.                                                         *)

\* Every variable keeps its type, a store's lock is held exactly by the arrival
\* that is about to write the store, and a replay key is formed from a proof.
TypeOK ==
  /\ now \in Time /\ latest \in Time /\ now <= latest
  /\ up \in [Relay -> BOOLEAN]
  /\ loaded \in [Relay -> {Nothing} \cup Vault]
  /\ \A p \in Relay : up[p] => loaded[p] \in Vault
  /\ vaultFile \in Vault
  /\ replayFile \in {Torn} \cup ReplayMap /\ replayLock \in {Free} \cup Req
  /\ usageFile \in {Torn} \cup UsageMap /\ usageLock \in {Free} \cup Req
  /\ replayDraft \in [Req -> {Nothing} \cup ReplayMap]
  /\ usageDraft \in [Req -> {Nothing} \cup UsageMap]
  /\ \A r \in Req : At(r, "writeReplay") <=> replayLock = r
  /\ \A r \in Req : At(r, "writeUsage") <=> usageLock = r
  /\ \A r \in Req : At(r, "writeReplay") => replayDraft[r] \in ReplayMap
  /\ \A r \in Req : At(r, "writeUsage") => usageDraft[r] \in UsageMap
  /\ \A r \in Req :
       ~At(r, "new") => /\ via[r] \in Relay /\ loaded[via[r]] \in Vault
                        /\ job[r] \in Offer
  /\ \A r \in Req :
       \/ At(r, "openReplay")
       \/ pc[r] \in {"enforce", "resolve"} /\ NeedsProof(CapOf(r))
       => job[r].proof \in ProofSet
  /\ pc \in [Req -> Step \cup Final]
  /\ via \in [Req -> {Nothing} \cup Relay]
  /\ job \in [Req -> {Nothing} \cup Offer]
  /\ audit \subseteq {"request", "response", "denied"} \X Req
  /\ cli \in {Nothing} \cup Session
  /\ done \in [Command -> {"no", "racing", "alone"}]
  /\ opened \subseteq Req /\ charged \subseteq Req
  /\ acceptedAt \in [Req -> {Nothing} \cup Time]
  /\ sentAt \in [Req -> {Nothing} \cup Time]

\* No interleaving of handlers, processes, crashes, cancelled calls and failed
\* writes lets more requests out under a capability than its max_uses.
UsesWithinBudget ==
  \A c \in Cap :
    Claims[c].maxUses # NoLimit =>
      Cardinality({r \in Sent : CapOf(r) = c}) <= Claims[c].maxUses

\* As long as usage-store.json parses, its counters are the uses granted so far:
\* no update of another handler or process is lost, none is counted twice, and
\* none is given back when the request then fails.
StoreCountsUses ==
  usageFile # Torn =>
    \A c \in Cap : usageFile[c] = Cardinality(ChargedTo(c))

\* Why the budget holds: the counters are the grants, the holder of the lock
\* writes the successor of what is still in the file, a grant comes before the
\* audit row and the send, and it is never undone.
BudgetInv ==
  /\ StoreCountsUses
  /\ \A r \in Req : At(r, "writeUsage") =>
       /\ usageFile # Torn
       /\ usageDraft[r] = [usageFile EXCEPT ![CapOf(r)] = @ + 1]
       /\ Claims[CapOf(r)].maxUses # NoLimit =>
            usageFile[CapOf(r)] < Claims[CapOf(r)].maxUses
  /\ \A r \in Req : pc[r] \in Charging => r \in charged
  /\ \A r \in charged : pc[r] \in Charging \cup Final
  /\ Sent \subseteq charged
  /\ \A r \in Sent : pc[r] \in {"await", "finish"} \cup Final
  /\ \A c \in Cap : Claims[c].maxUses # NoLimit =>
       Cardinality(ChargedTo(c)) <= Claims[c].maxUses

\* A store left truncated by a crash or a full disk is never taken for an empty
\* one: from then on nothing is accepted, charged, or repaired.
TornStoresStayShut ==
  [][/\ usageFile = Torn => usageFile' = Torn /\ charged' = charged
     /\ replayFile = Torn => replayFile' = Torn /\ acceptedAt' = acceptedAt]_vars

SameNonce(r, s) ==
  /\ acceptedAt[r] # Nothing /\ acceptedAt[s] # Nothing
  /\ ReplayKeyOf(r) = ReplayKeyOf(s)

\* Two arrivals with one nonce can both pass the replay cache only when the clock
\* has shown a time after the capability's expiry, at which the entry was pruned,
\* before one of them passed: however far back the clock is then set.
ReplayOnlyAfterExpiry ==
  \A r, s \in Req :
    r # s /\ SameNonce(r, s) =>
      \E q \in {r, s} : acceptedAt[q] > Claims[CapOf(q)].exp

\* Whatever left for an upstream was counted, written to the audit log and, when
\* the capability binds an agent, its nonce was consumed, whatever happens to
\* the handler afterwards.
SentIsAccountedFor ==
  \A r \in Sent :
    /\ r \in opened \cap charged
    /\ <<"request", r>> \in audit
    /\ NeedsProof(CapOf(r)) => acceptedAt[r] # Nothing

Use == INSTANCE CapabilityUse WITH
  Limit <- [c \in Cap |-> Claims[c].maxUses],
  granted <- [c \in Cap |-> ChargedTo(c)],
  performed <- Sent

\* The relay implements the abstract capability: charging is the grant, the
\* departure of the request its performance, and everything else a stutter.
ImplementsCapabilityUse == Use!UseSpec

Effective(cmd, vault) == Apply(cmd, vault) = vault

\* A capability or an agent revoked, or a secret deleted, while no relay runs is
\* never reinstated: the change stays in the vault file and in every copy that
\* can be written back.
CommandsAloneHold ==
  \A cmd \in Command :
    done[cmd] = "alone" =>
      /\ Effective(cmd, vaultFile)
      /\ \A p \in Relay : up[p] => Effective(cmd, loaded[p])

\* A handler that took a request ends: no lock is left held by a handler that
\* failed, was dropped or died, and both waits of a handler are bounded.
EveryRequestSettles ==
  \A r \in Req : At(r, "admit") ~> pc[r] \in Final

-----------------------------------------------------------------------------
(* What the documents say and the code does not do.                        *)

\* the help of `capability revoke`, "Revoke a capability token so the relay
\* rejects it immediately": a relay that starts after the revocation was reported
\* done, at least, has it.
RevocationIsLoaded ==
  [][\A p \in Relay, cmd \in Command :
       cmd.op = "revoke" /\ done[cmd] # "no" /\ ~up[p] /\ up'[p] =>
         Effective(cmd, loaded'[p])]_vars
=============================================================================
