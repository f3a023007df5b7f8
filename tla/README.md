# Lockrail in TLA+

Lockrail keeps credentials in an encrypted vault and lends them to agents through
signed, time-bound capabilities: a local relay checks a capability, injects the
secret into the upstream request and seals what comes back. This directory models
the parts of that system whose correctness depends on order, concurrency, crashes
and clocks, checks them with TLC on small instances, and proves the most important
results with TLAPS for every value of the constants.

Line numbers below are those of the repository's files under `crates/`.

## 1. Inventory

### Components

**Relay** (`lockrail-relay/src/lib.rs`). *State*: a `Vault` per process, opened once
(`relay_state`, main.rs:3085) and kept behind a mutex; `replay-cache.json` and
`usage-store.json`, files shared by all processes on one home, each with a lock
file. *Operations*: `POST /relay` runs `perform_relay` as one asynchronous handler
per request: verify the token and the proof, decrypt the secret (`use_key`, which
saves the vault), enforce the policy, resolve the host, `check_and_store` the nonce,
`record_use`, append `relay.request`, send with a 30 s timeout, seal and receipt the
answer, append `relay.response`; any error appends `relay.denied` and answers 403.
*Hard*: handlers interleave at awaits and locks, also across processes; a client
that disconnects drops the future at an await; `fs::write` truncates before it
writes; the vault copy and the clock reading are stale when used. *Correct when*: no
more requests leave than `max_uses`; a nonce is taken once; what leaves is counted
and audited; a torn store shuts the relay instead of resetting it; every handler
ends.

**Capability and proof protocol** (`lockrail-protocol/src/lib.rs`). *State*: none,
signed values. *Operations*: `issue`/`verify` of tokens, `sign`/`verify` of access
proofs and receipts, `enforce_request` (hosts, methods, paths, headers, private
addresses). *Hard*: boundaries of time (skew, `iat`, `nbf`, `exp`), wildcard
matching, address classes, headers in two spellings. *Correct when*: a token is
accepted exactly in its window; what leaves is what was asked for when the capability
was issued, and what was asked for is not denied; the secret arrives in its header.

**Vault** (`lockrail-vault/src/lib.rs`). *State*: `vault.lockrail` (one encrypted
file: keys, agents, capabilities' revocations, issuer key), `vault.lock`, and
`agents/<id>.agent.json`. *Operations*: `init`, `open`, `save`, keys, agents,
secrets, revocations. *Hard*: `open` reads under the lock and lets it go, `save`
replaces the whole file by the copy in memory: every command is a read-modify-write
with no lock around it; saves may be cut between lock, truncate, write, fsync and
rename; the public document is written after the vault. *Correct when*: the file is
always one whole copy; no agent is listed without its key; what a completed command
did is not undone when nobody else was at work.

**Audit log** (`lockrail-audit/src/lib.rs`). *State*: `audit.log`, JSON lines
chained by hashes. *Operations*: `append` (lock, read all, write the row, write the
newline, fsync), `verify`, `read_all`. *Hard*: writers of several processes, verify
without a lock in the middle of an append, a writer cut within a row or between row and
newline, edits of the file. *Correct when*: an honest log verifies at every instant, up to a
row that is half written, an edited one does not, acknowledged events are never lost or reordered.

**Sealing** (`lockrail-protocol/src/seal.rs`). *State*: none. *Operations*: seven
scanners, `normalize_findings`, `replace_with_handles`. *Hard*: overlapping
findings of different confidence, slices at the end of the text. *Correct when*: no
part of a finding that is to be sealed survives in the text and the rest is unchanged.

**Proxy** (`lockrail-proxy/src/`). *State*: connections, the local CA. *Operations*:
`CONNECT`, TLS interception, buffering and sealing of bodies, passthrough of event
streams and of bodies that cannot be rewritten; `install-ca` makes the CA, saves it through
one `.tmp`, writes its certificate and puts that into the trust store. *Hard*: every request
that holds a secret opens and saves the vault, beside other requests and commands; installs
are cut, cross each other, and the home is archived under them. *Correct when*: a
body is sealed whole or forwarded untouched, what a handle
stands for is stored before the handle leaves, and the CA a proxy signs with is the one the
system was told to trust.

**Command line** (`lockrail-cli/src/`). *State*: the home directory (config,
profile, vault key, shims). *Operations*: setup and init, secrets, agents,
capabilities, relay start, env seal and run, shells with the secrets of one environment,
sync to GitHub and Vercel, export and import of `.env` files, PTY guard, web UI. *Hard*: the
vault key created and then written, a first `init` by two processes, homes archived under
running commands, deletion before creation in the Vercel sync, several commands on one vault,
handles that must be turned back, lines of a file that two parsers read differently. *Correct
when*: a vault stands beside the key that opens it; what was reported ready is never lost;
a handle resolves as long as its secret is not deleted; no environment gets what was set for
another; a sealed file runs as the original did, and an exported one is imported as it was.

### How they interact

```
 client --POST /relay--> relay handler --send--> upstream
                          |  |  |   \-- append --> audit.log <-- verify -- operator
                          |  |  \-- record_use --> usage-store.json   (file lock)
                          |  \-- check_and_store -> replay-cache.json (file lock)
                          \-- use_key/save -----> vault.lockrail      (file lock)
 operator --open ... save-----------------------> vault.lockrail
          \--write_public_agent_doc-------------> agents/<id>.agent.json
```

All interaction between processes goes through files: three stores and a log
under advisory locks that the system drops when a process ends, and public
documents under none. Inside a relay process handlers share the vault mutex only.

The hazards this leads to, each at its line, are in `PROJECT.json`.

## 2. Modules

| module | models | extends |
|---|---|---|
| `CapabilityUse` | what a capability promises about use: granted at most once per arrival and within the limit, performed at most once and only after the grant | |
| `Relay` | `perform_relay`, both stores, crashes, disconnections, relay starts, the operator's commands on the vault | instantiates `CapabilityUse` |
| `AuditLog` | append in its writes, verify, cut writers, edits of the file | |
| `VaultFile` | operators' commands as scripts of edits and saves over one vault file, and the public documents | |
| `Seal` | `seal_text`: scanners, normalisation, filter, replacement | |
| `EnvFile` | the files those findings are in: `env run` of a sealed one, `secret export` and `secret import` | `Seal` |
| `Policy` | `capability issue`, `enforce_request` with its wildcards and host rules, `inject_secret` | |
| `Setup` | `setup`, `setup --reset` and `init` of several processes on one home | |
| `ProxyCa` | `proxy install-ca` beside them: the CA's files, the anchors and the bundle of the system | `Setup` |
| `Handles` | `scan_and_seal` in its callers, `env seal` and `env run`, the exchanges of the proxy | |
| `Sync` | the environments of a vault; the syncs to Vercel and GitHub, with lost requests and answers; `lockrail shell` | |
| `MCRelay`, `MCVaultFile`, `MCPolicy`, `MCHandles`, `MCSync` | instances for TLC | the module each is named after |
| `MCSeal`, `MCSetup` | instances for TLC | `EnvFile`, `ProxyCa` |
| `RelayProofs` | theorems on `Relay` | `Relay` |
| `VaultFileProofs` | theorems on `VaultFile` | `VaultFile` |
| `AuditLogProofs` | theorems on `AuditLog` | `AuditLog` |
| `SealProofs` | theorems on `Seal` and `EnvFile` | `EnvFile` |
| `HandlesProofs` | theorems on `Handles` | `Handles` |
| `SyncProofs` | theorems on `Sync` | `Sync` |
| `SetupProofs` | theorems on `Setup` beside `ProxyCa` | `ProxyCa` |
| `PolicyProofs` | theorems on `Policy` | `Policy` |

### Relay

One action is the stretch of a handler between two points where somebody else can
act: an await, a lock, the replacement of a file. `pc[r]` names the next stretch of
arrival `r`:

| step | action | code |
|---|---|---|
| `new` | `Receive` | the request reaches `relay_handler` of a process that is up |
| `admit` | `Admit`, `AdmitFails` | token, revocations, proof, `use_key` under the vault mutex |
| `enforce` | `Enforce` | `enforce_request`, body size, content type |
| `resolve` | `Resolve` | DNS and the private-address check (an await) |
| `openReplay`, `writeReplay` | `OpenReplay`, `WriteReplay`, `WriteReplayFails` | `check_and_store` before and at its `fs::write` |
| `openUsage`, `writeUsage` | `OpenUsage`, `WriteUsage`, `WriteUsageFails` | `record_use`, the same way |
| `audit` | `AuditRequest` | header injection and the `relay.request` row |
| `send`, `await` | `Send`, `Await` | the request leaves; the answer, an error or the timeout |
| `finish` | `Finish` | sealing, receipt, the `relay.response` row |

`Cancel` drops a handler at an await; `Crash` ends a process with its handlers, the
system drops its locks, and a store it was writing may stay truncated (`Torn`).
`Start` loads the vault file once. `CliOpen`, `CliSave`, `CliStops` are the
operator's `capability revoke`, `secret delete` (two saves) and `agent revoke`.
Every fallible step may fail wherever the code returns an error, before or after
its effect on the file.

Abstracted: a request is a record of the capability it names, its proof (nonce,
time, whether the signature verifies) and the verdict of the policy on it
(`lawful`); a replay entry is its key, because its expiry is the capability's `exp`;
the vault is the sets a relay looks at; time is ticks, `MaxSkew` of them standing for
the 120 s. History variables (`opened`, `acceptedAt`, `charged`, `sentAt`, `done`)
record what has happened and guard nothing, except that `done` lets each operator
command run to completion once.

### VaultFile

A command is a script of edits computed from the vault it opened: `SaveAgent` is the
private key, the record and the public document; `Rotate` is `SaveAgent` of a fresh
id and then `RevokeAgent` of the id that `Found` (the code's `agent_by_name`) picks,
the first match in the order of ids, revoked or not. Each edit that saves is three
steps (`Begin`: edit the copy, take the lock, truncate `vault.tmp`; `Write`;
`Replace`: rename, unlock). A document is written without a lock (`Publish`) and through one
`<id>.agent.tmp`: it arrives whole unless another command is about to write the same one
(`Rivals`), and may then be torn.
Between any two steps the other operators run, and `Stops` ends the command.
`issued` stands for the uniqueness of uuids. The order of agent ids is a model of
the random order of uuids: a new id may sort before or after the old ones.

### AuditLog

A row is its sequence number, its event, the previous hash and its own; a hash is
its preimage, which is what "no collisions" means. A line is a row or `Bad`. A
writer that appends to a file without a final newline continues its last line
(`Written`). `write(2)` of a row need not look like one step to somebody who reads without the
lock, nor to a crash, so the row arrives in two pieces (`WriteRow`, `WriteRest`): between them
the last line is `Bad`. `CutShort` ends a writer at any point; `Tamper` edits a log that can be
read, once, and does not recompute the chain.

### Seal

A text is a sequence of lexemes, the stretches that the scanners tell apart: a long
random stretch, a known prefix, `bearer`, a JWT, the two lines around a private key, a
database scheme, a key word, the separators, `@` and quotes. Thresholds of length and
entropy are the lexeme `"x"`, which meets them all. Each scanner is an operator that
gives its findings (`Hits` is its search from left to right, which resumes where the
code sets `offset`); `normalize_findings` is one step per finding in the order of the
stable sort (`Kept`), then `Filter`, then one step per handle (`Replace`), with the output
as stretches of the input that were copied or replaced. The vectors of findings are sets here:
their order is `Before`, that of the sort, which is total on findings (`Rank` is the order of the
scanners, which a stable sort leaves), so the code's `last` is `LastOf` and its next one `FirstOf`. `Overruns` is the slice out of
range after a `bearer ` at the end of the text: the run of the program ends there
(`panicked`).

### EnvFile

The file of `EnvFile` is the text of `Seal`, and what `env seal` writes is its `pieces`: a handle
counts as one character. Two parsers read such a file. `EnvOf` is `env run`: trimmed lines
with a first `=`, values as they stand, a value that is a handle and nothing else resolved.
Entries are kept by the place where their line begins (`Begins`, `LineAt`), which is their order:
`AsMap` takes of two with one key the later. What is read between double quotes is a recursive
function over the characters (`DoubleQuoted`, by `AfterChar`).
`ImportDotenv` is `import_dotenv`: quotes, escapes and comments interpreted, pairs without a name
dropped, and `Stored` the `set_secret` loop that ends at a name it refuses. `ExportDotenv` writes
the other way. `\n`, `\r` and `\t` do not occur: no lexeme begins with these letters.

### Policy

`Claims` is `preset_claims` with `CapabilityClaims::new`: what was given, else what the
preset says, else the defaults, and a rule for every path. `EnforceRequest` is one
conjunct per early return; the order of the returns only chooses the error.
`Cursor` is the loop of `wildcard_match` as a recursive function over the pattern: at each star,
where the code's cursor is after the part before it (`Behind`), or `Fail`, beyond every value,
when that part was not found. `WildcardMatch` then tests the part behind the last star.
Whether a host is private is a fact of the request (`local`); rules of hosts and paths
are matched on characters, as in the code. `Glob`, `HostMeant` and `PathMeant` say
independently what the arguments mean: how far the first characters of a pattern may reach into
the value, a star as far as one likes (`Reached`); `*.` as the hosts that have the domain behind
one of their dots. In `Relay` the verdict of this module is the field `lawful`.

### Setup

A home is a directory with a key file (`Nothing`, `Empty` between its creation and its
write, or a random key) and a vault (the password that encrypts it, the issuer key it was
made with, whose agents it has). `setup` is content with any agent, `init` only with its own
names, for which one name stands. `dirs` keeps the archived homes too. A command walks
through the steps of `setup_apply` or `init_lockrail`, each a look at the file system or
one change of it; one save of the vault is one step, because `VaultFile` has its parts.
`InHome` is `create_dir_all` and a write by path, which makes a new home when the old one
has been archived, while `WriteKey` writes into the file it opened, wherever that is
now. Left out are the other files of a home (configuration, profile, audit log, shims): no
later step depends on them. `strayed` and `ready` are history.

### ProxyCa

The commands of `Setup` and of `ProxyCa` share the home and the bound on commands. An install
walks through `CaStore::load`, `save` (open of the one `.tmp` name, write, rename, each a step) and
`install_ca_linux` (certificate, copy into the anchors, update of the bundle). `Written` is what a
file holds when two have written it: whichever came last, or the tail of the longer one behind it
(`Torn`). A file opened and then renamed is followed by its handle (`file`, `open`), so that a
writer of the tmp writes into the CA another has renamed it to, or into an archived home. The
anchors and the bundle outlive every home. `certified` is history: the home whose install last
reported success alone, until two installs cross.

### Handles

A text is a sequence of pieces: secrets, handles, other text, bytes that are not UTF-8. A
command is a script. A `scan` opens the vault (`Scan`) and stores the findings of one text one
after the other (`Store`: a name that exists is skipped, as `save_sealed_findings` does); only
then comes the step that lets the sealed text out (`give`, `pass`, or the truncation and write
of an env file). `seal`, `hook` and `pipe` scan one text, `run` one for every argument and line, a
proxied message its body. `Resolve` is `resolve_handle`: it compares the kind of the
handle with the kind of the key, which `classify_kind` took from the key's name
(`KeyKind`), and `use_key` saves the copy. A message of the proxy has its encoding, type
and body.

A session is `apart` while no other one holds the vault when it does (`HoldsVault`: it has a copy
that it may still save) and nothing that it scans is deleted. Sessions that are apart may overlap as
they like otherwise; two that hold the vault at once may each save over the other, and what is then
lost is the code's behaviour (section 5). `handed` is history: keys whose handles were given out by
a session that was apart, and that nobody has deleted since.

Left out: what a wrapped program prints is shown redacted (`redact_for_display`, main.rs:1428-1443
and 1494-1497), with handles that no vault has; the properties speak of handles from
`scan_and_seal`. The length and framing headers of a rewritten message are set in one function
(`set_rewritten_body_headers`) and are not modelled.

### Sync

A step of `Sync` is one request of `sync_vercel` or `sync_github`. `List` takes a page and one id
per key from it, as the `HashMap` does; `Delete` and `Post` are the two halves of a
replacement, `Put` the upsert of GitHub. Every request may be lost or refused (`Breaks`), or be
executed with its answer lost (`AnswerLost`); either ends the command. The services are
external: Vercel refuses an id it does not have and a second variable of a key for a target
that has one. A request is executed at once or never. The vault is a value and a set of
environments for each name: `SetSecret` replaces both (`secret_metadata` is made anew),
`DeleteSecret` removes them, `InEnv` is the filter of `secrets_for_env` and of `build_env_map`. A
value is its number and the environment it was set for, so that the properties can tell whose it
is. `lockrail shell` is one step that takes the environment and keeps it until `Exit`: names are
turned into keys on characters (`Sanitized`), two names may give one key, and the last in the
order of names wins (`Winner`). What is left of the pairs of a sync is the set of their places
in the order of names (`todo`), and the loop takes the least (`Now`).

## 3. Runs

`tlc -config <cfg> <module>`; `PROJECT.json` lists the properties of each run.

### Runs that pass

**relay** (`MCRelay_relay.cfg`, 1.94 million states). Two relay processes that start, crash
and save their copies of the vault, two requests, two bearer capabilities of one use on one
usage store, an operator who revokes a capability and deletes a credential, no clock. Shows
`UsesWithinBudget`, `StoreCountsUses`, `TornStoresStayShut`, `CommandsAloneHold`, and that the relay implements `CapabilityUse` with
`granted[c]` the arrivals charged to `c` and `performed` those sent. Two requests compete
for the use of one capability, or the second uses the other entry of the same file; with two
processes a crash drops one lock while the other process waits, and one may start between the
operator's open and save and the other after; of two commands the second may save over the
first. Requests are symmetric and so are relays (no property tells them apart).

**replay** (`MCRelay_replay.cfg`, 766 000 states). One relay, two requests, an
agent-bound capability that expires at 1 while the wall clock runs to 2 and is set back to any
earlier time, offers that repeat a nonce, use another, come early, are forged, lack a proof or
are unlawful. Shows `TypeOK`, `ReplayOnlyAfterExpiry`, `SentIsAccountedFor` and, under
fairness, `EveryRequestSettles`. A replay needs two arrivals; time 2 is past expiry, past
the skew of the first proof, and the tick where an entry is pruned; set back from there, the
clock makes the capability valid again while its nonce is forgotten. That is why the property
counts by `latest`, the latest time the clock has shown, and not by what it shows now.
`ReplayOnlyAfterExpiry` is deliberately not "a nonce is accepted once": the token is
checked before name resolution and the cache prunes by the clock after it, so two
requests admitted in time, one of them held in DNS, both pass once the capability
has expired.

**audit** (`MCAuditLog.cfg`, 107 000 states). Two writers, four events, one edit. Shows
`VerifyAcceptsHonestLog`, `AckedInOrder`, `TamperingDetected`, `AppendOnlyOrShut`. Four
rows are enough to alter, remove or exchange rows in the middle and append after. While a row is
half written `verify` ends with a parse error; `VerifyAcceptsHonestLog` says that this is all, that
the lines before it verify. It never says that an honest log was altered.

**shared** (`MCVaultFile_shared.cfg`, 2.2 million states). Two operators who set up and
rotate agents of one name, by name and by id, and import a secret. Shows
`VaultTypeOK`, `FileIsWhole`, `ListedAgentsHaveKeys`, `NamesStayUsable`,
`UndisturbedIsKept` and `DocsFollowVault`. Three ids let both operators rotate the agent the
first one made, or one of them twice. Secrets are edited because their saves overwrite the agents
like any other; deleting one is the same save. `DocsFollowVault` speaks of the time before two commands
met, which they break and no document promises then.

**seal** (`MCSeal.cfg`, 617 000 states). Every text of up to four lexemes, of up to
five of those of an assignment, and every file of up to two lines of given shapes, in the default
options and in those of redaction; files exported from two secrets whose values have up to three
characters. Shows `KeptInOrder` (no slice of the replacement is out of range), `NothingIsLost`,
`NestedAreHidden`, `SealedRunsTheSame` and `ImportedAsExported`. Four lexemes hold two findings of
any two scanners; five hold an assignment whose value has a prefix of its own (a second one
after it takes six, as in the violation, or a line of its own); two lines hold two
assignments, each in the other's context, and a pair
in the context of a key word or comment before it; three characters hold an escape inside
quotes. `SealedRunsTheSame` is about plain lines only: section 5 says what becomes of others.

**policy** (`MCPolicy.cfg`, 181 000 states). Patterns of up to six characters against paths
of up to five, host rules of up to five characters against hosts of up to five, all
combinations of presets, arguments, schemes, ports and queries, all sets of headers of
three names in two spellings. Shows `SentWasAsked`, `AskedIsSent`, `SecretInItsHeader`.
Six characters hold a first, a middle and a last part between stars, and five characters
of path the places where taking the leftmost one could go wrong.

**setup** (`MCSetup.cfg`, 645 000 states). Two processes, three commands in all, of every kind: setup,
reset and init with and without a password, and install-ca. Shows `VaultKeepsItsKey`, `ReadyIsKept`,
`ResetNeverBlocked` and `StartedIsTrusted`. Three commands are a cut one and its repetition beside
one of another process, or a report of success and two that cross after it. `ResetNeverBlocked` speaks of a reset that met no other command,
`ReadyIsKept` of what such a command reported: whatever comes later, the rest may overlap.
`StartedIsTrusted` asks for more: that no two installs have crossed since, because then neither the
tmp nor the anchor is anybody's own, and the last update may have made the bundle of the other's
certificate. It does not ask that setups keep away. Installs of one process after another may be
cut at any step: from a saved CA on they all install the same one.

**handles** (`MCHandles.cfg`, 2.3 million states). A shell that seals, runs programs, seals and runs an
env file and deletes a key, and a client of the proxy, two commands or exchanges each; messages
compressed or not, of every type, to the service and back. Shows `HandlesAreKept`,
`SealedOrUntouched`, `HandlesUnderTheirKindResolve`. Two of each let a command overlap one that
follows a third, whose handles both must leave in the vault.

**sync** (`MCSync.cfg`, 1.8 million states). Three syncs or shells of two environments by two processes, to
a project that holds nothing, one variable more than a page, or two variables of one key, while
one secret of four names is set or deleted. Shows `ReportedIsDeployed`,
`EnvironmentsApart`, `RefusedOnlyUnseen`, `GapsAreCounted`. Two may cross or be cut and the third
comes after; a page of two variables is exceeded by three; one change is a stale copy, a secret
that moves to the other environment, or one that is gone. Of the four names two make one key, one
makes `LOCKRAIL_PASSWORD`, one begins with a digit. Processes are symmetric.

`shared` checks for deadlock: commands that need no new id can always
begin. In the other runs the system really stops, once every arrival is final, every
event used and every command done, so deadlock is not checked there.

### Runs that find what a document says violated

| run | the document | the code |
|---|---|---|
| revoked | help of `capability revoke`: the relay rejects it immediately | a relay looks at the copy loaded when it started, and `use_key` saves that copy over a later revocation: even a relay started afterwards has not got it |
| env | README.md:278: `.env` files are sealed, safe to inspect | a whole line `KEY=value` in the context of another key is a longer finding of low confidence than the value; `normalize_findings` keeps it alone, and by default low confidence is not sealed |
| resolve | docs/QUICKSTART.md:67-69: `env seal` and then `env run`; README.md:34: opaque handle round-trip | `env seal` stores the key as `env/<kind>/<fp>`, whose kind `classify_kind` makes `env`; `resolve_handle` wants the kind of the handle, finds nothing, and the program gets the handle |

### Fairness

Only `FairSpec` of `Relay` states any: weak fairness of each `Handler(r)`. The tokio
runtime polls every ready task; the two waits of a handler (name resolution, the
upstream) end by themselves, the second by the 30 s timeout; and a lock is held for
one read and one write of a small file. Nothing is assumed of clients, of the
operator, of relay starts, crashes or the clock. `Handler(r)` as a whole is enough,
because no step of a handler can be enabled and disabled for ever by others: the
locks are the only such guards, there are finitely many arrivals, and each takes a
lock once. `VaultFile` and `AuditLog` state no liveness: nothing in the code promises
that `flock` is fair among processes.

### Bounds

`Req`, `Relay`, `Operator`, `Agent`, `Event` are finite sets in the configurations;
`MaxTime` bounds the clock; an operator command of `Relay` succeeds once; one edit of
the audit log; an agent id is issued once; `Runs` bounds the commands of a party in `Handles`, and all
commands in `Setup`, `ProxyCa` and `Sync`; `MaxChanges` bounds how often a secret is set or deleted
there. No other counter is bounded: use counts
cannot exceed the number of arrivals.

## 4. Proofs

`tlapm <module>`; all obligations are proved by Z3, Zenon and LS4 from these named
assumptions, which TLC also evaluates in every run:

- `ConstantsAssumption` (Relay): finitely many arrivals, claims and offers of their
  types; `DistinctAssumption`: marks differ from the values they are used among.
- `OperatorAssumption`, `MarkAssumption` (VaultFile): agent ids are ordered like
  numbers; commands are of their type; marks differ from the values.
- `AuditAssumption` (AuditLog): `Free` is no writer; `SetupAssumption` (Setup):
  commands are of their type, their bound is a number, `Nothing` differs from passwords,
  keys and vaults, and no password of a user is a generated key.
- `CharAssumption`, `AskAssumption`, `RequestAssumption` (Policy): hosts and paths are texts; the
  presets have the schemes `http` and `https`, and none of their paths ends in a slash without a
  star (true of every table of presets.rs: such a path would be a directory to `capability issue`
  and exact to a preset); the path of an http or https URL begins with a slash, as the URL parser
  leaves it; the client does not know the secret.
- `SealAssumption` (Seal): texts are sequences of lexemes, the two options are Booleans, and
  the context of a long run is a number of lexemes.
- `SecretsAssumption` (EnvFile): the secrets of an environment are a sequence of names and values
  over lexemes, and a name is not empty and has no blank or line end (`validate_name`); `Nothing`
  is none of them.
- `OffersAssumption` (Handles): commands are of their type, and `Runs` is a number;
  `PieceAssumption`: text without secrets, bytes that are not UTF-8 and what replaces them are
  no secrets and no handles, and no kind of secret is named like a prefix of the proxy.
- `SyncAssumption` (Sync): there are finitely many processes and at least one target, `Order` has
  every name once, the others' keys are no names, `Nothing` is no value (nor, in
  `SessionAssumption`, a sync); `HeldAssumption`: a name of the vault is tagged with the environment
  its value is for, as `secret_metadata` leaves it; `BeforeAssumption`: what Vercel itself keeps to,
  one variable for an id, and for a key and a target.

| theorem | states | rests on |
|---|---|---|
| `TypeCorrect` | `[]TypeOK` | itself inductive: who is at `writeUsage` or `writeReplay` is who holds the lock |
| `BudgetInvariant` | `[]BudgetInv` | `TypeOK` |
| `BudgetHolds`, `CountersExact` | `[]UsesWithinBudget`, `[]StoreCountsUses` | `BudgetInv` |
| `RelayImplementsUse` | `Spec => ImplementsCapabilityUse` | `BudgetInv` |
| `TornStoresShut` | `Spec => TornStoresStayShut` | `TypeOK`, `BudgetInv` |
| `ReplayBounded` | `[]ReplayOnlyAfterExpiry` | `ReplayInv` |
| `SentAccounted` | `[]SentIsAccountedFor` | `ProgressInv`, `BudgetInv` |
| `CommandsHold` | `[]CommandsAloneHold` | `CommandsInv` |
| `VaultTypeCorrect`, `FileAlwaysWhole` | `[]VaultTypeOK`, `[]FileIsWhole` | `VaultInv` |
| `ListedAgentsKeepKeys` | `[]ListedAgentsHaveKeys` | `VaultInv`, `KeysInv` |
| `UndisturbedStays` | `[]UndisturbedIsKept` | `VaultInv`, `KeysInv`, `SettledInv` |
| `NamesAlwaysUsable` | `[]NamesStayUsable`, from `NoRevocation` | `VaultInv`, `KeysInv`, `NamesInv` |
| `DocsAlwaysFollow` | `[]DocsFollowVault` | `VaultInv`, `SettledInv`, `DocsInv` |
| `AuditTypeCorrect`, `HonestLogVerifies` | `[]AuditTypeOK`, `[]VerifyAcceptsHonestLog` | `LogInv`, `ChainInv` |
| `TamperingShows` | `[]TamperingDetected` | `LogInv`, `ChainInv` |
| `AppendsOnlyOrShut` | `AuditSpec => AppendOnlyOrShut` | `LogInv` |
| `AckedStandInOrder` | `[]AckedInOrder` | `LogInv`, `AckInv`, `HalfAckInv` |
| `HomeTypeCorrect` | `[]HomeTypeOK` | itself inductive: a step of a command comes with an open file and a key of their types |
| `VaultsKeepKeys` | `[]VaultKeepsItsKey` | `HomeTypeOK`, `KeyInv` |
| `ResetSucceeds` | `[]ResetNeverBlocked` | `HomeTypeOK`, `AloneInv` |
| `ReadyStays` | `[]ReadyIsKept` | `HomeTypeOK`, `AloneInv`, `ReadyInv` |
| `ProxyTrusted` | `[]StartedIsTrusted` | `HomeTypeOK`, `AloneInv`, `TrustInv` |
| `AlwaysInOrder`, `NothingIsEverLost`, `NestedAreAlwaysHidden` | `[]KeptInOrder`, `[]NothingIsLost`, `[]NestedAreHidden`, of `seal_text` alone | `SealInv` |
| `FilesAreSealedWhole` | the same three of `EnvFile`'s `Spec` | `EnvInv` |
| `SealedAlwaysRunsTheSame` | `[]SealedRunsTheSame` | `EnvInv`, `PlainFindings`, `TwinEnv` |
| `ImportedAlwaysAsExported` | `[]ImportedAsExported` | `EnvInv`, `ImportIs` |
| `WildcardIsGlob` | `WildcardMatch(p, v) <=> Glob(p, v)` for all texts | `CursorIs`, `ReachedAll` |
| `WhatIsSentWasAsked`, `WhatWasAskedIsSent` | `[]SentWasAsked`, `[]AskedIsSent` | `PolicyInv`, `WildcardIsGlob`, `HostIsMeant`, `NewRuleIsMeant`, `PresetRuleIsMeant` |
| `SecretAlwaysInItsHeader` | `[]SecretInItsHeader` | `PolicyInv` |
| `HandlesAlwaysKept`, `UnresolvedAreElsewhere` | `[]HandlesAreKept`, `[]HandlesUnderTheirKindResolve` | `ScriptIsMade`, `IInv` of `HandlesProofs` |
| `AlwaysSealedOrUntouched` | `[]SealedOrUntouched` | `ScriptIsMade` |
| `SyncAlwaysHolds` | `[]SyncInv` | itself inductive |
| `EnvironmentsAlwaysApart`, `OnlyUnseenIsRefused`, `ReportedIsAlwaysDeployed` | `[]EnvironmentsApart`, `[]RefusedOnlyUnseen`, `[]ReportedIsDeployed` | `SyncInv` |
| `GapsAreAlwaysCounted` | `[]GapsAreCounted` | `SyncInv`, `GapInv` |

*Budget.* That at most `max_uses` requests leave is not inductive: it must be known
that the counters of a readable store are exactly the grants, that the holder of
the lock is about to write the successor of what is still in the file, and that a
grant precedes the send and is never taken back. `BudgetInv` says these three; the
lock clause of `TypeOK` makes the second one stable.

*Replay.* The cache keeps an accepted nonce until its capability expires, and so
does the draft of whoever holds the lock (`ReplayInv`). A second acceptance then
finds the nonce, or comes after expiry.

*Sent.* What a handler has done by the time it reaches a step never goes back
(`ProgressInv`), whatever then happens to the handler.

*Commands.* Commands only remove rights, so they commute with each other
(`CommandsMonotone`) and a completed one stays in force in a copy whichever command
is applied to it. `CommandsInv` carries it through the file, the copies of the relays
that are up and the operator's own copy.

*Whole file.* With one `vault.tmp` for everybody the lock must cover truncation,
write and rename: `MidSave` (in `VaultInv`) says what `vault.tmp` is at each phase of the
holder.

*Listed agents.* An edit lists an agent only as the second of a script whose first
puts its key in (`RecordComesSecond`), keys are never removed, and a file is always
somebody's copy. So the claim is made of the file and of every copy, with the extra
clause that a script past its first edit has the key in its copy (`KeysInv`).

*Undisturbed.* `SettledInv` follows an edit from the copy of the command that makes
it, to the file when it is saved, to every copy opened afterwards. A later edit
cannot undo it, because only a second record of the same agent could, and scripts
record fresh ids only (`OwnRecords`).

*Names.* The property is about a vault whose agents are only created and rotated
(`NoRevocation`, a hypothesis of the theorem: no `agent revoke`, and no name is the id of
another agent, which would let a rotation take the wrong one). `NamesInv` makes the claim of
the file and of every copy, and follows the script of a rotation (`Replaces`): the agent it is
going to list was never heard of and is not revoked, and the one it bars bears the same name,
so that the new key, in the copy since the first edit, takes over before.

*Documents.* `DocsInv` speaks of the time before two commands met: then a command is alone,
so `SettledInv` gives that its saved edits are in force in the file, no save takes an agent or
a revocation out (`Keeps`), and every document is written after the save that it announces
(`AnnouncedIn`).

*Chain.* A log that nobody edited verifies as soon as it can be read, and who is about
to write a row has the one that continues it (`ChainInv`), which the lock makes stable:
only its holder is past the read. While a row is half written the claim is made of the file as it
will be (`Completed`). An edit leaves a row whose hash, number or link is
wrong (`TamperingDetected` is its own inductive clause): appends only add lines or
spoil the last one, so the wrong row stays or the log is unreadable.

*Acknowledged.* `AckInv` has the increasing map from the acknowledged events to the
lines, `HalfAckInv` the same before the row that is half written. Who is at `newline` or `sync` has its row last and the map into the lines before
it, so that `Sync` extends the map by one point.

*Keys of homes.* `VaultKeepsItsKey` is about files, and the next save decides it.
`KeyInv` adds that who is about to save with a generated key has the key of the home,
unless a reset archived the home under it (`moved`), and that no two write into one key
file: `create_new` lets one in.

*Alone.* `AloneInv`: a command whose flag says that it met no other is the only one
under way, so what it read is what the home holds. A reset that is alone finds no home
after its archive step, and nothing later can refuse it. `ReadyInv` follows a vault that
was reported ready, in the home or an archive of it (`Undone`): nobody at `save` or
`saveAgent` in that home is about to replace it by another issuer's.

*Trusted.* `TrustInv`: while a home is certified at most one install is under way, it
uses the authority it found there and never makes one (`TrustOf`), so every file it
writes or fails to write is of that authority. Before, an install that is alone finds at
each step what its earlier steps left (`MakesOf`, `InstallOf`), which is what certifies.

*Findings.* Each scanner finds a stretch of the text that is not empty (`FindingsAre`), and a set of
such stretches has a first and a last one in the order of the sort (`FirstOfIs`, `LastOfIs`, by
the well-foundedness of the numbers). `SealInv` says that what is kept is disjoint and not
behind what is to come, so that only the last one kept can overlap the next (`KeptIs`), and that the
output so far joins up and ends where the cursor stands (`JoinedGrows`). `CoverInv`, for
`NestedAreHidden`, follows every finding from those to come to one that is kept and holds it, and
from there to a handle.

*Exported files.* `ExportDotenv` is laid out line by line (`LaidIs`): where each secret's line
begins, and that no line end is inside it, because names have none and the property is about values
that have none. Each line is an entry whose key is the name (`LineImported`), and reading what was
escaped gives the value back and meets no closing quote before the end (`UnescapedIs`, by
induction over the value: the reader is where the writer was, and is not escaping). So entries and
secrets correspond in order (`ImportIs`), no name is refused, and of two with one key both keep the
later (`AsMapSame`).

*Sealed files.* In a text of plain lines what is found and sealed by default is the whole value of
a line (`PlainFindings`): each scanner is followed, and none reaches over a line end, because an
entry has no separator but its `=` and blanks, and its value is not empty. The sealed file is
then the text place by place, where a place is a character or a sealed stretch (`Aligned`, `Twin`
with its increasing map of places). Lines begin at corresponding places (`TwinBegins`,
`TwinLine`); a line without a handle is the line itself (`TwinRun`), one with a handle has it
alone as its value (`SameValue`, `ValueTwin`), which is what `Resolved` asks for; so `EnvOf` is the same
(`TwinEnv`). `EnvInv` carries this to the end of a run: it is `SealInv` with what is sealed having been
found and being to be sealed (`SealedAreFound`, in `OutputInv`), and what was read being what the
file is read as (`ReadInv`). `SealInv` alone says where the pieces are, not why they were sealed.

*Wildcards.* An induction over data without an induction theorem: a set of numbers has a least
one (`LeastExists`, from the well-foundedness of inclusion among finite sets), so a set that
holds 0 and every successor up to `n` is `0..n` (`UpTo`), so a function that follows its
predecessors exists (`FunctionExists`), which is what a recursive function must be known to do
before its equation can be used (`CursorIs`, `ReachedIs`). `Reaches` then says for every place of
the pattern which places of the value it may reach, in terms of the cursor: behind a star every one
from the cursor on, in a part those that spell the part so far. That it is every one is why the
leftmost place is enough. At the end of the pattern this is the loop's last test.

*Policies.* `PolicyInv` says of each step that the checks before it were made; what remains is
about rules. `HostIsMeant` is why the suffix test keeps its dot: the host behind that dot is the
domain, whatever other dots it has. `NewRuleIsMeant` and `PresetRuleIsMeant` show for each case of
a path that its rule matches what the path means, and use that a request's path begins with a slash
(`/*` is any path). The second holds of presets like those of the code, not of every preset.

*Handles.* `ScriptIsMade` is about scripts alone: for every command, what a step gives out is
among the findings of scans before it (`GivenAfter`), a script that uses its copy of the vault
opens it first and scans nothing (`OpenedFirst`), and a message that is passed on is sealed or as
it came (`PassesClean`). Scripts are put together from parts, and `PartConcat` says when the parts
fit. `IInv` then follows a session that is apart (`Apart`): what it has scanned so far is in the
file, the scan under way up to the findings still to do, and in every copy that another session may
still save (`HasStored`). A copy taken by another is one of the file, so it has them; a save by
another is of such a copy; and a session that takes or saves a copy while another has one makes both
no longer apart. So what it gives out is in the file and in every copy that may be saved over it,
and `handed` stays there by the same argument. For `env run`, a handle of `handed` whose key begins
with its kind finds that key in the copy (`MatchingFinds`).

*Syncs.* `SyncInv` says of the project that an id is of one variable and that a key has one for
a target, of every sync that the ids it has listed are of the keys it has them under or gone
(`Fits`), and of a sync that met no other (`Undisturbed`): the pairs behind it have arrived; what
was listed and is ahead is still there; the listing had every variable, or there are more, also
counting the one it has just deleted, than a page has; after a deletion the variables of that key
that are left are of other targets. So only two things are in the way of a post: a variable that was
not seen, or one of the other targets, and whoever reports has nothing left that did not arrive. The
claim about environments needs the tags: what is taken for an environment was set for it.

*Gaps.* A missing key that no sync is about to post is charged to a sync that was cut (`GapInv`).
A deletion of an id takes away a variable of the sync's own key (`Fits`), so a step moves at most one
key out of `Owed`, and only when it ends the sync.

### Only model-checked

`EveryRequestSettles`, because liveness is out of the prover's reach. Every other property of a
passing run is a theorem. The inductions over texts, lines and characters that this takes are made
as under *Wildcards*, since the library's induction theorems take an operator.

## 5. What the models show beside the findings

Behaviour met while modelling to which no run is devoted. Of most of it no document speaks; the
items that quote one (README.md:187, 192, 275, 280; main.rs:633, 640, 1196;
LOCKRAIL_COMPLETE_ARCHITECTURE.md:273) are what the code does where that document says otherwise.
The lost keys of two sealing commands are the overwriting that `revoked` shows, of other data.

- A proof's nonce can be accepted twice after its capability expired (see `replay`).
- `exp` is checked at admission only: a request may leave after it.
- The client is told 403, and the log `relay.denied`, also when the upstream has
  executed the request and only the receipt, the row or the timeout failed.
- A writer of the audit log that is cut after its row and before the newline makes the
  next append return success with a row that cannot be read; from then on every
  append fails and, with it, every relayed request.
- A crash while a store is written shuts the relay until somebody repairs the file.
- `agent_public`, which `capability issue --agent` uses, does not look at revocation, and the
  relay never consults the revoked agents either, although the help of `agent revoke`
  (main.rs:640) says that capabilities signed by the agent will be rejected.
- `agent_by_name` may return an agent that an earlier rotation revoked: the second
  `agent rotate NAME` may revoke the dead key again and leave the one in use, although the
  help (main.rs:633) says that the old key is revoked.
- Of two first setups at once the second vault replaces the first, with its issuer key.
- `init` without a password over a vault that the user's password encrypts makes a key that
  does not open it; `setup` fails from then on until `--reset`.
- A command under whose feet the home is archived goes on in a new home: a vault there may be
  encrypted with the key of the archived one.
- Two sealing commands, or two requests at the proxy, that hold the vault at once lose keys: the
  second save erases those of the first, whose handles are out, although README.md:187 says that the
  raw secret is stored.
- A terminal session is sealed line by line, so a private key that is pasted is never found
  (README.md:275 says terminal input is scanned and sealed).
- A body without a content type is taken for text: `from_utf8_lossy` changes binary content,
  although README.md:280 says unknown binary content passes unchanged.
- `env run` compares the whole value with a handle: one in quotes, or inside a longer value,
  is passed on as it is. So the program gets `"lockrail://..."` for a value that was quoted, as
  those of `secret export` are. A key word that ends a line or a comment makes all of the next
  line the secret, and `env run` skips that line. A cut `env seal` leaves a file with fewer
  entries, which `env run` takes as it is.
- `normalize_findings` drops a shorter overlapping finding whole, also the part of it
  that the longer one does not cover (`NestedAreHidden` is about the others).
- `scan_bearer` slices beyond a text that ends in `bearer `.
- Handles are text: in `lockrail://secret/token-value/...` a second pass finds a key word.
- The log without its last rows verifies: rows know their predecessor only.
- `use_key` decrypts before policy is looked at, although README.md:192 has it after.
- `capability issue --preset P --path Q` permits the paths of `P`, not `Q`.
- `secret set` and `secret import` with `--env` make a name's metadata anew: a name that is set for
  a second environment is no longer in the first.
- In a shell `a.b` and `a-b` are one variable, the last in the order of names; a name that becomes
  `LOCKRAIL_PASSWORD` is silently not injected.
- `secrets_for_env` with no environment gives every secret, and the syncs ask for `default` when
  `--env` is missing.
- Of two first `install-ca` at once one may leave a torn `proxy-ca.json`, on which every later
  `install-ca` and `proxy start` fails, the latter with the advice to run `install-ca`; a home
  archived meanwhile makes the rename fail.
- Without root the certificate is copied by `sudo` and the update command is not: it fails and is
  not repeated, as only a command that cannot be started is; the certificate stays among the
  anchors. The anchor has one name: an install from another home replaces the CA that a running
  proxy of the first one signs with.
- A shim does not name its home, and `find_real_command` leaves out the shim of the home it is asked
  for alone, by its text: a shim installed with `--home`, or reached by another spelling, finds
  itself and starts itself again, although main.rs:1196-1197 and
  docs/LOCKRAIL_COMPLETE_ARCHITECTURE.md:273 say that recursion is avoided. `setup --reset` archives
  the directory of the shims, and tools then run unsealed.
- With two spellings of `content-type` the first is checked and the last is sent.
- A preset whose injection is by query still gets its key as a header (`inject_secret`
  knows headers only), and asks that the client's query begin with the key's name.
- A sync never removes from the service what has been deleted from the vault; and a
  variable that is on the second page of Vercel's list, or has two entries for different
  targets, makes every sync fail at it (`RefusedOnlyUnseen`).
- `export_dotenv` escapes quotes and backslashes but not line ends, and `import_dotenv` reads line by
  line: of an exported private key it reads back the first line. `validate_name` lets a name have
  an `=` or begin with `#`: the first is divided at its own `=` when it is read, the second is
  skipped as a comment. `ImportedAsExported` leaves these out.

## 6. What is not modelled

The in-memory replay and usage stores (used by tests), header formatting, TLS and
certificate generation, PTY handling, HTML, the tables of the presets, export of secrets as JSON
or YAML: no state that several parties share. The trust stores of macOS and Windows and of other
distributions: `ProxyCa` has the files of one, the others differ in names and commands. Shims and
the hooks of coding agents: a shim is a file that is written once, and goes with its home; a
settings file is read, extended and written, so that an editor at work at the same time loses what
it wrote, and a file that does not parse is replaced; no document promises otherwise. Receipts: a
signature over what the relay has already done. Power loss (files written without fsync
coming back old): the models' crashes end processes. Signatures, encryption, hashes and fingerprints
are ideal. Lengths and framing of proxied messages, with them the answer to a `HEAD` request of a
textual type, which leaves with the length 0 of its empty body. What a wrapped program prints, as
shown redacted.

## 7. Plan

Done so far: `Relay` with `CapabilityUse`, `AuditLog`, `VaultFile`, `Seal` with `EnvFile`, `Policy`,
`Setup` with `ProxyCa`, `Handles`, `Sync`, and the proofs of section 4. What
comes next is `Lockrail`: `Relay` with `AuditLog`'s append in place of its set of rows, so that a log
shut by a cut writer stops every later request. It composes both and takes over their runs.
