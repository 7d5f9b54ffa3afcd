# Formal models of Toolport

Toolport (crate `conduit`, binary `toolport-gateway`) is an MCP gateway. Client
programs (editors, agents) talk to one gateway, which routes their tool calls to
many downstream MCP servers, and stands between them with approval, rate limits,
integrity pins, result shaping and audit. Several gateway processes, short-lived
stdio adapters, a host daemon and a desktop app run side by side on one machine
and share one data directory: most of what can go wrong between them goes through
a few files, a few cross-process locks and a few loopback sockets. Those parts,
and the threads that share a router or a session inside one process, are what this
directory models.

All source paths below are relative to `src-tauri/src/`.

## Inventory

| Part | State it keeps | Operations | Meets | What is hard | What makes it correct |
|---|---|---|---|---|---|
| Host daemon rendezvous (`daemon.rs`, `serve_daemon` and the idle watchdog in `bin/toolport-gateway.rs`) | one descriptor file per data directory and build, an election lock, a descriptor lock; per daemon: in-flight requests, lease, update request | `Rendezvous::ensure`, probe, clear, spawn, wait for readiness; publish, withdraw, re-advertise, exit | adapters, desktop app, purge | several adapters and daemons interleave; pointer read and probe are two steps; deadlines; killed processes | one daemon at a time; only stale pointers are removed; ensure always returns |
| Approval client (`approval.rs`, call gate in `bin/toolport-gateway.rs`) | none between calls; one request id, fingerprint and content hash per call | gate, dial, send, wait, retry once, withdraw, revalidate | broker, router | timeouts against late answers, app restarts between attempts, state used after a two minute wait | a gated call runs only on an explicit approval of that content; nobody is asked twice |
| Approval broker (`approval_broker.rs`) | endpoint file and owner lock; waiters by id; session allow set; worker count | start, preflight, park, decide, disconnect, time out, stop | desktop UI, gateways | a decision racing the timeout and the disconnect watcher; id reuse; caps | one outcome per request, the one the human gave if it came in time |
| Rate limits (`rate_limits.rs`) | per process counters, a shared file, its lock, a pending-merge flag | bind, check and count | call gate, other gateways | calls before the file is known; two processes; day boundaries; corrupt file | no more calls than the cap, nothing counted that was refused |
| Downstream backoff (`downstream_backoff.rs`) | deadline per provider in memory and in a shared file | bind, record, remaining | downstream client, other gateways | clock steps, two processes merging, file without lock on the read side | no call before a provider's deadline, and none parked past the cap |
| Child ledger (`child_ledger.rs`) | one file per owner process with its children | bind, record, forget, reap orphans | process spawner, operating system | crashes between spawn and record, recycled pids, reapers racing | an orphan is killed, a living owner's child and a stranger never |
| Session store (`session_store.rs`) | bounded map with TTL and insertion order | insert, get, peek, with, remove, reap | MCP HTTP sessions, modern approvals | cap, expiry and refresh interplay | never over capacity, oldest evicted first |
| Modern approvals (`bin/toolport-gateway.rs`, 15347 onwards) | pending prompts by token, terminal tokens, cancellation hooks, audit rows | start, poll, resume, revalidate, finish | session store, live router, HTTP clients | polls, cancellation, expiry, session end and the tool's changes race; cap of 64 | only a yes to what was shown runs a call, as shown; every end is recorded; no prompt costs another its place |
| Stdio adapter (`stdio_adapter.rs`) | descriptor, session id, stale level, request gate, private gateway | call, refusal and retry, recover with replayed handshake, heartbeat, wedged mark, close | daemon election, daemons | overlapping recoveries, a daemon that is dead, silent or has forgotten the session | a call runs once at most, on a session that was opened and shaken hands with; every call ends; a lost daemon is replaced |
| Registry and its controller (`registry.rs`, `registry_controller.rs`, `watch_tick` in `bin/toolport-gateway.rs`) | registry file, backup and its sequence, journal of generations, quarantined evidence; the gateway's copy and file time | load, recover, migrate, update, save, reload | everything | a crash between any two of a save's writes, unreadable files, builds of two schema versions | no lost update; nothing unparsable or newer overwritten; the gateway catches up |
| Integrity pins and quarantine (`integrity.rs`, the publication gate in `bin/toolport-gateway.rs`) | pin file and backup, quarantine file and lock, the published router | gate, pin, quarantine, reconcile, release | router, watcher, desktop | three files written one after the other; two publishing threads and the desktop | a definition nobody approved is not exposed; a released tool comes back |
| OAuth (`remote.rs`, `oauth_controller.rs`) | access token and OAuth state in the vault, per-process copy with the unsaved rotation, refresh lock | refresh, forced refresh, step-up, sign-in, paste, clear | vault, provider, downstream clients | rotation at the provider against failing or unnoticed vault writes, two processes | a spent refresh token is presented only if its replacement was never stored; a rotation is not dropped |
| Router and downstream clients (`router.rs`, `downstream.rs`, publication in `bin/toolport-gateway.rs`) | supervised slot, connection, breaker, calls in flight, published router, project root | start on demand, adopt, publish, call, stop when idle, replace when dead, rebuild | call gate, integrity gate, registry watcher | locks taken one after the other, counters read before and used after, two publishing threads | one connection per slot; a stop never cuts a running call; the live slot is not left down |
| Code mode worker (`codemode.rs`, `codemode_worker/`) | worker process, calls in flight | run, call, cancel | call gate | cancellation | nested calls pass the same gate |
| Secrets, teams and personal sync, publishing, telemetry, savings, audit, clients, desktop and Linux UI, TypeScript UI | | | | files, network, user interface | |

## Modules and the code they model

One module per component, an `MC...` module that instantiates it for TLC, and for
each of them proofs: `RendezvousProofs` has those of the daemon and of the broker, the two
places where processes find each other, `FilesProofs` those of the back-off file, the registry
and the child ledgers, the files that processes share, and every other `...Proofs` module those
of one component. Each module's header says what is abstracted;
`PROJECT.json` maps every definition to its lines. Operators marked "(Mutated: ...)"
are wrong variants of the definition below them: no specification uses them, they
exist to show that each property can fail.

Conventions shared by all modules: a deadline is a step that may happen; a
cross-process lock (`registry::lock_at`) is free or held, and a bounded wait for
it may fail; `registry::atomic_write` either replaces the whole file or leaves it
alone; a killed process drops its locks. These are external operations, modelled
from how the code uses them. History variables are named as such where they are
declared and no guard reads them. Where the code can do something its comments rule
out, the property says so with an explicit excuse (a history variable or a constant),
and the divergence is described below.

### `DaemonElection` (daemon.rs, the watchdog and `serve_daemon` in bin/toolport-gateway.rs)

`desc` is the descriptor file, `election` the election lock. Each adapter has a
program counter `phase` inside `ensure_known_inner` with its locals `seen`
(`observed_before_lock`), `target` (the descriptor a probe was sent to) and
`round` (the two iterations of the loop). A daemon has two threads that touch the
descriptor: the watchdog with the life cycle
`starting -> publishing -> serving <-> withdrawn -> exited` (`dstate`), and the main thread,
whose serve loop can end (`loop`, `ServeLoopEnds`) at any moment, also while the watchdog
is withdrawing, and which then clears the descriptor and ends the process (`ClearAtEnd`).
Reading a pointer (`ProbeRead`) and hearing from its endpoint (`ProbeLive`, `ProbeGone`,
`ProbeSilent`) are separate steps. `strained` records that the code has lost one of the three
races that make the election unsound: an adapter stopped waiting (`READY_TIMEOUT`, or its
own end) for a daemon still starting; a request reached a daemon between its withdrawal and
its exit; or a daemon whose serve loop had ended removed the pointer of a serving successor.

*Divergence.* daemon.rs:4 says "exactly one compatible daemon" and daemon.rs:742
"Exactly one caller" spawns. Both hold only while `strained` is false: a daemon slower
than `READY_TIMEOUT` gets a second one beside it; a request in the withdrawal window
makes a daemon advertise itself again (bin/toolport-gateway.rs:20110) beside its elected
successor; and `clear_descriptor` removes whatever pointer is there, so that the clear at the
end of the serve loop (20246-20248), which no lock orders against the watchdog's withdrawal
(20097-20113), can take the pointer of the successor elected in between, after which the next
adapter spawns one more daemon. The properties speak of the time before the first lost race;
what comes after one is outside them, and the hazards that are such races say so.

### `ApprovalBroker` (approval.rs, approval_broker.rs, the gate in bin/toolport-gateway.rs, two commands of desktop.rs)

Composes five actors in one state: the gateway with each gated call (`pc`,
`attempt`, `gateDef`), the app processes (`app`, `owner`, `endpoint`), the
connection handler of the broker (`handler`, `chan`, `reply`, `pending`), the
person (`Decide`, then `Deliver`: `decide()` removes the waiter before it sends)
and the live router, whose definition of the tool can change (`def`, `blocked`).
The disconnect watcher and both deadlines race with the person. `asked`, `said`,
`consented` and `ranDef` are history variables. `EndsWhileAsking` says whether an app
may end with a prompt on its screen.

*Divergence.* An app that ends under its prompt makes the gateway ask a second time
(approval.rs:714), so `OneAnswer` is claimed only without `EndsWhileAsking`; what runs is
approved either way.

### `ModernApprovals`, `SessionStore`, `HeldCall` (bin/toolport-gateway.rs, session_store.rs)

A modern client's gated call returns at once with a token; the client comes back with the
token and the answer. `hitl` is the table of prompts, a `SessionStore` (operators for
insert with reaping and eviction, touch, expiry); `terminal` and `rows` are the list of
finished tokens and the audit log; `firing` holds the cancellation hooks taken out of the
registry of in-flight requests and not yet run. `req` is where each request thread is
between its locks: `SendFresh`, `RegisterHook` and `StartPrompt` for a first request,
`SendResume`, `Poll`, `Revalidate`, `Dispatch` and `Complete` for one that comes back. Time is a counter with the prompt's timeout and the table's retention. The
abstract specification `HeldCall` says what a gate promises: one content shown, at most one
verdict, and only a yes runs the call, as shown; `ImplementsHeldCall` is the refinement. The
blocking path of `ApprovalBroker` implements it as well (`BrokerImplementsHeldCall`).

The exposed name goes to another server and back (`ChangeRoute`), and what is shown does not
name the server. `finished` holds the approvals on which a call came back with a result: no
request passes the gate on one of them (`SpentIsSpent`, part of `ImplementsHeldCall`).

*Divergences.* The comment at bin/toolport-gateway.rs:4643-4646 promises that execution fails
if the live owner is not the server that was approved against, but the record keeps the
exposed name and the definition's fingerprint only, and a resumed request compares the live
owner with the owner it found itself: if a rebuild gives the name to another server with the
same definition before the request comes back, the approval runs there. And a resumed request
that is sent again before the first one has a result passes the gate again (15585-15609),
while CHANGELOG.md:2039-2040 and docs/release-notes/v1.11.0.md:24-26 promise a single
execution. So `HeldCall` promises neither: it lets a call that was answered yes execute
more than once, and its content is the call and the definition.

### `RateLimits` (rate_limits.rs)

A counter is indexed by window kind, window and scope (`counter_key`); a missing
one is zero. `check_and_count` is three steps (`Begin...`, `CheckCaps`, `Count...`),
because the clock is read again in each of them and other processes run in
between when this one is not bound and holds no lock. Saving can fail at every
place the code saves. `counted`, `early` and `merged` are a history of accepted calls,
kept apart from the counters: those of bound processes, those a process accepted before it
was bound and has yet to merge, and those merged since. Early calls that die with their
process leave the history with it.

### `DownstreamBackoff` (downstream_backoff.rs)

Deadlines per origin in memory and on file, the wall clock `now` and real time
`real`. A record is two steps (read under the lock, merge and replace), a consult
one. The clock can be set back (`now < real` from then on) and the file edited (`edited`).

*Divergence.* `sanitize`'s doc says that neither an edited file nor a clock stepped
backward parks a provider longer than a 429 would. The code keeps neither half. A far
deadline is cut in a copy only and stays in the file, so that every read treats it as a
fresh 429. And only what is read from the file is cut: a window that is already in memory
when the clock is set back is not, and `remaining_for_url` cuts the number it returns,
not the time the provider is left alone. `WindowsCapped` says what does hold: on an
unedited file the wait ends when the clock shows one cap past the last 429 (so a clock
set back by *k* adds at most *k*), and no edit puts a deadline further ahead into a
process than one cap past the latest time the clock has shown.

### `ChildLedger` (child_ledger.rs, `spawn_server` and the drop of `StdioTransport` in downstream.rs)

The operating system is part of the model: numbers are handed out again once no
process and no group uses them, helpers outlive their leader, strangers form
groups with recycled numbers. Spawn and record, and reap and forget, are separate
steps, as are reading a dead owner's file, proving a child's group
(`kill_orphan_group`, 202-206), signalling it (`killpg`, 207-208) and removing the
file. Every operation that can fail may fail: the directory or a file cannot be read,
a group without its leader has a member whose environment is unreadable or lacks the
tag, the signal is refused, the file cannot be removed. Linux only: elsewhere
`group_carries_tag` is constantly false.

*Divergences.* `forget` names a server by number (downstream.rs:5740) and can drop the
entry of another, running one that got the number; a gateway that gets the number of a
dead one takes that one's ledger for its own and overwrites it with its first record
(child_ledger.rs:180). `LedgerOK` and `ReapIsComplete` are claimed while no gateway or
server has got a used number. `OnlyOrphansSignalled` is claimed in any case, but proof
and signal are two system calls: when another reaper ends the group in between and its
number is handed out again, the signal reaches the newcomer. The property says that
this is the only way: what was in the group at the proof is an orphaned server, and
somebody else is hit only after that group has ended. A child that could not be proved
or signalled (`spared`) lives on although its ledger file is removed (188); `LedgerOK`
and `ReapIsComplete` except such children, and `ReapIsComplete` what stands in a file
that could not be read.

### `TokenRefresh` (remote.rs, oauth_controller.rs)

Grants are numbered as the provider issues them; the vault has two entries, the bearer
(`vAcc`) and the OAuth state (`vSt`), each read and written in a step of its own that may
fail, or be done and reported as failed. A gateway's `op` is where it is in
`CurrentCredential`, `RefreshIfNeeded` or `RefreshToken`: look, wait for the refresh lock, read again under it, exchange, write the
state, write the bearer; `mem` is its `CredentialState` with the rotation it could not
save. The desktop signs in, steps up, pastes and clears beside it.

*Divergences.* The comment at remote.rs:1104-1106 and the doc of `clear_oauth_state`
(remote.rs:181-183) hold within one process: a clear or a sign-in between a refresher's
re-read and its write is overwritten by the refresher (oauth_controller.rs:416 takes no
refresh lock). A change of the bearer alone discards an unsaved rotation (remote.rs:489).
So does a winner met at the lock (remote.rs:720-727): when the bearer goes from one value to
another and back while the gateway waits (two clears around a step-up), its own next look
finds the vault as it was, and the rotation is dropped all the same. That needs more acts of
the user than the run allows; the proof below asked for the case, and TLC confirmed it with
four upsets. `RotationsKept` lists these as the reasons for which a rotation may go.

### `IntegrityStores` (integrity.rs, the publication gate and the watcher in bin/toolport-gateway.rs)

Pin file with backup, quarantine file with its lock, the published router of each gateway,
and the two threads of a gateway that publish (`tick`, `build`). A publication is `Check`
(drift against the pins; first sights are pinned), `Apply` (records, still marked pending),
`Accept` (the pins of those records), `Clear` (their marks), `Publish` and `Swap`; the reconciliation of the live router with the quarantine file is a tick of its
own. The desktop shows a record and releases it in a later step. The first read of a
starting gateway and its first listing are one step; a tick that finds nothing to do is no
step.

*Divergences.* A gate that has recorded drift and then cannot read the quarantine file back
publishes without the block (bin/toolport-gateway.rs:11052), while the comments at
10974-10975 and 11015-11016 say a failure closes; `blind` marks such a router and
`TrustedOnly` excuses it. A gate that finds its trust root lost records drift again and may
replace a record of another definition, whose release the pins then follow (`overruled`). After the loss of both pin files a record without
a pin cannot be released, and a backup that lacks a tool makes its next change a first
sight.

### `AdapterSessions` (stdio_adapter.rs)

Calls share a gate for reading, a recovery takes it for writing, and `mark_wedged` replaces
it, so that calls stuck on a silent daemon keep the old one; recoveries are serialised by
a mutex. `daemon` is the life of each daemon (up, silent, gone), `owner`, `valid` and
`inited` say which daemon opened a session, whether it still accepts it and whether it was
given `notifications/initialized`. A recovery is `Recover` (an endpoint: `ensure`, or a
private gateway), `Reopen`, `ReplayInitialize`, `ReplayInitialized`. The election behind
`ensure` is `DaemonElection`'s; here it returns the shared daemon, a new one, or an error.
`Close` abandons the calls that still run when the client's grace is over
(stdio_adapter.rs:1529-1530), and `mark_wedged` sends a call that waits at the old gate to the
new one, without a bound of its own: `CallsEnd` excepts the abandoned calls and a call that
marks overtake for ever, and nothing else.

*Divergence.* A recovery from a wedged daemon that opened a session and failed before
`notifications/initialized` is taken for a finished one by the next caller
(stdio_adapter.rs:1098-1102), against the doc near 1217-1220; `skipped` marks such a
session and `HandshakeFirst` excuses it. After a wedged mark only the next call moves the
adapter, not the heartbeat, and `LossHeals` says so.

### `RegistryStore` (registry.rs, `watch_tick` in bin/toolport-gateway.rs)

A document is its schema version and the set of updates it contains. The lock is held from
load to the end of the save, so there is one operation `op` with the steps of a load
(read, quarantine, recover, migrate) and of a save (single backup, its sequence, journal
generation, file), between which a write fails, the process ends or the file becomes
readable or unreadable. `Recover` tries the copies from the newest on; one of an older schema
that cannot be copied aside or migrated is passed over, and so may all of them be. The gateway
notices a new file time and reloads; a write may leave the time as the gateway knows it
(`blurred`), and the single backup without its sequence may share its time with a generation,
which then goes first. A clock that is set back is
not modelled: `next_backup_sequence` compares the time with the generations only, and could then
give a save the number the single backup's sidecar still has.

*Divergences.* A copy loaded from a backup while the file could not be read is saved over the
file once it can (against the comment at registry.rs:3850-3852); `allowance` counts such
saves, lost files and saves without any backup, and `EditsKept` allows one update for each.
`skipped` counts the saves whose journal generation could not be written: the single backup
stands in for them until it is lost, and then all of them count (`JournalOnly`). If every
backup is passed over, a missing file loads as `FirstRun`, "a genuine first run. Empty here is
the truth" (registry.rs:3981-3982), although there are backups; `Forgo` counts what the first
copy held and the one taken, or the empty registry, does not. An older build recovers past the
backup of a newer one (`passedOver`). A reload from a backup counts as loaded
(bin/toolport-gateway.rs:12135, against the comment at 12114): the gateway stays on the older
copy, marked untrusted, until the next write. A gateway whose file was migrated by a newer
build fails every reload and goes on with the registry it had, still trusted
(bin/toolport-gateway.rs:12126-12132), and one whose file is written twice within one file
time keeps the first contents; `GatewayCatchesUp` leaves both out.

### `ServerSupervisor` (router.rs, downstream.rs, the watcher and `refresh_client_root` in bin/toolport-gateway.rs)

`slot` is the `Supervisor` of a server (state, launch spec with the project root, `retired`,
whether a fresh connection is ready, and whether it waits for publication), `inner` the
connection, `breaker` its circuit breaker. A call reads the lifecycle (`Look`), fetches the
transport (`Fetch`), runs, and handles its outcome, each under its own lock; `since` says
what happened to the slot meanwhile and stands for the counters the code compares
(generation, successes, responses, last failure). The watcher ticks (`maintain`, `Adopt`
and publication), two threads build and publish routers, and a slot nobody refers to is
dropped and used again. Times are "may have run out".

*Divergences.* The list refresh (bin/toolport-gateway.rs:12320) works on a copy without
`rebuild_lock`, and a registry rebuild reads the root (12164) before it takes the lock
(12223): either can publish a retired slot or an old root over a newer one, against the
comments at 11845-11847 and 22133-22135 and the doc of `retired` (router.rs:740);
`undone` marks it and `LiveIsCurrent` excuses it. A late success after the connection
ended makes a slot that waits for a sign-in Ready without a connection (router.rs:4099,
`revived`). A call admitted before a restart can get the handle of the adopted, not yet
published connection (router.rs:4264-4272), although the comment at
bin/toolport-gateway.rs:11013-11016 says that no call path can; `NoneAdmittedUngated` says that
no other call does. downstream.rs:8067 marks a session invalid
without closing it, and the supervisor does not replace such a connection while calls keep
coming, although the comment at 8063-8064 says it retires it; `LiveRecovers` leaves this
state out. `start_at` looks at `retired` outside the lock: a retired slot can start, and
its connection is discarded. After a failed restart a slot that needs a sign-in is tried
again by probing calls or a rebuild only.

## Runs

Every run passes, in at most three minutes on two cores. Each property is preceded by a
comment in its module.

| Run | Properties | What it shows |
|---|---|---|
| `daemon_election` | `OneActiveDaemon`, `OnlyStalePointersGo`, `EnsureReturns` | Adapters race through the election while starts are slow, adapters are killed and work arrives late: two daemons start or serve at once, and a serving one loses its pointer, only after one of the three races the code loses; and every ensure comes to an end. |
| `approval_races` | `OneAnswer`, `CardsAreLive` | Two calls, a person, two watchers and every deadline race for a queue of one: nobody is asked twice, a denial holds and no card outlives its handler. |
| `approval_restarts` | `RunsWhatWasApproved`, `EndpointKept`, `CallSettles` | While apps start, race for the endpoint and end at any moment and the tool changes under the call, what runs is what was approved, the endpoint of a serving broker stays, and every call settles without help from the person or the app. |
| `rate_limits` | `AccountsOK`, `CapHolds`, `DenialsAreEarned` | Two gateways share the counters, before and after they know the file, across rollovers, failing saves, an unreadable file and restarts: bound calls stay within every cap, each accepted call is counted once and no refusal is unearned. |
| `backoff` | `FailsFast`, `WindowsCapped` | A saved window stops every bound gateway until it has passed, concurrent recorders lose none, no provider stays parked longer than the cap after its last 429 while clock and file are left alone, and edits or clock steps never put a deadline beyond one window into a process. |
| `child_ledger` | `LedgerOK`, `OnlyOrphansSignalled`, `ReapIsComplete` | Gateways die, start and reap at the same time while process numbers are recycled and proofs, signals and reads fail: of a group that was proved no stranger and no server of a running gateway is signalled, entries last as long as their groups, and a reaper that returns has left nothing of what it could read, prove and signal. |
| `modern_approvals` | `CancelledGoes`, `RowsOK`, `PromptsKept`, `ImplementsHeldCall` | Two requests and two prompts compete for a table of one while prompts expire, first requests are cancelled, sessions end, the tool changes, the name goes to another server and the gate is switched: what runs is the call with the definition that was shown, after a yes, no request passes on an approval that came to a result, every end is recorded, at most one row gives a verdict, and no prompt costs another its place. |
| `token_refresh` | `SpentOnlyIfUnsaved`, `VaultOK`, `RotationsKept`, `RejectedNotReturned` | Two gateways refresh one grant while vault writes fail or are done unnoticed, replies are lost, gateways end and the user signs in, steps up, pastes or clears: a spent refresh token is presented only if its replacement was never stored, a rotation is not dropped without a reason, and a refused bearer is not handed back. |
| `integrity` | `StoresOK`, `TrustedOnly`, `OnlyReleaseUnblocks`, `ReleasedComesBack` | Two threads of a gateway publish and reconcile routers while a server changes its tools, the user releases records, reads and writes fail, a pin file is lost and the gateway restarts: a definition nobody approved is not exposed, a pin that is not approved has a record, records leave only by a release of what was shown, and a released tool comes back. |
| `adapter_sessions` | `RunsAtMostOnce`, `SessionsOK`, `CallsEnd`, `LossHeals` | Two calls and the heartbeat of an adapter whose daemons die, fall silent or forget a session, and whose recoveries fail at any step: a call runs once at most, on a session its daemon opened and was given the handshake of, recoveries disturb no call on a healthy daemon, every call ends, unless the client left it behind or marks of wedged daemons overtake it for ever, and a lost daemon is replaced without one. |
| `registry_store` | `StoreOK`, `ForeignKept`, `GatewayCatchesUp` | Processes of an older and a newer build update the registry while writes fail, a process ends between any two writes, a file is lost, damaged or unreadable for a while: no update is lost beyond what the damage and the copies a recovery passes over explain, contents that do not parse and files of a newer build are not overwritten, and the gateway ends up with a file of its build or an older one, or knows that it has not, unless two writes share a file time. |
| `server_supervisor` | `SlotsOK`, `NoneAdmittedUngated`, `LiveIsCurrent`, `RunningCallsKept`, `LiveRecovers` | Two callers use one server that hangs, closes, breaks the protocol or has its stream's credential refused, and one caller's server is rebuilt for another project root while the registry and the lists change: a slot never has two connections, a stop never ends a running call, a call that runs on a connection not yet published was admitted while its predecessor served, the published slot is the current one unless an earlier watcher publication overtakes, and the live slot is never left down. |

The invariants named `...OK` join a module's type invariant and the structural invariants
that are one idea (`SessionsOK`, for instance: a call is on the daemon that opened its
session, after the handshake, and no recovery runs under a healthy one).

### Bounds

- *Daemons*: two adapters are what an election is between, two daemons let one replace the
  other (384,765 states). The theorems remove the bound for safety.
- *Approvals*: one call suffices where calls do not interact (restarts, two apps,
  two definitions); two calls compete for a queue of one and share the session
  allows. `MaxAttempts` is the code's own two.
- *Modern approvals*: two prompts and two requests for a table of one, two sessions, two
  definitions, two servers; a timeout of one, a retention of two and three ticks, so that prompts expire
  before, with and after their answer (1.75 million states, up to symmetry).
- *Rate limits*: two processes, two tools, two days of one month and the next,
  three calls; caps of one and two make every cap reachable, one pair of caps
  shares a key, and the monthly cap of two tells a repeated merge from a used limit
  (183,720 states).
- *Backoff*: two processes and two providers, as a lost update needs another
  provider's window; a cap of two ticks with delays below and above it. `MaxTime`
  bounds the clock, `FileEdits` the deadlines written by hand.
- *Child ledger*: three gateways, so that two reap what a third left; one server,
  one stranger, four numbers, so that numbers must be recycled. The same configuration
  with two servers holds as well, in 7.5 million states.
- *Tokens*: two gateways, three operations, three grants and two upsets: a rotation that is
  lost needs one failing write and one more refresher (2.0 million states).
- *Integrity*: one gateway with its two publishing threads, two tools of which one appears
  later, two changes, two rounds of publication and one upset (926,758 states).
- *Adapter*: two calls beside the heartbeat, three daemons, four sessions, two faults
  (298,636 states). Gates are used again when no thread knows them any more.
- *Registry*: three updates, three faults, writers of an older and a newer build and a gateway
  of one between them, and two journal generations, so that the journal is pruned, the single
  backup can be older than it, and the gateway meets files it migrates and files it refuses
  (1.8 million states).
- *Supervisor*: a breaker threshold of one; at `r0` two callers share the server and nothing is
  reconfigured, from `r1` to `r2` one caller's server is rebuilt while the registry and the
  lists change; both together exceed what TLC can finish (178,796 states). Two slots: the
  live one and its replacement; a dropped one is used again before anything else happens.

Symmetry is used only over sets whose members no action tells apart and never in
runs with liveness properties. Deadlock is checked except where calls, gateways, changes or
operations are used up.

### Fairness

- `EnsureReturns`: weak fairness of each adapter's steps inside `ensure` (sequential code in
  which every wait has a deadline) and of its readiness timeout (the poll's deadline passes
  however often it looks). Nothing is assumed of the daemons.
- `CallSettles`: weak fairness of the gateway's steps of a call (its socket reads have a
  deadline) and of the broker's handler (`recv_timeout`).
- `ReleasedComesBack`: weak fairness of each publishing thread's step (the tick is periodic
  and its locks are waited for with a bound) and of the desktop's removal once begun.
- `CallsEnd`, `LossHeals`: weak fairness of every step of a call, a recovery and the heartbeat
  (request timeouts, a periodic beat); strong fairness of `MarkWedged` and of the idle
  recovery, which wait for a mutex others take again and again.
- `GatewayCatchesUp`: weak fairness of the lock holder's step and of noticing a new file time;
  strong fairness of the reload, which competes for the lock.
- `LiveRecovers`: weak fairness of a call's steps, of a connection attempt (it has a timeout) and
  of dropping unused slots; strong fairness of taking the slot's locks (`Look`, `Fetch`), of
  the two publishing threads and of the watcher's tick, which wait for locks that are
  taken again and again (std mutexes are not fair, but a waiter is not passed over for ever).

Nothing is assumed of the person, of apps starting or staying, of the tool, of daemons
withdrawing, of servers, of the provider or of clients.

## Proofs

Checked by TLAPS for every value of the constants.

`RendezvousProofs`, the daemon: `ElectionTypeCorrect` and `OneWinnerAlways` in any environment;
`ElectionInvariant`, `OneDaemon` and `PointersSafe` until `strained` becomes true.
`OneActiveDaemon` is not inductive. `ElectionInv` adds what makes it so: the lock is held
exactly in the locked phases (`LockHeld`, which holds whatever is strained), and as long as
nothing is strained a starting daemon has its adapter waiting under the lock
(`StarterWaits`); the holder knows there is no other daemon before it spawns
(`WinnerKnows`), because the pointer could only disappear since its last look
(`PointerUnderLock`) and a serving daemon is always advertised (`ServingIsAdvertised`).

`RendezvousProofs`, the broker: types, then in layers: an idle call has left no trace
(`IdleIsClean`), so the fingerprint captured at the gate is what everything later is
about; every approval in the channel, on the wire or at the gateway has its consent
(`ConsentInv`), which gives `ApprovalsReal` and `RunsApproved`; the owner holds the
lock from start to end (`OwnerInv`), which gives `BrokerUnique` and `EndpointSafe`;
where the handler is against where its gateway is (`HandlerInv`) gives `CardsLive`;
and, while no app ends under a prompt, once a person was asked the gateway never
dials again (`AskInv`), which gives `AskedAtMostOnce`. Under the same condition
`BrokerImplementsGate` shows that the blocking path implements `HeldCall`, the abstract gate of
the re-entrant one: a call is held from the gate on, its verdict is the person's answer or a
matching allow (`Verdict`), and it is shown with the fingerprint the gate captured.
`VerdictInv` adds that there is no consent while the call may still be asked, so no answer
comes after a verdict; every step is then a step of `HeldCall` or a stutter. A call the gateway
has given up counts as held without a verdict, because a late answer may still come; it never
runs. TLC checks this refinement in the instance of `approval_races` too, with two definitions
(3,807,716 states, four minutes without symmetry), but it is not among the runs.

`ModernApprovalsProofs`: `GateInv` says that what was shown is what the record holds
(`TableOK`), that nothing is shown of a prompt that was not put (`HistOK`) and that a request past its poll
carries a token answered yes, with the fingerprint that was shown (`RequestsOK`). It is inductive
whatever becomes of the router, and every step under it is a step of `HeldCall` or a
stutter. `FinishedOK` adds that an approval on which a call came to a result was a yes and has
no record; as a request passes the gate only on a record (`PassedOnRecord`) and records appear
only for prompts nobody was asked about (`RecordsAppear`), it is not given again. Together
this is `ImplementsGate`. `CancelledPromptsGo` follows from an invariant that
relates the hook, the second look under the table's lock and the insertion;
`NewPromptsCostNothing` from the refusal at the cap, which leaves the store nothing to
evict. `RowsStayOK` rests on `RowInv`, which names for each token the one party that still
owes the verdict: its record, as long as it is unanswered or has its `abandoned_audit`, or
the request that brought the approval and has not passed the revalidation, never both, and
then no verdict is in the log (`TokenFits`). Without it a second verdict after an approval
on its way cannot be ruled out.

`RateLimitsProofs`: `CapsHold`. A cap speaks of accepted calls, the check of the counters a
process has in memory. The invariant connects them: a bound process decides under the
file's lock (`DecidesLocked`), the file has every call that bound processes accepted in the
current windows (`FileHasAll`), so a process that has merged the file and found room has
room (`RoomLeft`), and windows that have yet to begin are empty (`FutureIsEmpty`), which is
what a rollover between the check and the count needs.
`AccountsAlwaysOK` and `RefusalsAreEarned` need equality where `CapsHold` needs an
inequality. `Accounts` adds: the file is the sum of the bound and the merged calls
(`FileAdds`); what a process has in memory is what it has to merge, nothing if it is not
bound and has nothing to merge, or the file itself while it decides under the lock
(`MemoryAdds`); a bound process has merged before it decides (`DecidesMerged`); and no copy
has charged a window that has yet to begin (`FutureUnused`). Stated per process, this needs
no sum over processes, which a fold would have to be reasoned about by induction; a refusal
is then earned by calls the refusing process had to know of, not merely by calls of anybody.

`FilesProofs`, the back-off file: `SavedWindowFailsFast` and `NoWindowExceedsCap`. A saved window
that is open is in the file (`SavedStands`), because what a recorder merges into is the file
as it is (`ReadIsFresh`); and every copy of a window ends within the cap after the
provider's last 429 (`WindowsFollow429`) or, after an edit or a clock step, within the cap
of real time (`MemoryCapped`, `ClockBehind`).

`FilesProofs`, the registry: `StoreStaysOK` and `ForeignStaysKept`. `EditsKept` speaks of the file
only; what decides is what every copy that may one day replace it has lost. `Bounded` bounds
that by the place of the copy in the order of recovery: the copy tried first may lack `x` of the
updates that succeeded and the top of the journal `y`, where `x` is the allowance, `y` adds the skipped generations, and both are one more while the file holds
the latest update and no save has copied it yet (`Slack`). `CopiesFit` and `Ranked` say that
sequences and times order the generations alike and that any of them have a newest, `SaveFits`
how far a save has come with its three copies, `OpFits` what an operation may replace, and
`Fresh` that no document holds the update that is going on. This proof showed that an earlier form of
`EditsKept`, which did not count skipped generations, is false: two generations that cannot be
written, then the loss of the single backup and of the file, cost more than the two losses.
The faults of the run's bounds do not reach that. A recovery that passes over the first copy
lacks at most what that copy lacked and what it held (`ForgoLost`), whichever it takes instead.

`FilesProofs`, the child ledgers: `SignalsReachOrphansOnly`, `EntriesStayListed` and
`ReapingCompletes`. No two processes or groups that are there have the same number (`Apart`), so
the group that has a server's number is that server's alone (`GroupIsIts`), a reaper has only servers
of gateways that are gone in its hands (`ReapFits`), and what it is about to signal was in the group
when it was proved (`AimFits`): this holds with recycled numbers too. Without them a number stays
the first owner's (`Numbered`), the file of a running gateway is its ledger and what is
listed of a gateway that ended is in its file as long as it lives (`ListedFits`); a reaper
removes a file only when all it lists is dead or `spared` (`Emptied`), and what it owes is dead, spared, in its hands, or in a
file that it has still to look at and will not take for its own (`DueFits`). Steps that only take
processes away are one lemma, `ShrinkStep`.

`ServerSupervisorProofs`: `SlotsStayOK`, `GatedOnly`, `LiveStaysCurrent` and
`CallsKeepRunning`. `SlotsFit` ties a slot's state to its one connection (being made, made or
in use), `CallsFit` the place of a call and what it remembers of its slot to the slot,
`GatedCalls` the slots between adoption and publication to the calls on them, `ThreadsFit`
and `LiveFits` what the publishing threads are about to publish to what is live. A call's
outcome that is handled late is harmless because `since` then differs, and that is the
conjunct each settling action needs.

`IntegrityStoresProofs`: `StoresStayOK`, `ShowsTrustedOnly` and `OnlyTheUserUnblocks`. Both
pin files hold known definitions only (`PinsKnown`: none, an approved one, or the one a
record blocks), since a reader may fall back to either; what a publishing thread carries
from one lock to the next is known in the same sense when it is used (`WorkFits`), and what
the user is shown is the record that is released (`DeskFits`). `overruled` is part of the
statements because of this proof: with two lost pin files the earlier, shorter excuse was
not enough.

`AdapterSessionsProofs`: `DispatchedAtMostOnce` and `SessionsStayOK`. A call that was
dispatched is marked as sent until it ends (`RansFit`) and a refusal that leads to another
attempt means it was not sent (`PcFits`); writers of a gate are alone (`Apart`), new
gates are not known to any thread (`FreshGate`, a pigeonhole argument, which is why the
calls are assumed finite), and a call that is out is on the current session or on a daemon
marked as wedged (`PostsFit`).

`TokenRefreshProofs`: `PresentsSpentOnlyIfUnsaved`, `VaultStaysOK`, `RefusedStaysRefused` and
`GoodRotationsStay`.
The properties look at one request to the provider or at the vault; what decides is what every
gateway may still do with the grants it knows. `Hands` is the grant a gateway can still bring to the
vault. The invariant says that no other gateway has that grant's refresh token in hand (`Owned`),
that it is good until it is presented (`Good`) and that no rotation was bought with it yet
(`Unbought`); `Fits` ties what a gateway remembers and where it is in its operation to what the
vault held when it looked, and `Locked` to who has the refresh lock. The hard case is a
rotation that could not be saved: it is its owner's alone, until the vault moves on from the
state it was bought with, and only then may the owner drop it. `RefusedInv` adds, for the action
property, that a token the server refused is not what a forced refresh is about to return.
`KeepInv` serves `RotationsKept`: a rotation is pending only where the refresh token of the
state it replaces is spent (`Rested`); a state in the vault that the lock's holder does not know
is not a rotation, since rotations are stored under the lock only; a grant about to be stored
was bought with the state or the pending rotation it replaces; and a winner is a bearer the
gateway did not know. Then each step that drops a refresh token drops a spent one, one that is
no rotation, or has one of the listed reasons. With it every safety property that the
`token_refresh` run checks is a theorem.

The assumptions are the named `ASSUME`s of the modules: distinct names for the special
values, caps and times that are natural numbers, sets that are not empty or finite where the
code's are. Nothing else is assumed; bounds such as `MaxTime` or `MaxUpsets` are arbitrary.

Only model-checked: liveness (`EnsureReturns`, `CallSettles`, `ReleasedComesBack`, `CallsEnd`,
`LossHeals`, `GatewayCatchesUp`, `LiveRecovers`), which is outside the prover's reach. Every
other property of the runs is also a theorem.

## Not modelled

Listed in `PROJECT.json` with reasons. The repository has about 281,000 lines, most of
which are user interface, formats, tests inside the source files, platform code and text;
the models cover the concurrent and crash-prone core, a small share of the lines.

- Text and JSON processing (shaping, PII, schema compatibility, search, client
  configuration formats, teams and sync merges): the content is data, and the control around
  it sequential.
- Logs, savings, metrics and telemetry: no decision of the gateway depends on them.
- User interfaces, installation, launcher and purge: I/O.
- Secrets: a vault access is a step of `TokenRefresh`; the key stores themselves are the
  platform's.
- Code mode worker and the gateway's request plumbing: candidates below.

Within the modelled parts: notifications, the contents of prompts, the token proof of the
broker and of the daemon (a stranger on a port is a probe that fails), Windows and macOS
differences; client
credentials, discovery and the browser flow of OAuth; poison findings, explicit reviews,
cosmetic changes, safety levels and store migrations of the integrity gate, and the release of
a record whose pin is gone; listen and lifetime streams, subscriptions and a second
initialize of the adapter; the curated-template migration, temporary files, lock timeouts and
quarantine pruning of the registry, and a restart of the watching gateway; suspended
calls, HTTP retries, rooted views, servers without a supervisor, the removal of a server and
the count of calls in flight of the supervisor.

## Plan

1. The refinement of an abstract election by `DaemonElection`, for `AdapterSessions` to use.
2. The code mode worker (nested calls, cancellation) and the merge of `personal_sync.rs`.
