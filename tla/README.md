# TunnelBoard: a TLA+ verification project

TunnelBoard is a desktop program (Go back end, Vue front end over Wails) that
keeps SSH port forwards and local HTTP routes running.  It stores everything in
one encrypted file, the *Vault*; it edits a managed block of the system's hosts
file and runs a Caddy process of its own through a privileged helper; it makes,
imports and restores backups.  The modules here model the parts of it whose
correctness depends on the order of steps of several actors: goroutines that
share a lock, calls that may fail half-way, and an application that may die
between any two writes.

Paths below are relative to the repository.  `PROJECT.json` maps every
definition that stands for code to its lines.

## 1. Inventory

### Modelled in detail

**SSH connection pool** (`internal/forward/conn_pool.go`, `chain_lease.go`).
Forwards that use the same first hop share its SSH client.  State: a map from
identity to entry; in each entry the client, a generation, a reference count and
a dead flag, under a mutex of its own; two goroutines per client (`watch`,
`keepalive`).  Operations: `acquire` (which dials *while holding* `entry.mu`),
`release`, `RetireHost`, `CloseAll`, the capture and the abort of a generation by
`LeaseChain`.  Hard: the map lock and the entry lock are taken one after the
other, so an entry may be unlinked between lookup and dial; closing a transport
always happens after the unlock; leases of an older generation are released late.
Correct when counts are exact, no lease loses its transport to somebody else's
release, and no transport is left open with nobody to close it.

**Runtime table** (`internal/biz/runtime.go`).  `RuntimeBiz` maps a forward to
its one running `LocalForward`, with a phase (`starting`, `running`, `stopping`),
a generation and a status for the front end.  Operations: `Start`, `StartMany`,
`Stop`, `Suspend`, `Resume`, `Shutdown`; per run a `watch` goroutine for events
and the end of the run, and `finishStopInBackground` after a time-out.  Hard:
starting and stopping happen outside the lock; `Stop` and `Shutdown` overlap a
`Start`; events and ends of an older generation come late; a stop may time out
while the run still cleans up.  Correct when there is one active run per forward,
none without an owner, and a status that is true.

**One running forward** (`internal/forward/port_forward.go`).  `LocalForward`
has an accept loop, a goroutine per connection, a lifecycle monitor that re-dials
a broken chain with back-off (and rebinds a remote listener), and `Stop` with a
deadline after which it aborts the generation of its first hop.  Hard: `Stop`
against a reconnection, a handler that tracks itself while `Stop` takes its
snapshot, a handler with the client of before.  Correct when every lease and
listener has an owner that gives it back and `Stop` leaves nothing open; the code
keeps this but for one chain, which a `Stop` during the end of a reconnection
leaves behind.

**Route transaction** (`internal/biz/router.go`, `route_state.go`).  `RouterBiz`
brings three systems to what the Vault desires: the managed hosts block, the
owned Caddy, the user's trust in its CA.  State: a durable journal and a durable
record of what was applied.  Operations: reconcile (save the journal, mutate in
order, save the state, clear the journal, or compensate in reverse order),
`NeutralizeRoutes`, `ResumeCaddy`.  Hard: every call may fail with or without
effect, a crash may come between any two, and users and other programs edit the
same things.  Correct when the record never lies silently, a compensation really
goes back, and the CA is never trusted without consent.

**Restore transaction and quarantine** (`internal/biz/backup_restore.go`,
`internal/application/restore.go`, `service.go`).  A full restore suspends the
forwards, neutralizes the routes, replaces the Vault and puts it in quarantine
until the user activates its network.  State: the restore journal (phase,
storage revision before, captured forwards), the quarantine file, a maintenance
flag.  Operations: `CommitRestore`, its compensation, `RecoverPending` and
`StartupNetwork` at start, `ActivateRestoredNetwork`, and the gate
`ensureNetworkAllowedLocked` on every network command.  Hard: recovery has to find
out on which side of the rename the application died.  Correct when either the
old network comes back or the new Vault ends in quarantine, and a restored Vault
touches no network before it is activated.

**Command gate** (`internal/application/service.go`, `idempotency.go`).  Every
command that changes the Vault comes with an id, and the dangerous ones with the
token of a preview.  State: the mutation lock, the cache of recent results, the
staged host changes, route change and import.  Operations: previews, which take no
lock, and commits, which do.  Hard: forwards start and end, preferences are
written and the user edits on between a preview and its commit; clients retry and
send twice; the revision is a digest of the content and may come back.  Correct
when an id and a preview each act once at most, and only on what was previewed.

**Catalog** (`internal/biz/catalog.go`, `trust.go`, `backup.go`,
`internal/model/validate.go`, bindings of `app.go`).  Folders, hosts, forwards,
routes and host keys refer to each other by ids that are given out again.
Operations: saves, moves, cascading deletes, the merge of an import.  Hard: the
bindings stop forwards before they delete or change them, from a computation of
their own.  Correct when no run belongs to a forward that is gone or different,
and an import adds only.

**Log store** (`internal/diag/logstore.go`).  A bounded queue in front of a writer
goroutine, a file with archives, and a reader with a cursor.  Hard: refused bytes
are counted in three places, writes fail unseen and rotations half-way, `Tail` waits
for a barrier in the queue while `Close` ends the writer.  Correct when nothing is
refused uncounted or shown twice, and both calls end.

**Caddy supervisor** (`internal/caddy/adapter.go`).  One owned process, two admin
sockets used in turn, the digest of the last configuration.  Operations: `Apply`
(validate, purge stale certificates, reload or start) and `Stop`.  Hard: a `/load`
may take effect after its client gave up, a process may not stop or not become
ready, files cannot be written.  Correct when no process escapes and the digest
is true.

**Linux privileged session and CA record** (`internal/helper/linux_*.go`,
`local_ca_trust.go`, `platform_integration_linux.go`, `cmd/linux-helper`).  The
GUI asks polkit for a temporary authorization, starts a root helper with `pkexec`
and talks to it over pipes.  State: the session, its authorization and expiry; the
helper's own lifetime; the CA in the system's store and the record of it.  Hard:
the helper dies after an effect and before its reply, polkit, GUI and helper each
keep a clock, and a root process cannot always be killed.  Correct when every
helper and authorization is accounted for, effects do not come twice, and the
record is true.

### Partly modelled, by what the modules above see of them

| part | state and operations | how it appears |
|---|---|---|
| Hosts writer (`internal/helper/hostsfile.go`) | the managed block; compare-and-replace by the helper | one step, which may fail before or after its effect |
| Vault store (`internal/vault`) | one file, storage revision, candidate; `Update`, `PrepareRestoreCandidate`, `CommitRestoreCandidate` | an atomic replacement and its revisions |
| Host key trust (`biz/trust.go`, `forward/hostkey.go`) | known keys of a host | enrolment and replacement in `Catalog`; the comparison is inside the dial |
| Import and staging (`biz/backup*.go`) | staged packages, import plans | the merge in `Catalog`, the single use of a package in `Commands`; the package's files and encryption are data |
| Local CA trust (`helper/local_ca_trust.go`) | record and platform store | on Linux in `PrivilegedSession`; a Boolean for `RouteTransaction` |
| Bindings and start-up (`app.go`, `main.go`) | start: `RecoverPending`, then `StartupNetwork`; shutdown | start order, stops before deletes, shutdown |
| Service (`service.go`) beyond the commands | single flight of update checks, snapshots, views | not in `Commands` |

### Not modelled, and why

Log handlers, `SourceWriter` and diagnostics (formatting, redaction, splitting),
route planner (text layout), connection probes and the SOCKS5 handshake (no shared
state), SSH dialling and authentication (network I/O, one step here), SSH config
import (a parser), updater (one request and a comparison whose result is only
shown), key export, tray, autostart, locale (platform registration), command-line
tools and scripts but for the Linux helper, the front end (its state is a copy of
the back end's).  The Windows pipe session (`helper/session*.go`) and the macOS
and Windows CA stores have the protocol of `PrivilegedSession` with other system
calls; their waits are overlapped I/O, which would need a model of its own.

### How the parts interact

```
 bindings ──> application.Service ──(mutation lock)──┐
                 │ StartForwards, Commit*, Restore   │
        ┌────────┼─────────────────┬─────────────────┤
        v        v                 v                 v
   RuntimeBiz  RouterBiz   RestoreCoordinator      Vault
        │        │  hosts helper, Caddy, CA   │ Suspend, Neutralize, replace
        v        v                            v
  LocalForward   hosts ── privileged session ── root helper ── polkit
        v        Caddy ── owned process
    LeaseChain ──> connPool ──> transports
```

Start, Suspend/Resume, route changes, restore and activation run under the
service's mutation lock; Stop (`service.go:463`), Shutdown (`app.go:226`), the
death of forwards, and edits of preferences and host keys (`app.go:388`, `1017`,
`1051`) do not.  The models keep exactly that: what excludes each other by the lock
is sequential, all else interleaves.

## 2. Plan

Order: what can lose or misuse the user's network first.

1. `SSHConnPool`, with proofs - done.
2. `RunHandle` (the interface between table and forward), `ForwardRuntime`,
   `LocalForward`, and `LocalForward` implements `RunHandleSpec` - done.
3. `RouteTransaction` - done.  `RestoreTransaction`, with proofs - done.
4. `Commands`: previews, gates, retries against the cache - done.
5. `LogStore`, `Catalog`, `CaddySupervisor`, `PrivilegedSession` - done.
6. Proofs: the safety properties and action properties of `PrivilegedSession`,
   `LocalForward` with its refinement of `RunHandleSpec`, `ForwardRuntime`,
   `RouteTransaction`, `RestoreTransaction`, `CaddySupervisor`, `Commands`,
   `Catalog` and `LogStore` - done.
7. `RunLifetime`: the watcher composed with `LocalForward` and a pool reference,
   for the lease that a run which ended by itself keeps (`port_forward.go:517`).
8. The single flight of `CheckForUpdates`, the Windows session.

Abstract specifications: `RunHandleSpec` (exists); for the restore, "old network
or quarantined new Vault", and for commands, at-most-once, are properties over
history variables (`AbortRestoresAll`, `NewVaultIsGuarded`; `AtMostOnce`,
`OneEffectPerPreview`).

## 3. Modules and their correspondence to the code

**`SSHConnPool`.**  `Leases` are calls of `LeaseChain`.  `client`, `dead`, `refs`
are the fields of `poolEntry`; client and generation change together, so a client
is its generation.  Each critical section is an action, except `acquire`, which
holds `entry.mu` while it dials: "some lease dials on e" *is* the lock
(`Unlocked`).  The close after an unlock is a separate action (`pc = "close"`,
`monitor = "close"`, `closing`).  The pool map (`entryOf`) is read in `Lookup`,
before the entry's lock, as in the code.  Temporary hosts (ID 0) never enter the
pool and are left out.

**`RunHandle`, `RunHandleSpec`.**  The `runHandle` interface of `runtime.go` as a
value and as a specification.  The table is composed with values of it, the
forward is shown to implement it, so each is checked against the other's
contract and not against the other's code.

**`ForwardRuntime`.**  `runs[id]` is `RuntimeBiz.runs` (generation, phase, whether
`entry.run` is set), `pc[c]` is a `Start` between its critical sections.
`StopReturns` has both outcomes of `run.Stop`; a time-out starts the `finisher`.
`WatchSeesDone` and `WatchTakesEvent` are the two branches of the watcher's
`select`.  `Suspend` does not overlap `Start` because of the mutation lock, so its
branch for an entry without a run cannot be reached.

**`LocalForward`.**  One action per section under `f.mu`, one per blocking call.
Leases and the listeners bound with them share a number.  `stopLease`,
`stopListener`, `stopConns` are the snapshot that `Stop` takes; what the fields
`lease` and `listener` hold after it is the stray chain (`Stray`), which nobody
looks at again.  SOCKS5 is left out: a dynamic forward is a local one here.

**`RouteTransaction`.**  `pc` is the next call of the transaction that holds
`b.mu`; `tx` holds its locals (target, what it read, what it mutated).  Every
external call takes `ok \in BOOLEAN`, and a failing one may or may not have
taken effect.  `owed`, `tx.ca`, `tx.caddy`, `tx.touched` are history.

**`RestoreTransaction`.**  Phases and their order are those of the journal.
`RestoreBegins` to `CommitsJournal` are `RestoreCoordinator.Commit`, `Undo*` is
`Compensate`, `Recover*` is `RecoverPending`, `Activates*` is
`ActivateRestoredNetwork`.  The runtime appears as the set of running forwards,
the routes as `applied`, `neutral`, or `partial` (a neutralization failed):
what `ForwardRuntime` and `RouteTransaction` promise.  A Vault is two revisions:
storage (every write; recovery compares this one) and catalog.

**`Commands`.**  The Vault is one bit for each part its writers change; a write
flips its part, so a content, and with it a revision, may come back.  `busy` is
the command inside the mutation lock at the point it has reached; what takes no
lock (previews, `StopForward`, preferences, the end of a run) may step in between.
A preview is a token with the revision and the runs it was made for; `cache` is
`recentCommandCache` with its order and ages (`Staying`, in module
`Lists`, keeps the entries that stay in their order).  A restore replaces the whole
Vault, preferences included, and asks no recovery; an import of a destroyed package
still writes its wrapper folder.  `effects` and `acted` are history.

**`Catalog`.**  The catalogue is a record of functions from ids; every writer
changes a copy that `Validate` accepts or refuses, as `VaultStore.Update` does.
`table` is the runtime table reduced to what each run was started with.  A binding
and the operation it wraps are one action, for they share the mutation lock.

**`LogStore`.**  `queue` is the channel, `writer` the goroutine between two
commands, `sendMu` says who holds that mutex: a `Tail` keeps it until its barrier
is reached.  The file is its sequence of lines, `ends` the offset of the end of each,
the last of which is the `size` of the code.  A write succeeds (`Write`) or is lost
with its error (`WriteLoses`): on a handle that a failed rotation or `Close` closed,
on a disk that takes nothing, or in the middle of a rotation.  `marked` and
`unmarked` are history: the bytes whose marker was written, and those whose marker
was lost that way.  Once `Close` has taken the source out of the store, `Append`
drops a line without counting it (`AppendIgnored`), unless the call had got the
source before.  `view` is what `mergeLogTail` of the page makes of the answers.

**`CaddySupervisor`.**  `call` is the call that holds `a.mu`, step by step; the
sockets, processes, the port and the certificates are the world it deals with.
`loading` is a `/load` whose client has given up.

**`PrivilegedSession`.**  Session `n` is authorization `n` and helper `n`.  `held`
is the section under `s.mu`: its step, its caller and the request it sends;
`work` is the operation of `LocalCATrust` or of the hosts operator around it.
`HelperDies` may come before an effect or between the effect and its reply.

## 4. Runs

| run | question | bounds | result |
|---|---|---|---|
| `pool` | counts, closes, re-dials against each other; is every transport nobody holds closed | 2 leases, 1 identity, 1 retirer, 1 entry, 2 dials | holds |
| `runtime` | table, runs, status; do stops converge | 1 forward, 2 starters, 1 stopper, 2 runs, 1 event | holds |
| `forward` | ownership of leases and listeners, `Stop`, refinement | both modes, 1 connection, 2 chains, 1 event | holds |
| `forward_stop` | does anything new come after a `Stop` | both modes, 1 connection, 2 chains, 1 event | **violated** |
| `route` | drift, rollback, recorded state, journal | 2 catalogs, 2 faults, 1 foreign change | holds |
| `restore` | old network or quarantined Vault, always recovered | 2 forwards, 2 Vault writes before an operation, 3 faults | holds |
| `commands` | retries, previews and edits against each other | 3 ids over 2 cached results, 1-2 previews of each mix of operations that race, 2 runs, 1 edit, 1 tick | holds |
| `logs` | drops, failing writes, rotation, cursor, close | 5 lines, queue of 3 bytes, files of 3, 2 archives, 3 polls | holds |
| `catalog` | runs, switches, imports against the catalogue | 2 starting catalogues, 3 operations, 1 import | holds |
| `caddy` | processes, digest, returns | 2 configurations, 4 starts, 5 calls, 3 faults | holds |
| `session` | helpers, authorizations, effects, record, returns | 3 sessions, 2 faults, 1 crash | holds |
| `session_expiry` | does a call renew an expired session | no fault | **violated** |

*Why the bounds are enough.*  Pool: two leases are one that shares and one that
re-dials, two dials are a dead generation and its replacement.  One entry is enough
to meet a retired one, which differs from a live one only in that no new acquire
finds it: the retirer unlinks it between the look-ups of the two leases and their
two dials.  Entries share nothing but the map and the retirer; for a successor, and
for a third of anything, the proofs of section 6 hold.  Table: every
relation is between an old and a new generation of one forward, entries of
different forwards share only `closing`.  A one-event channel overflows after one
event, the case that larger ones reach later.  Forward: two chains are the lost
one and its replacement; connections interact only with `Stop` and the monitor.
Route: the second fault is what makes a compensation fail, the foreign change what
makes it stale.  Restore: three faults are a failing step, a failing compensation
and a crash in the recovery; two writes let a restore follow an edit, and a
second restore follow a first.  Commands: two
previews are one and its successor, three ids over two results are what evicts, a
tick outlives a preview and half a result.  Logs: a queue of three bytes refuses
the second long line, a file of three rotates on it, and two archives let one be
overwritten.  Catalog: three operations are a change, a start and a delete, over
starting catalogues that already hold nested folders, a chain and a route.  Caddy:
four starts and three faults are a process that does not stop, one that replaces
it and a load that comes late.  Session: three sessions are an expired one, its
successor and the one of an undo; the second fault is what makes a clean-up fail.
Deadlock is not checked where a bound or the end of the program (Shutdown, Stop,
Close) lets the system stop.

*Vacuity.*  Every property of a passing run has a mutant in `PROJECT.json`: the
code's definition with a guard dropped, a reset forgotten or an order swapped,
under which TLC reports that property violated.

### What the violated runs show

**`forward_stop`.**  The monitor does not look at `stopping` between the end of a
re-dial and `setLease` (`port_forward.go:515-532`).  A `Stop` in between takes the
old lease and listener, waits for nobody but the accept loop and the handlers, and
returns; then a remote forward binds a listener over the new chain, and lease and
listener go into the fields of the stopped forward.  `Stop` runs once, so nobody
releases them.  `2026-07-21-mvp-remediation-decision-log.md:1537` promises that no
new connection appears after a `Stop` during a probe, a back-off or a dial.
`HoldingsAreOwned` and `StoppedIsQuiet`, which hold, say that nothing else is left
behind (`StrayIsOneChain`).

**`session_expiry`.**  `ensureLocked` sends a revoke to the helper of an expired
session and returns any error of that clean-up (`linux_privileged_session.go:271`).
The helper ends itself after the same five minutes (`linux_privileged_server.go:56`),
so the revoke meets a closed pipe, and the first hosts or CA operation after an
expiry fails; the second opens a new session.  The test of the expiry
(`linux_privileged_session_test.go:118`) uses a connection that outlives it.

### Observations

Behaviours of the code that differ from what a text of the repository says, or
that a maintainer may want to know.  Those with a property name have it written in
the module, with the text it quotes; it is not part of a run because the code does
not keep it (add it to the `.cfg` of its module to see TLC's trace).

* `SSHConnPool`, `AbortTargetsOwnGeneration`: `LeaseChain` looks the generation up
  *after* the dial (`conn_pool.go:300`).  If the hop was re-dialled or retired
  meanwhile, an abort at the deadline of `Stop` misses its own transport, and may
  close a newer one that other forwards use.
* `SSHConnPool`: the pool dials with `entry.mu` held, and the time-out of
  `ssh.ClientConfig` bounds only the TCP connect (`port_forward.go:817`, `936`).  A
  first hop that accepts and stays silent in the handshake holds up every acquire,
  release, watcher and retirer of its entry, and the abort of a `Stop` too
  (`conn_pool.go:198`, `346`), for as long as it likes.  No run claims a bound.
* `ForwardRuntime`, `RemovedWhenClean`: a `Start` that was stopped meanwhile deletes
  its entry although its own `run.Stop` timed out (`runtime.go:202`).
* `LocalForward`, `GivingUpEnds`: a remote forward that gave up reconnecting never
  closes `Done` (`port_forward.go:366`): it stays "reconnecting".
* `RouteTransaction`, `RollbackRestoresCaddy`: a rollback reads the previous Caddy
  configuration from a place where the adapter does not write it (`router.go:199`,
  `app.go:137`, `adapter.go:710`), so it reports success with the new one served.
* `RestoreTransaction`, `OnlyActivationLifts`: a second restore over a quarantined
  Vault, interrupted before the replacement, makes the next start lift the
  quarantine (`restore.go:279`; `service.go:1579` says only an activation does).
* `LogStore`, `TailContinuesAtCursor`: `tail` skips to the next line end whenever
  its start is not 0 (`logstore.go:401`), also when the start is a cursor it gave
  out itself.  A poll then drops the first new line, and an idle poll reports the
  whole file as dropped.
* `CaddySupervisor`, `FaultlessApplySucceeds`: after stale certificates were purged
  from a running Caddy, `Apply` stops it and starts anew with a configuration for
  the *other* admin socket, but waits for readiness on the old one
  (`adapter.go:241`, `279-287`, `339`): the start is killed after five seconds.
  The same happens if the process dies between the two checks.
* `Commands`: `CommitImport` reads the staged package without `importMu`
  (`service.go:1458`).  A `StageImport` at that moment destroys it: the commit
  imports an empty package (only its wrapper folder comes in, which is not counted
  as an effect), reports success, and drops the newer stage (1476).
* `Catalog`: `DeleteSelection` ignores errors of `Stop` (`app.go:504`), and a
  deleted id is given out again (`catalog.go:546`): a run whose stop failed can
  meet a new forward with its id.  An import drops a skipped hop out of a chain.
* `CaddySupervisor`: a reload that could not write its file leaves `lastDigest` old
  (`adapter.go:305`), which no property covers, for `lastError` is set.  A `/load`
  may take effect after its call returned; the next
  `Apply` then removes the live socket (291) and every reload fails until a `Stop`.
  The stop after a purge waits with a context that never ends (284).
* `LogStore`: a rotation that fails leaves a closed handle for good, after which
  every line, and every marker, is lost without a word (`logstore.go:246`, `272`); a
  `Tail` holds `sendMu` while it waits, so `Append` waits for the disk.
* `PrivilegedSession`: `s.mu` is held over the prompt, so the shutdown's five-second
  deadline does not bound its wait for an unanswered one; a clean-up whose five
  seconds are over does not send the revocation, and the authorization stays until
  polkit forgets it; a CA whose confirmation was lost has no record, so its removal
  does nothing later.
* `LocalForward`: a run that ended by itself is only taken out of the table; nobody
  calls its `Stop`, so its last lease stays referenced (`port_forward.go:517`).

### Exceptions that the passing properties name

They are code behaviours met while modelling; each is written as the exception of
a property, and without it TLC finds a violation.

* `DriftIsRecorded`, `owed`: a retry after a crash takes the half-applied hosts as
  its baseline; `cleanup_pending` is overwritten by the next failing transaction.
* `RollbackIsComplete`, `tx.touched`: a compensation overwrites an edit that others
  made since the transaction read the block.
* `RecordIsTrue` speaks of *a* Caddy: a stale `lastDigest` after a reload that
  could not write its file lets "applied" be recorded with another configuration
  served (`adapter.go:305`).
* `AbortRestoresAll`, `"partial"`: after a neutralization that failed half-way,
  `Compensate` reconciles nothing and still consumes the journal
  (`restore.go:179`).
* `PendingIsRecovered`, `NeedsConsent`: compensation and recovery reconcile without
  a fingerprint (`restore.go:180`, `269`); with a Caddy route and the CA removed by
  the neutralization they are refused, and the network stays blocked.
* `meddled`: a restore over a pending journal or a quarantine is not refused, and
  neither are preference and host-key edits over `replacing_vault`, after which
  recovery mistakes the old Vault for the new.
* `StatusIsTrue` binds the status of entries in phase
  `running`: `handleEvent` checks the generation but not the phase, so a late
  `reconnected` event may display "running" for a run that Shutdown or Stop is
  ending (`runtime.go:681`).
* `RunsLeave` excuses a run whose `Start` hangs in its dial, and `ForwardEnds`
  (`MonitorEnds`) a monitor that hangs in a re-dial: no dial is bounded (section 5).
* `HoldingsAreOwned`, `StoppedIsQuiet`, `Stray`: the one chain of a reconnection that
  slipped past `Stop`, with its listener if the forward is remote.  `ForwardEnds`,
  `lease # NoLease`: the same.
* `RefusalsAreCounted`, `unmarked`: a marker whose write fails is in no file, since
  `flushDropped` takes the count before and throws the error away; the page is told of
  these bytes all the same.  `MarkerIsComing`, `closed`: what is refused by a closed
  source has no marker, since nothing comes behind the close command.
* `DigestIsServed`, `overtaken`, `lastError`: a load that took effect late, and a
  failed `Apply`, which `Status` shows.  `CallsReturn` of `CaddySupervisor`,
  `WaitsForever`: the stop after a purge (`adapter.go:284`), whose wait has no
  deadline.
* `TrustMatchesRecord`, `excused`: a lost reply, a failed compensation or a crash
  leaves the record without knowledge of what the helper did.
* `AuthorizationsAreAccounted`, `leaked`: a revocation that failed or was not sent.
* `RunsMatchCatalogue`, stopping runs: a run whose `Stop` failed outlives its
  forward.

## 5. Fairness

No dial is taken to end, in any module: `ClientConfig.Timeout` bounds the TCP connect
and not the handshake behind it (`port_forward.go:817`, `936-945`).

* Pool: weak fairness of closes: who has marked an entry dead runs on to close its
  transport.  None for dials, the lock, callers, failures, RetireHost or CloseAll.
* Table: a goroutine that is not blocked runs on; the clean-up of a run ends
  (`LocalForward` shows it to, `StopCompletes`).  None for the dial of a `Start`.
  `WatchSeesDone` competes with events in a `select`, but a finite channel and a
  closed producer make it enabled for good.
* Forward: goroutines run on; back-off and rebind end, a re-dial need not;
  `reconnectTimeout` bounds the loop of both - strong fairness of `BackoffEnds`
  towards giving up is that bound; `Stop` meets its deadline; a handler ends once one
  of its sockets is closed.  None for peers or chains.  Releases and aborts are taken
  to get `entry.mu`: what `ForwardEnds` says holds as long as no other forward hangs in
  a dial of the same first hop.  The deadline of `Stop` does not cover its `Release`
  (`port_forward.go:246`), and its abort wants the same lock.
* Route: a transaction runs to its end; a user keeps retrying and confirms the CA.
* Restore: every call returns; a user whose network stays blocked restarts the
  application some day.

* Logs: the writer goroutine runs on and the disk answers; `sendMu` is taken at last
  by whoever waits for it (strong fairness).  None for appends, polls or Close.
* Caddy: the call under way goes on, contexts with a deadline expire and a killed
  process ends; nothing makes Caddy answer, become ready, stop or die of itself.
* Session: the user answers the prompt some day, the helper serves and exits when
  told, goroutines run, a free `s.mu` is taken at last.  No deadline, expiry, kill
  or death is fair.

## 6. Proofs

`SSHConnPoolProofs` proves, with TLAPS, for every number of leases, identities,
hosts, retirers, entries and dials, from `PoolAssumption` alone (finitely many
leases, `IdentityOf` and `HostOf` are functions, bounds are naturals):

| theorem | states |
|---|---|
| `PoolTypeCorrect` | `Spec => []TypeOK` |
| `RefsAreExact` | a count is the number of leases that hold the generation |
| `LastReleaseIsAlone` | a release that closes a transport closes one no lease uses |
| `SharedClientIsSound` | what `acquire` would hand out is in use, open, and due for no close |
| `NoTransportIsLost` | an unclosed transport is the current one of its entry; a dead one has a close due |
| `DialsAreSingleFlight` | a live generation is never replaced (an action property) |

None of the four safety invariants is inductive: a release is harmless only if the
lease it is of refers to an entry that dialled its client, and a dial only if it
is alone.  `IInv` adds `OwnersKnown` (every client in an entry, with a goroutine or
due for a close was dialled, by the entry that owns it), `LeasesWellFormed` (a
lease that references a client does so in the client's entry) and
`LockIsExclusive` (one dial per entry, and only where one is needed).  The proof has a lemma per
conjunct of `IInv` with a step per action that can disturb it, and frame lemmas
for the actions that cannot; that counts stay exact rests on the cardinality of
`Holders` when a lease joins or leaves it.  `DialsAreSingleFlight` follows from `IInv` at each step.

TLC checked `IInv` first, on the instance of `pool` and, with the safety properties, on
one with two entries.

`RestoreTransactionProofs` proves four theorems about the restore, for every set
of forwards, every choice of the catalogs with a Caddy route and every bound on
writes and faults, from `BoundsAssumption` (the bounds are naturals):

| theorem | states |
|---|---|
| `RestoreTypeCorrect` | `Spec => []TypeOK` |
| `RestoredVaultIsGuarded` | a restored Vault is in quarantine, or a journal leads there |
| `RestoredVaultIsQuiet` | no forward and no route before an activation is begun |
| `AbortRestoresAllHolds` | who consumes the journal over the old Vault has brought everything back (an action property) |

The guard alone is not inductive: it breaks if somebody consumes the journal of a
Vault that was replaced, so one has to know who consumes which.  Its `IInv` adds:

* `LocalsKnown`: the locals of an operation agree with where it is, in particular
  `replaced` is set exactly after the replacement, so that a failure goes to the
  compensation before it and never after it;
* `RevisionsGrow`: the storage revision only grows and a journal remembers an
  earlier one, which is what makes the comparison in `replacing_vault` meaningful;
* `ReplacementIsSeen`: compensation and the reviving half of the recovery are only
  entered over a Vault that was not restored, a restored one is told by its journal
  (by its phase, or by the revision), and the journal of a restore is committed in
  quarantine only;
* `EffectsAreOff`: runtime and routes are off from their suspension to the
  replacement, and an activation under way is on record.

Each is a lemma over all actions, most of which a frame lemma dismisses
(`FilesFrame`: who writes the Vault or the journal; `HistoryGrows`: who restores;
`QuarantineFrame`: who lifts; `QuietFrame`: who brings effects about).  The two
theorems about the restored Vault keep the exception `meddled` (section 4): without
it they are false, and `OnlyActivationLifts` is one way to see it.

`AbortRestoresAllHolds` needs no such exception.  It is about the old Vault, and rests
on `AbortInv`, which is inductive together with `IInv`:

* `JournalIsAhead`: a journal in an early phase has nothing to undo, a forward that
  was stopped is in the journal's list, and a journal past the replacement tells a
  Vault newer than the one it met;
* `PlanIsKnown`, `RoutesAreKnown`: what the compensation still has to start is in its
  plan, and after a step that succeeded nothing of it is left;
* `RecoveryIsComplete`: the recovery clears or commits a journal over the old Vault
  only with every forward started and the routes back.

TLC checked both invariants on the instance of `restore` first.

`PrivilegedSessionProofs` proves five theorems about the Linux session, for every
number of sessions, faults and crashes, from `SessionAssumption` (they are naturals):

| theorem | states |
|---|---|
| `SessionTypeCorrect` | `Spec => []TypeOK` |
| `OneRootHelperHolds` | a running root helper is the session's, or its exit is waited for |
| `AuthorizationsAreAccountedHolds` | what polkit still grants belongs to a session in use or under clean-up, or was leaked |
| `OneEffectPerCallHolds` | a call takes effect at most once, and exactly once if it succeeded |
| `TrustMatchesRecordHolds` | between two changes the CA store and its record agree, but for the faults that leave no knowledge |

The invariants say where a helper or a grant may be, not why; `IInv` adds what the
section under `s.mu` means at each of its steps:

* `SectionMeans`: nothing is held between two calls, no connection exists while one is
  made or closed, the one in use is the section's, and a clean-up that went wrong is
  marked as failed, so that only a revoke, which had no effect, goes on to a new prompt;
* `HelpersKnown` and `GrantsKnown`: after the wait no helper of the section lives, and
  past the attempt to revoke it no authorization is its own;
* `EffectsCounted`: only a waiting caller has something in the pipe, a request there has
  had no effect yet, an `ok` has had its own.

Five lemmas carry the induction, by what a step does to the section: nothing
(`OutsideKeeps` for the GUI and polkit, `RootKeeps` for the helper and the clock),
open it (`OpeningKeeps`), close a connection in it (`ClosingKeeps`), or leave it
(`LeavingKeeps`); the steps that make a session or put a request in the pipe are
proved directly.

The record of the CA is written by the caller after the helper's answer, so that
`TrustMatchesRecordHolds` has to follow a change from the request to the record through
both processes.  `TrustInv`, on top of `IInv`, says where each of the two is ahead:
`SectionIsOwned` (whose request is in the section: the worker's, or a revoke),
`WorkMeans` (what an operation has reached by each of its steps, and that an `ok` in
the pipe tells what the store holds) and `TrustKnown` (while no fault is excused: the
record is the old one until the step that writes it, and the store differs from it
only once the request had its effect).  TLC checked both invariants on the instance of
`session` first.

`LocalForwardProofs` proves three theorems about one forward, for any number of
connections and leases and any buffer, from `ForwardAssumption` and `RunAssumption`:

| theorem | states |
|---|---|
| `HoldingsOwned` | every lease held and every open listener has somebody who will give it back (Start, the forward until its Stop, the monitor, Stop, a release under way) or is of the one stray chain; the client in use is held |
| `StoppedQuiet` | after Stop no handler runs and no socket is open; a local forward does not listen, a remote one at most over the stray chain |
| `ForwardImplementsRunHandle` | a forward implements the run the table relies on |

Ownership is only inductive together with the order of each goroutine:

* `StartIsAlone`: until Start has returned nil only Start runs, with at most the last
  lease;
* `StopIsOrdered`: which flags tell how far Stop is;
* `LeasesAreDistinct`: the lease in use, the next one, Stop's and those being released
  are different ones, so that a release is of one owner's;
* `ConnsAreOrdered`: what a handler did is what its sockets and `activeConns` show;
* `StopIsComplete`: Stop's snapshot has every connection still tracked, which holds
  because a handler that tracks later finds `stopping` set;
* `LeasesAreNamed`, `ListenersAreNamed`: which field names a lease or a listener that
  is held, and `LocalNeverRebinds`: only a remote monitor binds anew.  With them the
  stray chain is one (`StrayIsOneChain`): the monitor that brought it sees the
  cancelled context and ends.

The refinement is proved step by step (`StepsMap`): a forward's step is a step of
`RunHandleSpec` under the mapping `Handle`, or changes nothing of it.  It uses `IInv`
for what the flags `stopping`, `done` and `stopDone` say of each other, and for where
the monitor is while only Start runs.

`ForwardRuntimeProofs` proves two theorems about the table, for any forwards, callers
and runs, from `RuntimeAssumption` and `RunAssumption`:

| theorem | states |
|---|---|
| `TableOwnsRuns` | a run that serves is in the table or with somebody who stops it; no forward has two |
| `StatusTold` | the status shown follows from the table, and from the chain once its events are read |

The argument is ownership: `StartIsSound` says that an entry belongs to the Start that
registered it until it is published, and that no other Start holds that generation;
`EntryIsSound` that an entry names a run of its own forward; `RunIsSound` that from the
publication on, a run that is not in phase `running` is awaited by whoever stops it.
`EventsTell` adds that the last event in the channel tells the state of the chain, and
`StatusFollows` that a status is what the events up to the reader say.  The lemmas go
by who moves: the run itself, the watcher, a caller that marks an entry, and Start's
critical sections, each with an entry it owns or none.

`RouteTransactionProofs` proves three theorems, for any routes and any number of
faults, crashes and foreign changes, from `BoundsAssumption` and `DesiresAssumption`:

| theorem | states |
|---|---|
| `DriftRecorded` | hosts that differ from the record are known as owed or announced by a journal |
| `RollbackComplete` | a compensation without a failure has undone hosts and trust, and left no new Caddy |
| `RecordTrue` | a commit records what is in effect, a quarantine that nothing is (an action property) |

A compensation is complete if the transaction knows at each step what it has changed.
`IInv` says so per resource, forward and back: `HostsKnown`, `TrustKnown` and
`CaddyKnown` (until its step in `mutated` a resource is as it was met, after it as
wanted, past its undo as met again), `NeutralKnown` for the quarantine, and
`DriftKnown`, which follows the two records, journal and state, across every write.
What others change meanwhile it cannot know; the first three claim nothing then, and
`owed` is what remains of it.  One lemma per action.

`CaddyAndLogProofs` is about the Caddy process and the log its output goes to (it
extends both modules, which is why those of `LogStore` and `Catalog` name their
specifications apart).  It proves two theorems about `CaddySupervisor`, for any
configurations and any number of calls, starts and failures, from `CaddyAssumption`:

| theorem | states |
|---|---|
| `StraysAreKilled` | a Caddy that runs is the owned one or was sent a kill |
| `DigestTrue` | between calls the owned Caddy serves what the digest says, but for `lastError` or a late load |

`IInv` adds `PidsAreFresh` (a process that was not started yet is nobody's),
`ProcessIsOwned` (which steps of a call have a process, and that the digest goes with
it) and `ServingIsKnown` (between a reload and the note of it the call, not the digest,
tells what is served).  One lemma per action.

And three about `LogStore`, for any limits, any lengths of the lines and any number of
archives, from `LogStoreAssumption`:

| theorem | states |
|---|---|
| `RefusedBytesAreTold` | both counts of the refused bytes are exact: reported or due at the next Tail that succeeds; marked, owed a marker, or the write of the marker failed |
| `LogOrderHolds` | from the oldest archive to the file the lines are in their order |
| `PageRepeatsNothing` | the page shows no line twice |

`LogInv` follows a line from the call to the page: the queue is in order and behind what
the writer holds (`QueueKeepsOrder`); what is on disk or on the page came before all
that (`WrittenPrecedes`), also when a rotation stops between two renames
(`BreaksKeeps`); the ends of the lines grow (`EndsGrow`), and while its file is the
current one the cursor is such an end, behind which nothing was shown (`CursorTells`).
A window that starts there or later has only lines behind it (`ReturnedIs`): the lines
that end before an offset are at least as many as end before an earlier one
(`LinesBeforeIs`, a comparison of cardinalities).

`ServiceProofs` is about the two halves of the application service.  It proves four
theorems about `Commands`, for any ids, capacity, lifetimes and mix of clients, from
`CommandsAssumption`:

| theorem | states |
|---|---|
| `PreviewActsOnce` | the change of a preview is made at most once |
| `IdentityIsCurrent` | outside a command no run uses an identity the Vault has lost, unless it is being stopped |
| `PreviewStandsAtCommit` | a commit meets what its preview showed (an action property) |
| `ActsAtMostOnce` | an id does not act twice while a client may count on the cache |

The first three rest on `IInv`: a token that waits for its commit has had no effect and
has one holder, a stage or the command inside (`TokensAreUnspent`,
`TokensAreDistinct`); what a commit was shown still stands under the lock
(`PreviewStands`); a run has the stored identity, except while a host is saved, when
nothing runs (`RunIsCurrent`).

`ActsAtMostOnce` rests on `CacheInv`, on top of it.  `acted`, what a client may count on,
is written without looking at the cache; `PromisesKept` joins the two: an id with a
promise has an entry that lives at least as long, and *behind it lie only entries of
ids that were used since*.  With one entry per id (`OneEntryPerID`) there are fewer of
those than the capacity, so the entry survives the trimming (`TrimmingBacks`, by the
pigeonhole principle); pruning, storing and moving to the back keep it
(`PrunedBacks`, `StoredBacks`, `MovedBacks`).  All three remove elements of a list,
which is why the model writes that as `Staying`, by rank: `StayingIs` proves that what
stays has the elements and the order of the list.  TLC checked both invariants on the
instance of `commands` first, as it did those of the other modules on theirs.

And three about `Catalog`, which the module extends as well (its `CatalogSpec` and
`table` are named apart from the `Spec` and `runs` of `Commands`), for any catalogues,
packages and runs, from `PackagesAssumption` (a package is a catalogue some Vault once
held: `Written`, `Validate`):

| theorem | states |
|---|---|
| `RunsMatch` | a run that goes on is of a Forward of the catalogue and is what it says |
| `CaddyIsOnHosts` | no Route has Caddy on and its hosts entry off |
| `ImportOnlyAdds` | an import changes nothing, brings no Route that is on, and keeps each chain's endpoints (an action property) |

They rest on `CatInv`: `RunsMatchCatalogue`, and `Written`, the shape every writer leaves
behind.  A new Forward takes the largest id plus one, and spares the runs only because
a finite set of ids has a largest one (`LargestExists`, from the well-foundedness of the
naturals; a deleted Forward's id may come back, which is why a run that goes on must not outlive its Forward).
A deletion spares them because the cascade the binding works out contains the one the
catalogue does (`DoomedAreStopped`).  An import gives out ids by rank: they are new and
tell the items apart (`RenumberIs`), so a chain that is rewritten hop by hop, with the
skipped ones taken out, leads where it led (`ArrivesSame`, with `StayingMaps`: to
change the elements of a list and to take some out commute).

*Model-checked only.*  `MarkerIsComing` (safety), and all liveness (`UnheldIsClosed`, `JournalIsCleared`, `PendingIsRecovered`, `RunsLeave`,
`ForwardEnds` and the properties that a call returns), which is outside the prover's
reach here, as is ENABLED.  Every other property of the runs that hold is proved.

## 7. Abstractions to keep in mind

* A dial, a hosts write, a Caddy call, a file write is one step with an outcome;
  the state in the middle of a single file write is not seen (the code renames).
* After a crash, an owned Caddy counts as gone.  On Unix the process may survive,
  unowned; the next `Apply` meets it as a busy port, a failing call here.
* A hosts file that cannot be read is a failing call.  Domain confirmation and
  the migration of a legacy CA are checks before a transaction begins.
* `app.shutdown` stops Caddy outside `b.mu` (`app.go:228`): `CaddyDies` covers it.
* The candidate file that an interrupted restore leaves behind is not tracked.
* One log source stands for all; a write takes a whole line or nothing, never a
  part.  Redaction and the cutting of long lines are left out.
* `Catalog` joins a binding and its operation; the window between them is the
  mutation lock's.  `Commands` has the other interleavings, over a smaller Vault.
* A Caddy configuration is its own digest.  Certificates are rotated or not.
* On Linux only: a helper whose parent is gone dies at once (`PDEATHSIG`), polkit
  forgets what it granted to a process that ended.
