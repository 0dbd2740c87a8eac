--------------------------- MODULE RouteTransaction ---------------------------
\* RouterBiz (internal/biz/router.go, route_state.go): the transaction that
\* brings the managed block of the hosts file, the owned Caddy process and the
\* trust in its local CA to what the Vault desires, with a durable journal and
\* a compensation in reverse order.  b.mu serialises the transactions; a crash,
\* a failing call, a dying Caddy and another program that edits the hosts file
\* or removes the CA may come between any two of their steps.
EXTENDS Naturals

CONSTANTS
  NoHosts,     \* an empty managed block
  NoCaddy,     \* no Caddy configuration, no owned process
  Desires,     \* the [hosts, caddy] pairs the Vault may ask for
  MaxFaults,   \* bound: failing calls and crashes
  MaxForeign   \* bound: changes made by the user, other programs, or Caddy dying

ASSUME BoundsAssumption == MaxFaults \in Nat /\ MaxForeign \in Nat
ASSUME DesiresAssumption == \A d \in Desires : DOMAIN d = {"hosts", "caddy"}

VARIABLES
  desired,     \* the routes of the Vault
  hosts,       \* the managed block of the hosts file
  caddy,       \* what the owned Caddy process serves
  digest,      \* lastDigest of the adapter: what it believes the process serves
  trusted,     \* the current user's store trusts the local CA
  state,       \* route-applied.json
  journal,     \* phase of route-journal.json, "none" if there is no file
  pc,          \* the next step of the transaction that holds b.mu
  tx,          \* its local variables
  faults, foreign,
  owed         \* history: hosts and state were left apart in a way the journal
               \* does not record (see DriftIsRecorded)

vars == <<desired, hosts, caddy, digest, trusted, state, journal, pc, tx, faults, foreign, owed>>

Nothing == [hosts |-> NoHosts, caddy |-> NoCaddy]
HostsBlocks == {d.hosts : d \in Desires} \cup {NoHosts}
Configs == {d.caddy : d \in Desires} \cup {NoCaddy}
Phases == {"planned", "hosts_applied", "caddy_applied", "ca_applied", "neutralized"}
States == [rev : Desires \cup {Nothing}, pending : BOOLEAN,
           status : {"unknown", "applied", "hosts_only", "error", "cleanup_pending", "quarantined"}]

\* The locals: the target, what was read before (the trust as the query told
\* it), the mutated flags, the outcome.  ca, caddy and touched are history: the
\* real trust and configuration at the start, and whether someone else
\* interfered since.
Locals(target, seen, confirmed) ==
  [target |-> target, before |-> state, hosts |-> hosts, running |-> caddy # NoCaddy,
   trusted |-> seen, confirmed |-> confirmed, mutated |-> {}, conflict |-> FALSE,
   failed |-> FALSE, ca |-> trusted, caddy |-> caddy, touched |-> FALSE]
NoTx == [target |-> Nothing, hosts |-> NoHosts, running |-> FALSE, trusted |-> FALSE,
         before |-> [rev |-> Nothing, pending |-> FALSE, status |-> "unknown"],
         confirmed |-> FALSE, mutated |-> {}, conflict |-> FALSE, failed |-> FALSE,
         ca |-> FALSE, caddy |-> NoCaddy, touched |-> FALSE]
Ends == pc' = "idle" /\ tx' = NoTx

Init ==
  /\ desired \in Desires /\ hosts = NoHosts /\ caddy = NoCaddy /\ digest = NoCaddy
  /\ trusted = FALSE /\ journal = "none" /\ pc = "idle"
  /\ state = [rev |-> Nothing, pending |-> FALSE, status |-> "unknown"]
  /\ tx = NoTx
  /\ faults = 0 /\ foreign = 0 /\ owed = FALSE

\* A call that fails uses up one of the faults.
Call(ok) == (ok \/ faults < MaxFaults) /\ faults' = faults + (IF ok THEN 0 ELSE 1)
GoesTo(next) == pc' = next
Mutates(part) == tx' = [tx EXCEPT !.mutated = @ \cup {part}]

-----------------------------------------------------------------------------
\* CommitRouteChange saves the Vault before it reconciles.
SavesDesired ==
  /\ pc = "idle" /\ desired' \in Desires \ {desired}
  /\ UNCHANGED <<hosts, caddy, digest, trusted, state, journal, pc, tx, faults, foreign, owed>>

\* A Caddy route needs a trusted CA, and trusting it the user's confirmation.
\* (A definition with no comment of its own is a mutation of the next one.)
Consents(confirmed) == desired.caddy # NoCaddy /\ ~trusted => confirmed

\* validatePendingJournalLocked: a journal of a known phase is no obstacle.
PendingAllowsNothing == journal = "none"
PendingAllows == journal \in Phases \cup {"none"}

\* applySystemLocked up to the planned journal.  A failing query of the trust
\* reads as "not trusted" once the preview is over.  The new journal replaces
\* the one of an interrupted transaction and its outcome a pending cleanup: the
\* record of what these had found is gone.
Begins(confirmed, seen) ==
  /\ pc = "idle" /\ PendingAllows /\ Consents(confirmed) /\ (seen => trusted) /\ Call(seen = trusted)
  /\ tx' = Locals(desired, seen, confirmed)
  /\ journal' = "planned" /\ owed' = (owed \/ journal # "none" \/ state.status = "cleanup_pending")
  /\ GoesTo("hosts")
  /\ UNCHANGED <<desired, hosts, caddy, digest, trusted, state, foreign>>

HelperIsMissing ==
  /\ pc = "hosts" /\ {tx.target.hosts, tx.hosts} # {NoHosts}
  /\ Call(FALSE) /\ GoesTo("undoCA")
  /\ UNCHANGED <<hosts, caddy, digest, trusted, state, journal, desired, tx, foreign, owed>>

HostsAreUnchanged ==
  /\ pc = "hosts" /\ tx.target.hosts = tx.hosts
  /\ GoesTo("hosts_applied")
  /\ UNCHANGED <<hosts, caddy, digest, trusted, state, journal, desired, tx, faults, foreign, owed>>

\* The helper replaces the block if it is still the one that was read; its
\* answer may be lost after the file was replaced.
AppliesHosts(ok) ==
  /\ pc = "hosts" /\ tx.target.hosts # tx.hosts
  /\ Mutates("hosts")
  /\ IF hosts = tx.hosts
     THEN /\ Call(ok) /\ GoesTo(IF ok THEN "hosts_applied" ELSE "undoCA")
          /\ hosts' \in {tx.target.hosts} \cup (IF ok THEN {} ELSE {hosts})
     ELSE ~ok /\ GoesTo("undoCA") /\ UNCHANGED <<hosts, faults>>
  /\ UNCHANGED <<caddy, digest, trusted, state, journal, desired, foreign, owed>>

\* advanceJournal: pc is the phase that is written.
AfterPhaseUntrusted(phase) ==
  IF phase = "hosts_applied"
  THEN IF tx.target.caddy # NoCaddy THEN "caddy" ELSE IF tx.running THEN "stop" ELSE "untrust"
  ELSE "commit"
AfterPhase(phase) ==
  CASE phase = "hosts_applied" -> IF tx.target.caddy # NoCaddy THEN "caddy"
                                  ELSE IF tx.running THEN "stop" ELSE "untrust"
    [] phase = "caddy_applied" -> "trust"
    [] OTHER -> "commit"
Advances(ok) ==
  /\ pc \in Phases /\ Call(ok)
  /\ journal' = IF ok THEN pc ELSE journal
  /\ GoesTo(IF ok THEN AfterPhase(pc) ELSE "undoCA")
  /\ UNCHANGED <<hosts, caddy, digest, trusted, state, desired, tx, foreign, owed>>

\* Adapter.Stop kills the process when it does not stop in time, and says so.
StopsCaddy(ok) ==
  /\ pc = "stop" /\ Call(ok) /\ Mutates("caddy")
  /\ caddy' = NoCaddy /\ digest' = NoCaddy
  /\ GoesTo(IF ok THEN "untrust" ELSE "undoCA")
  /\ UNCHANGED <<hosts, trusted, state, journal, desired, foreign, owed>>

UntrustsCA(ok) ==
  /\ pc = "untrust"
  /\ IF tx.trusted
     THEN /\ Call(ok) /\ Mutates("ca") /\ trusted' \in {FALSE} \cup (IF ok THEN {} ELSE {trusted})
     ELSE ok /\ UNCHANGED <<faults, tx, trusted>>
  /\ GoesTo(IF ok THEN "neutralized" ELSE "undoCA")
  /\ UNCHANGED <<hosts, caddy, digest, state, journal, desired, foreign, owed>>

\* Adapter.Apply.  It trusts lastDigest while its process runs.  A hot reload
\* that fails late leaves the new configuration loaded and lastDigest as it
\* was; purging stale certificates stops the process first, so that the start
\* may still meet an occupied port.
ApplyOutcomes(config) ==
  IF caddy # NoCaddy /\ digest = config
  THEN {[result |-> "applied", caddy |-> caddy, digest |-> digest]}
  ELSE {[result |-> "applied", caddy |-> config, digest |-> config]}
       \cup [result : {"conflict", "error"}, caddy : {NoCaddy}, digest : {NoCaddy}]
       \cup IF caddy = NoCaddy THEN {}
            ELSE [result : {"error"}, caddy : {caddy, config}, digest : {digest}]

Serves(o) == caddy' = o.caddy /\ digest' = o.digest

RedirectFails ==
  /\ pc = "caddy" /\ Call(FALSE) /\ Mutates("caddy") /\ GoesTo("undoCA")
  /\ UNCHANGED <<hosts, caddy, digest, trusted, state, journal, desired, foreign, owed>>

\* An occupied port is no error: the routes stay hosts-only.
AppliesCaddy(o) ==
  /\ pc = "caddy" /\ Call(o.result = "applied") /\ Serves(o)
  /\ tx' = [tx EXCEPT !.mutated = @ \cup {"caddy"}, !.conflict = o.result = "conflict"]
  /\ GoesTo(CASE o.result = "applied" -> "caddy_applied"
              [] o.result = "conflict" -> "commit"
              [] OTHER -> "undoCA")
  /\ UNCHANGED <<hosts, trusted, state, journal, desired, foreign, owed>>

TrustQueryFails ==
  /\ pc = "trust" /\ Call(FALSE) /\ GoesTo("undoCA")
  /\ UNCHANGED <<hosts, caddy, digest, trusted, state, journal, desired, tx, foreign, owed>>

TrustsCA(ok) ==
  /\ pc = "trust"
  /\ IF trusted
     THEN ok /\ UNCHANGED <<faults, tx, trusted>>
     ELSE /\ Call(ok) /\ Mutates("ca") /\ trusted' \in {TRUE} \cup (IF ok THEN {} ELSE {FALSE})
  /\ GoesTo(IF ok THEN "ca_applied" ELSE "undoCA")
  /\ UNCHANGED <<hosts, caddy, digest, state, journal, desired, foreign, owed>>

\* The deferred function of applySystemLocked after a success: the state first,
\* then the journal.
SavesState(ok) ==
  /\ pc = "commit" /\ Call(ok)
  /\ state' = IF ok THEN [rev |-> tx.target, pending |-> FALSE,
                          status |-> IF tx.conflict THEN "hosts_only" ELSE "applied"]
                    ELSE state
  /\ owed' = (owed /\ (tx.touched \/ ~ok))
  /\ GoesTo(IF ok THEN "clear" ELSE "undoCA")
  /\ UNCHANGED <<hosts, caddy, digest, trusted, journal, desired, tx, foreign>>

ClearsJournal(ok) ==
  /\ pc = "clear" /\ Call(ok)
  /\ journal' = IF ok THEN "none" ELSE journal
  /\ owed' = (owed \/ ~ok)
  /\ IF ok THEN Ends ELSE GoesTo("undoCA") /\ UNCHANGED tx
  /\ UNCHANGED <<hosts, caddy, digest, trusted, state, desired, foreign>>

-----------------------------------------------------------------------------
\* compensateRoute: every step is tried, failures are collected.
Compensates(ok) == Call(ok) /\ tx' = [tx EXCEPT !.failed = @ \/ ~ok]

UndoesNoTrust == FALSE
UndoesTrust == "ca" \in tx.mutated /\ ~tx.trusted
UndoCA(ok) ==
  /\ pc = "undoCA" /\ GoesTo("undoCaddy")
  /\ IF UndoesTrust
     THEN Compensates(ok) /\ trusted' \in {FALSE} \cup (IF ok THEN {} ELSE {trusted})
     ELSE ok /\ UNCHANGED <<faults, tx, trusted>>
  /\ UNCHANGED <<hosts, caddy, digest, state, journal, desired, foreign, owed>>

\* A Caddy that did not run before is stopped.  One that ran would be given its
\* configuration back from caddy.json in the data directory, but the adapter
\* writes caddy.json into its own runtime directory: the read finds no file, and
\* Caddy keeps what it serves.
StopsNewCaddy == "caddy" \in tx.mutated /\ ~tx.running
UndoCaddy(ok) ==
  /\ pc = "undoCaddy" /\ GoesTo("undoHosts")
  /\ IF StopsNewCaddy
     THEN Compensates(ok) /\ caddy' = NoCaddy /\ digest' = NoCaddy
     ELSE ok /\ UNCHANGED <<faults, tx, caddy, digest>>
  /\ UNCHANGED <<hosts, trusted, state, journal, desired, foreign, owed>>

\* The hosts go back without the precondition on what they are now.
UndoHosts(ok) ==
  /\ pc = "undoHosts" /\ GoesTo("redoCA")
  /\ IF "hosts" \in tx.mutated
     THEN Compensates(ok) /\ hosts' \in {tx.hosts} \cup (IF ok THEN {} ELSE {hosts})
     ELSE ok /\ UNCHANGED <<faults, tx, hosts>>
  /\ UNCHANGED <<caddy, digest, trusted, state, journal, desired, foreign, owed>>

RedoCA(ok) ==
  /\ pc = "redoCA" /\ GoesTo("undoClear")
  /\ IF "ca" \in tx.mutated /\ tx.trusted
     THEN Compensates(ok) /\ trusted' \in {TRUE} \cup (IF ok THEN {} ELSE {trusted})
     ELSE ok /\ UNCHANGED <<faults, tx, trusted>>
  /\ UNCHANGED <<hosts, caddy, digest, state, journal, desired, foreign, owed>>

\* A complete compensation clears the journal, an incomplete one keeps it.
KeepsNoJournal == FALSE
KeepsJournal == tx.failed
UndoClear(ok) ==
  /\ pc = "undoClear" /\ GoesTo("undoSave")
  /\ IF KeepsJournal
     THEN ok /\ UNCHANGED <<faults, tx, journal, owed>>
     ELSE /\ Compensates(ok)
          /\ journal' = IF ok THEN "none" ELSE journal
          /\ owed' = (owed \/ ~ok)
  /\ UNCHANGED <<hosts, caddy, digest, trusted, state, desired, foreign>>

UndoSave(ok) ==
  /\ pc = "undoSave" /\ Ends /\ Call(ok)
  /\ state' = IF ok THEN [tx.before EXCEPT !.status = "error", !.pending = tx.failed] ELSE state
  /\ UNCHANGED <<hosts, caddy, digest, trusted, journal, desired, foreign, owed>>

-----------------------------------------------------------------------------
\* NeutralizeRoutes, called by the restore of a backup, which keeps a journal of
\* its own: until the outcome is saved, that journal owes the repair.
NeutralFails == tx' = [tx EXCEPT !.failed = TRUE] /\ GoesTo("nSave")

NeutralizeBegins ==
  /\ pc = "idle" /\ tx' = Locals(Nothing, FALSE, FALSE) /\ GoesTo("nHosts") /\ owed' = TRUE
  /\ UNCHANGED <<hosts, caddy, digest, trusted, state, journal, desired, faults, foreign>>

NeutralHosts(ok) ==
  /\ pc = "nHosts"
  /\ IF hosts = NoHosts /\ state.rev.hosts = NoHosts
     THEN ok /\ UNCHANGED <<faults, hosts>>
     ELSE Call(ok) /\ hosts' \in {NoHosts} \cup (IF ok THEN {} ELSE {hosts})
  /\ IF ok THEN GoesTo("nCaddy") /\ UNCHANGED tx ELSE NeutralFails
  /\ UNCHANGED <<caddy, digest, trusted, state, journal, desired, foreign, owed>>

NeutralCaddy(ok) ==
  /\ pc = "nCaddy" /\ (caddy = NoCaddy => ok) /\ Call(ok)
  /\ caddy' = NoCaddy /\ digest' = NoCaddy
  /\ IF ok THEN GoesTo("nCA") /\ UNCHANGED tx ELSE NeutralFails
  /\ UNCHANGED <<hosts, trusted, state, journal, desired, foreign, owed>>

NeutralCA(ok) ==
  /\ pc = "nCA" /\ Call(ok) /\ trusted' \in {FALSE} \cup (IF ok THEN {} ELSE {trusted})
  /\ IF ok THEN GoesTo("nClear") /\ UNCHANGED tx ELSE NeutralFails
  /\ UNCHANGED <<hosts, caddy, digest, state, journal, desired, foreign, owed>>

NeutralClear(ok) ==
  /\ pc = "nClear" /\ Call(ok)
  /\ journal' = IF ok THEN "none" ELSE journal
  /\ IF ok THEN GoesTo("nSave") /\ UNCHANGED tx ELSE NeutralFails
  /\ UNCHANGED <<hosts, caddy, digest, trusted, state, desired, foreign, owed>>

NeutralState == IF tx.failed THEN [tx.before EXCEPT !.status = "cleanup_pending"]
                ELSE [rev |-> Nothing, pending |-> FALSE, status |-> "quarantined"]
NeutralSave(ok) ==
  /\ pc = "nSave" /\ Ends /\ Call(ok)
  /\ state' = IF ok THEN NeutralState ELSE state
  /\ owed' = (owed /\ (tx.touched \/ ~ok))
  /\ UNCHANGED <<hosts, caddy, digest, trusted, journal, desired, foreign>>

\* ResumeCaddy at the start of the application: no hosts, no new trust.
ResumeCaddy(o) ==
  /\ pc = "idle" /\ journal = "none" /\ desired.caddy # NoCaddy /\ caddy = NoCaddy
  /\ Call(o.result = "applied") /\ Serves(o)
  /\ UNCHANGED <<hosts, trusted, state, journal, desired, pc, tx, foreign, owed>>

-----------------------------------------------------------------------------
\* The rest of the world.
Foreign ==
  /\ foreign < MaxForeign /\ foreign' = foreign + 1
  /\ tx' = [tx EXCEPT !.touched = pc # "idle"]
  /\ UNCHANGED <<state, journal, desired, pc, faults>>

OthersEditHosts ==
  /\ Foreign /\ hosts' \in HostsBlocks \ {hosts} /\ owed' = TRUE
  /\ UNCHANGED <<caddy, digest, trusted>>
UserUntrusts ==
  Foreign /\ trusted /\ trusted' = FALSE /\ UNCHANGED <<hosts, caddy, digest, owed>>
CaddyDies ==
  /\ Foreign /\ caddy # NoCaddy /\ caddy' = NoCaddy /\ digest' = NoCaddy
  /\ UNCHANGED <<hosts, trusted, owed>>

\* The application ends anywhere: its Caddy is no longer owned by anybody.
Crash ==
  /\ Call(FALSE) /\ Ends /\ caddy' = NoCaddy /\ digest' = NoCaddy
  /\ UNCHANGED <<hosts, trusted, state, journal, desired, foreign, owed>>

Steps(ok) ==
  \/ AppliesHosts(ok) \/ Advances(ok) \/ StopsCaddy(ok) \/ UntrustsCA(ok) \/ TrustsCA(ok)
  \/ SavesState(ok) \/ ClearsJournal(ok)
  \/ UndoCA(ok) \/ UndoCaddy(ok) \/ UndoHosts(ok) \/ RedoCA(ok) \/ UndoClear(ok) \/ UndoSave(ok)
  \/ NeutralHosts(ok) \/ NeutralCaddy(ok) \/ NeutralCA(ok) \/ NeutralClear(ok) \/ NeutralSave(ok)

Transaction ==
  \/ \E ok \in BOOLEAN : Steps(ok)
  \/ HelperIsMissing \/ HostsAreUnchanged \/ RedirectFails \/ TrustQueryFails
  \/ \E o \in ApplyOutcomes(tx.target.caddy) : AppliesCaddy(o)

Next ==
  \/ Transaction
  \/ SavesDesired \/ NeutralizeBegins
  \/ \E confirmed, seen \in BOOLEAN : Begins(confirmed, seen)
  \/ \E o \in ApplyOutcomes(desired.caddy) : ResumeCaddy(o)
  \/ OthersEditHosts \/ UserUntrusts \/ CaddyDies \/ Crash

Spec == Init /\ [][Next]_vars

\* A transaction runs to its end, and its user retries, confirming the CA.
FairSpec ==
  Spec /\ WF_vars(Transaction) /\ WF_vars(\E seen \in BOOLEAN : Begins(TRUE, seen))

-----------------------------------------------------------------------------
Pcs == {"idle", "hosts", "caddy", "trust", "stop", "untrust", "commit", "clear",
        "undoCA", "undoCaddy", "undoHosts", "redoCA", "undoClear", "undoSave",
        "nHosts", "nCaddy", "nCA", "nClear", "nSave"} \cup (Phases \ {"planned"})

\* Between transactions, a hosts file that differs from the recorded state is
\* announced by the journal or by cleanup_pending, whatever failed or crashed.
\* The exceptions are owed: a retry after a crash or a failed cleanup, a
\* journal that could not be removed, a neutralization its caller still owes,
\* an edit by others.
DriftIsRecorded ==
  pc = "idle" /\ hosts # state.rev.hosts =>
    journal # "none" \/ state.status = "cleanup_pending" \/ owed

\* A compensation that reports no failure has put hosts and trust back and left
\* no Caddy running that did not run before.
RollbackIsComplete ==
  pc = "undoClear" /\ ~tx.failed /\ ~tx.touched =>
    hosts = tx.hosts /\ trusted = tx.ca /\ (~tx.running => caddy = NoCaddy)

\* What is recorded as applied is in effect: the hosts, a Caddy if and only if
\* one is wanted, and for it a trusted CA.
CommitIsTrue ==
  [][pc = "commit" /\ state' # state /\ ~tx.touched =>
       /\ hosts = state'.rev.hosts
       /\ state'.status = "applied" =>
            /\ (caddy = NoCaddy) = (state'.rev.caddy = NoCaddy)
            /\ caddy # NoCaddy => trusted]_vars

\* The quarantined state is saved only in a neutral system.
QuarantineIsNeutral ==
  [][state' # state /\ state'.status = "quarantined" /\ ~tx.touched =>
       hosts = NoHosts /\ caddy = NoCaddy /\ ~trusted /\ journal = "none"]_vars

\* What is recorded in route-state.json is what is in effect, at a commit and at
\* the quarantine of a restore.
RecordIsTrue == CommitIsTrue /\ QuarantineIsNeutral

\* Once failures stop, the user's retries clear a pending journal.
JournalIsCleared == journal # "none" ~> journal = "none"

\* 2026-07-21-mvp-remediation-decision-log.md:1684 promises that a failing step
\* is compensated back to beforeApplied; for a Caddy that was running this means
\* its configuration.
RollbackRestoresCaddy ==
  pc = "undoClear" /\ ~tx.failed /\ ~tx.touched => caddy = tx.caddy

=============================================================================
