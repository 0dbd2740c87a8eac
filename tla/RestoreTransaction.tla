-------------------------- MODULE RestoreTransaction --------------------------
\* The full restore of a backup: RestoreCoordinator (internal/biz/
\* backup_restore.go) orders the steps, RestoreEffectsAdapter (internal/
\* application/restore.go) takes, compensates and recovers them, and
\* application.Service gates the network meanwhile.  The Vault is replaced only
\* after the forwards were suspended and the routes neutralized, and a restored
\* Vault stays in quarantine until the user activates its network.  Service
\* holds its mutation lock during a restore and an activation; forwards end and
\* the application dies whenever they like.
\*
\* RuntimeBiz and RouterBiz appear by what they promise: see ForwardRuntime and
\* RouteTransaction.  A definition with no comment of its own is a mutation of
\* the next one.
EXTENDS Naturals

CONSTANTS
  Forwards,
  CaddyVaults,  \* the catalogs with a Caddy route, which needs a trusted CA
  MaxVault,     \* bound: no restore and no edit begins after that many writes
  MaxFaults     \* bound: failing calls and crashes

ASSUME BoundsAssumption == MaxVault \in Nat /\ MaxFaults \in Nat
ASSUME CaddyAssumption == CaddyVaults \subseteq Nat

VARIABLES
  vault,       \* vault.dat: its storage revision, which every write changes, and the
               \* revision of its catalog, which preferences are no part of
  running,     \* the forwards RuntimeBiz runs; a stopping one counts as stopped
  routes,      \* whether the routes of a Vault are in effect
  trusted,     \* the local CA is trusted
  journal,     \* restore-journal.json
  quarantine,  \* restore-state.json
  pc, tx,      \* the operation that holds the mutation lock, its locals
  faults,
  restored,    \* history: the Vault came from a backup, its network was not activated
  attempted,   \* history: an activation of it was begun
  suspended,   \* history: forwards the last restore stopped and nobody restarted
  routesBefore,\* history: routes when it began
  meddled      \* history: a restore came over a pending journal or a quarantine, or
               \* an edit over the journal of a Vault not yet replaced

vars == <<vault, running, routes, trusted, journal, quarantine, pc, tx, faults,
          restored, attempted, suspended, routesBefore, meddled>>
network == <<running, routes, trusted>>
durable == <<vault, journal, quarantine, restored>>
history == <<attempted, suspended, routesBefore, meddled>>

PhaseOrder ==
  [none |-> 0, planned |-> 1, candidate_prepared |-> 2, runtime_suspending |-> 3,
   runtime_suspended |-> 4, routes_neutralized |-> 5, replacing_vault |-> 6,
   vault_replaced |-> 7, quarantined |-> 8]
FirstVault == [storage |-> 0, catalog |-> 0]
NoJournal == [phase |-> "none", before |-> FirstVault, captured |-> {}]
Pending == journal # NoJournal
AtLeast(phase) == PhaseOrder[journal.phase] >= PhaseOrder[phase]

\* The journal a restore writes next, e.plans, the compensation flags, and the
\* forward a recovery has to checkpoint.
NoTx == [before |-> FirstVault, captured |-> {}, plan |-> {}, candidate |-> FALSE,
         neutralized |-> FALSE, replaced |-> FALSE, failed |-> FALSE, started |-> {}]

\* What a neutralization that failed leaves is "partial".
RoutesStates == {"applied", "neutral", "partial"}

Init ==
  /\ vault = FirstVault /\ running \in SUBSET Forwards /\ routes \in {"applied", "neutral"}
  /\ trusted = (routes = "applied" /\ vault.catalog \in CaddyVaults)
  /\ journal = NoJournal /\ quarantine = FALSE /\ pc = "idle" /\ tx = NoTx /\ faults = 0
  /\ restored = FALSE /\ attempted = FALSE /\ suspended = {} /\ routesBefore = routes
  /\ meddled = FALSE

Call(ok) == (ok \/ faults < MaxFaults) /\ faults' = faults + (IF ok THEN 0 ELSE 1)
Written(catalogToo) ==
  [storage |-> vault.storage + 1, catalog |-> vault.catalog + (IF catalogToo THEN 1 ELSE 0)]

GoesTo(next) == pc' = next
Ends == pc' = "idle" /\ tx' = NoTx

\* RouterBiz.NeutralizeRoutes: neutral, or failed at any of its parts.
Neutralizes(ok) ==
  /\ Call(ok)
  /\ routes' \in IF ok THEN {"neutral"} ELSE {routes, "partial"}
  /\ trusted' \in {FALSE} \cup (IF ok THEN {} ELSE {trusted})

\* RouterBiz.ReconcileRoutes: a CA that is not trusted needs the fingerprint the
\* user confirmed; ReconcileRoutes without one is refused.  Where no route needs
\* the CA, its trust is withdrawn.  What fails is compensated, see
\* RouteTransaction.
NeedsConsent == vault.catalog \in CaddyVaults /\ ~trusted
Reconciles(ok, confirmed) ==
  /\ IF NeedsConsent /\ ~confirmed THEN ~ok /\ UNCHANGED faults ELSE Call(ok)
  /\ routes' = IF ok THEN "applied" ELSE routes
  /\ trusted' = IF ok THEN vault.catalog \in CaddyVaults ELSE trusted

-----------------------------------------------------------------------------
\* Service.CommitRestore up to the planned journal.  It is not gated: it may
\* come over the pending journal of an earlier restore and over a quarantine.
RestoreBegins ==
  /\ pc = "idle" /\ vault.storage < MaxVault
  /\ tx' = [NoTx EXCEPT !.before = vault, !.captured = running]
  /\ journal' = [phase |-> "planned", before |-> vault, captured |-> running]
  /\ GoesTo("prepare") /\ suspended' = {} /\ routesBefore' = routes
  /\ meddled' = (meddled \/ Pending \/ quarantine)
  /\ UNCHANGED <<vault, quarantine, restored, network, faults, attempted>>

\* What follows the journal phase that pc names.
AfterPhase ==
  [candidate_prepared |-> "runtime_suspending", runtime_suspending |-> "suspend",
   runtime_suspended |-> "neutralize", routes_neutralized |-> "replacing_vault",
   replacing_vault |-> "replace", vault_replaced |-> "quarantine", quarantined |-> "commit"]

\* A failure before the replacement is compensated, one after it leaves the
\* journal to the next start.
FailsAndUndoes == GoesTo("undoRoutes") /\ UNCHANGED tx
Fails == IF tx.replaced THEN Ends ELSE GoesTo("undoRoutes") /\ UNCHANGED tx

WritesJournal(ok) ==
  /\ pc \in DOMAIN AfterPhase /\ Call(ok)
  /\ IF ok
     THEN /\ journal' = [phase |-> pc, before |-> tx.before, captured |-> tx.captured]
          /\ GoesTo(AfterPhase[pc]) /\ UNCHANGED tx
     ELSE Fails /\ UNCHANGED journal
  /\ UNCHANGED <<vault, quarantine, restored, network, history>>

PreparesCandidate(ok) ==
  /\ pc = "prepare" /\ Call(ok)
  /\ tx' = [tx EXCEPT !.candidate = ok]
  /\ GoesTo(IF ok THEN "candidate_prepared" ELSE "undoRoutes")
  /\ UNCHANGED <<network, durable, history>>

\* SuspendAll stops what runs; past its deadline it fails, the rest goes on
\* stopping.  The plan names them all.
Suspends(ok) ==
  /\ pc = "suspend" /\ Call(ok) /\ running' = {} /\ suspended' = suspended \cup running
  /\ tx' = [tx EXCEPT !.plan = running, !.captured = IF ok THEN running ELSE @]
  /\ GoesTo(IF ok THEN "runtime_suspended" ELSE "undoRoutes")
  /\ UNCHANGED <<routes, trusted, durable, attempted, routesBefore, meddled>>

NeutralizesRoutes(ok) ==
  /\ pc = "neutralize" /\ Neutralizes(ok)
  /\ tx' = [tx EXCEPT !.neutralized = ok]
  /\ GoesTo(IF ok THEN "routes_neutralized" ELSE "undoRoutes")
  /\ UNCHANGED <<running, durable, history>>

ReplacesVault(ok) ==
  /\ pc = "replace" /\ Call(ok)
  /\ vault' = IF ok THEN Written(TRUE) ELSE vault
  /\ tx' = [tx EXCEPT !.replaced = ok]
  /\ restored' = (restored \/ ok) /\ attempted' = (attempted /\ ~ok)
  /\ GoesTo(IF ok THEN "vault_replaced" ELSE "undoRoutes")
  /\ UNCHANGED <<network, journal, quarantine, suspended, routesBefore, meddled>>

QuarantinesNothing(ok) == UNCHANGED quarantine
Quarantines(ok) == quarantine' = (quarantine \/ ok)

EntersQuarantine(ok) ==
  /\ pc = "quarantine" /\ Call(ok) /\ Quarantines(ok)
  /\ IF ok THEN GoesTo("quarantined") /\ UNCHANGED tx ELSE Ends
  /\ UNCHANGED <<network, vault, journal, restored, history>>

CommitsJournal(ok) ==
  /\ pc = "commit" /\ Call(ok) /\ Ends
  /\ journal' = IF ok THEN NoJournal ELSE journal
  /\ UNCHANGED <<network, vault, quarantine, restored, history>>

-----------------------------------------------------------------------------
\* RestoreEffectsAdapter.Compensate: every step is tried, the journal goes only
\* if all succeeded.
Tries(ok) == tx' = [tx EXCEPT !.failed = @ \/ ~ok]

UndoRoutes(ok) ==
  /\ pc = "undoRoutes" /\ GoesTo("undoRuntime")
  /\ IF tx.neutralized
     THEN Reconciles(ok, FALSE) /\ Tries(ok)
     ELSE ok /\ UNCHANGED <<routes, trusted, faults, tx>>
  /\ UNCHANGED <<running, durable, history>>

UndoRuntime(ok) ==
  /\ pc = "undoRuntime" /\ GoesTo("undoCandidate")
  /\ Call(ok) /\ Tries(ok)
  /\ \E back \in SUBSET tx.plan :
       /\ (back = tx.plan) = ok
       /\ running' = running \cup back /\ suspended' = suspended \ back
  /\ UNCHANGED <<routes, trusted, durable, attempted, routesBefore, meddled>>

UndoCandidate(ok) ==
  /\ pc = "undoCandidate" /\ GoesTo("undoJournal")
  /\ IF tx.candidate THEN Call(ok) /\ Tries(ok) ELSE ok /\ UNCHANGED <<faults, tx>>
  /\ UNCHANGED <<network, durable, history>>

KeepsNoJournal == FALSE
KeepsJournal == tx.failed
UndoJournal(ok) ==
  /\ pc = "undoJournal" /\ Ends /\ Call(ok) /\ (KeepsJournal => ok)
  /\ journal' = IF ok /\ ~KeepsJournal THEN NoJournal ELSE journal
  /\ UNCHANGED <<network, vault, quarantine, restored, history>>

-----------------------------------------------------------------------------
\* The application dies, or its user restarts it; app.startup recovers first.
Boots == pc' = "boot" /\ tx' = NoTx /\ running' = {}
Crash == Call(FALSE) /\ Boots /\ UNCHANGED <<routes, trusted, durable, history>>
Restart == pc = "idle" /\ Boots /\ UNCHANGED <<routes, trusted, durable, faults, history>>

\* RecoverPending.  In replacing_vault only the Vault itself tells whether the
\* rename happened.
ReplacedByPhase == AtLeast("vault_replaced")
Replaced ==
  AtLeast("vault_replaced") \/ (journal.phase = "replacing_vault" /\ vault # journal.before)

BootWithJournal ==
  /\ pc = "boot" /\ Pending
  /\ GoesTo(IF Replaced THEN "rNeutralize"
            ELSE IF vault.catalog # journal.before.catalog THEN "idle"   \* ambiguous
            ELSE IF AtLeast("runtime_suspending") THEN "rRoutes"
            ELSE "rClear")
  /\ UNCHANGED <<network, durable, tx, faults, history>>

\* convergePersistedQuarantine: an activation may have been interrupted.
BootWithoutJournal(ok) ==
  /\ pc = "boot" /\ ~Pending /\ GoesTo("idle")
  /\ IF quarantine /\ routes # "neutral"
     THEN Neutralizes(ok)
     ELSE ok /\ UNCHANGED <<routes, trusted, faults>>
  /\ UNCHANGED <<running, durable, tx, history>>

RecoverNeutralizes(ok) ==
  /\ pc = "rNeutralize" /\ Neutralizes(ok) /\ GoesTo(IF ok THEN "rQuarantine" ELSE "idle")
  /\ UNCHANGED <<running, durable, tx, history>>

RecoverQuarantines(ok) ==
  /\ pc = "rQuarantine" /\ Call(ok) /\ GoesTo(IF ok THEN "rCommit" ELSE "idle")
  /\ Quarantines(ok)
  /\ UNCHANGED <<network, vault, journal, restored, tx, history>>

RecoverRoutes(ok) ==
  /\ pc = "rRoutes" /\ Reconciles(ok, FALSE) /\ GoesTo(IF ok THEN "rForwards" ELSE "idle")
  /\ UNCHANGED <<running, durable, tx, history>>

\* resumeJournalForwards: every start is checkpointed in the journal.
RecoverForward(f, ok) ==
  /\ pc = "rForwards" /\ tx.started = {} /\ f \in journal.captured /\ Call(ok)
  /\ running' = IF ok THEN running \cup {f} ELSE running
  /\ suspended' = IF ok THEN suspended \ {f} ELSE suspended
  /\ IF ok THEN tx' = [tx EXCEPT !.started = {f}] /\ UNCHANGED pc ELSE Ends
  /\ UNCHANGED <<routes, trusted, durable, attempted, routesBefore, meddled>>

RecoverCheckpoint(ok) ==
  /\ pc = "rForwards" /\ tx.started # {} /\ Call(ok)
  /\ journal' = IF ok THEN [journal EXCEPT !.captured = @ \ tx.started] ELSE journal
  /\ tx' = NoTx /\ GoesTo(IF ok THEN "rForwards" ELSE "idle")
  /\ UNCHANGED <<network, vault, quarantine, restored, history>>

RecoverForwardsDone ==
  /\ pc = "rForwards" /\ tx.started = {} /\ journal.captured = {} /\ GoesTo("rClear")
  /\ UNCHANGED <<network, durable, tx, faults, history>>

\* With discardJournalCandidate, here before and after a replacement later.
RecoverClearsQuarantine(ok) ==
  /\ pc = "rClear" /\ Call(ok) /\ GoesTo(IF ok THEN "rCommit" ELSE "idle")
  /\ quarantine' = (quarantine /\ ~ok)
  /\ UNCHANGED <<network, vault, journal, restored, tx, history>>

RecoverCommits(ok) ==
  /\ pc = "rCommit" /\ Call(ok) /\ GoesTo("idle")
  /\ journal' = IF ok THEN NoJournal ELSE journal
  /\ UNCHANGED <<network, vault, quarantine, restored, tx, history>>

-----------------------------------------------------------------------------
\* Service.ActivateRestoredNetwork, with the fingerprint the user confirmed.
\* What it undoes after a failure it does not check.
ActivationBegins ==
  /\ pc = "idle" /\ quarantine /\ ~Pending
  /\ GoesTo("aRoutes") /\ attempted' = TRUE
  /\ UNCHANGED <<network, durable, tx, faults, suspended, routesBefore, meddled>>

ActivatesRoutes(ok) ==
  /\ pc = "aRoutes" /\ Reconciles(ok, TRUE)
  /\ GoesTo(IF ok THEN "aForwards" ELSE "aUndoRoutes")
  /\ UNCHANGED <<running, durable, tx, history>>

ActivatesForwards(ok) ==
  /\ pc = "aForwards" /\ Call(ok)
  /\ \E started \in SUBSET Forwards : (ok \/ started # Forwards) /\ running' = running \cup started
  /\ GoesTo(IF ok THEN "aClear" ELSE "aSuspend")
  /\ UNCHANGED <<routes, trusted, durable, tx, history>>

ClearsQuarantine(ok) ==
  /\ pc = "aClear" /\ Call(ok) /\ quarantine' = ~ok /\ restored' = (restored /\ ~ok)
  /\ GoesTo(IF ok THEN "idle" ELSE "aSuspend")
  /\ UNCHANGED <<network, vault, journal, tx, history>>

ActivationSuspends ==
  /\ pc = "aSuspend" /\ running' = {} /\ GoesTo("aUndoRoutes")
  /\ UNCHANGED <<routes, trusted, durable, tx, faults, history>>

ActivationNeutralizes(ok) ==
  /\ pc = "aUndoRoutes" /\ Neutralizes(ok) /\ GoesTo("idle")
  /\ UNCHANGED <<running, durable, tx, history>>

-----------------------------------------------------------------------------
\* The user, whom ensureNetworkAllowedLocked keeps from starting anything while
\* a journal is pending or the Vault is in quarantine.  Some edits are not gated,
\* and neither a Stop nor the edits of preferences and host keys wait for the
\* mutation lock.
NetworkAllowed == ~Pending /\ ~quarantine

ForwardStarts(f) ==
  /\ pc = "idle" /\ NetworkAllowed /\ running' = running \cup {f}
  /\ UNCHANGED <<routes, trusted, durable, pc, tx, faults, history>>

ForwardStops(f) ==
  /\ f \in running /\ running' = running \ {f}
  /\ UNCHANGED <<routes, trusted, durable, pc, tx, faults, history>>

UserReconciles(ok) ==
  /\ pc = "idle" /\ NetworkAllowed /\ Reconciles(ok, TRUE)
  /\ UNCHANGED <<running, durable, pc, tx, history>>

UserEdits(catalogToo) ==
  /\ vault.storage < MaxVault /\ vault' = Written(catalogToo)
  /\ meddled' = (meddled \/ (Pending /\ ~restored))
  /\ UNCHANGED <<network, journal, quarantine, restored, pc, tx, faults, attempted,
                 suspended, routesBefore>>

-----------------------------------------------------------------------------
CommitRestoreStep(ok) ==
  \/ PreparesCandidate(ok) \/ WritesJournal(ok) \/ Suspends(ok) \/ NeutralizesRoutes(ok)
  \/ ReplacesVault(ok) \/ EntersQuarantine(ok) \/ CommitsJournal(ok)
  \/ UndoRoutes(ok) \/ UndoRuntime(ok) \/ UndoCandidate(ok) \/ UndoJournal(ok)

RecoveryStep(ok) ==
  \/ BootWithJournal \/ BootWithoutJournal(ok)
  \/ RecoverNeutralizes(ok) \/ RecoverQuarantines(ok) \/ RecoverRoutes(ok)
  \/ (\E f \in Forwards : RecoverForward(f, ok)) \/ RecoverCheckpoint(ok)
  \/ RecoverForwardsDone \/ RecoverClearsQuarantine(ok) \/ RecoverCommits(ok)

ActivationStep(ok) ==
  \/ ActivatesRoutes(ok) \/ ActivatesForwards(ok) \/ ClearsQuarantine(ok)
  \/ ActivationSuspends \/ ActivationNeutralizes(ok)

SystemStep ==
  \E ok \in BOOLEAN : CommitRestoreStep(ok) \/ RecoveryStep(ok) \/ ActivationStep(ok)

UserStep ==
  \/ RestoreBegins \/ ActivationBegins \/ (\E catalogToo \in BOOLEAN : UserEdits(catalogToo)) \/ Restart
  \/ \E ok \in BOOLEAN : UserReconciles(ok)
  \/ \E f \in Forwards : ForwardStarts(f) \/ ForwardStops(f)

Next == SystemStep \/ UserStep \/ Crash
Spec == Init /\ [][Next]_vars

\* Every call returns, and a user whose network stays blocked by a pending
\* journal restarts the application sooner or later.
FairSpec == Spec /\ WF_vars(SystemStep) /\ WF_vars(Pending /\ Restart)

-----------------------------------------------------------------------------
VaultStates == [storage : 0..MaxVault + 1, catalog : 0..MaxVault + 1]
JournalPhases == (DOMAIN PhaseOrder) \ {"none"}
TypeOK ==
  /\ vault \in VaultStates /\ running \subseteq Forwards /\ suspended \subseteq Forwards
  /\ {routes, routesBefore} \subseteq RoutesStates
  /\ {trusted, quarantine, restored, attempted, meddled} \subseteq BOOLEAN
  /\ Pending => journal \in [phase : JournalPhases, before : VaultStates, captured : SUBSET Forwards]
  /\ tx.plan \cup tx.captured \cup tx.started \subseteq Forwards
  /\ pc = "idle" => tx = NoTx
  /\ faults \in 0..MaxFaults

\* A restored Vault touches no network before an activation is begun: whatever
\* failed or crashed since the replacement, no forward runs and no route is in
\* effect, of the old Vault or the new (backup_restore.go:240, restore.go:214).
NewVaultStaysQuiet == restored /\ ~attempted /\ ~meddled => running = {} /\ routes # "applied"

\* Until its network is activated, a restored Vault is in quarantine or a
\* journal is there to put it into one, at every instant between two writes.
NewVaultIsGuarded == restored /\ ~meddled => quarantine \/ Pending

\* The journal of a restore that did not replace the Vault is consumed only when
\* every forward the restore stopped runs again, and the routes it neutralized
\* are back (restore.go:203), whatever it came over.  Routes that a failing
\* neutralization left partial are not: Compensate reconciles only after a complete
\* one.
AbortRestoresAll ==
  [][Pending /\ journal' = NoJournal /\ vault = journal.before =>
       suspended' = {} /\ (routesBefore = "applied" => routes' # "neutral")]_vars

\* A pending journal is recovered, possibly by a restart, unless somebody meddled
\* or the routes of the old Vault need a CA that the neutralization removed:
\* RecoverPending has no fingerprint to confirm.
PendingIsRecovered == Pending ~> (~Pending \/ meddled \/ (NeedsConsent /\ ~restored))

\* ActivateRestoredNetwork is the only way out of a quarantine (service.go:1579).
\* It is not: a second restore that is interrupted before it replaced the Vault
\* clears the quarantine of the first when the application starts again.
OnlyActivationLifts == [][quarantine /\ ~quarantine' => pc = "aClear"]_vars

-----------------------------------------------------------------------------
\* The strengthening that makes TypeOK and the first two invariants inductive.
RestoringPcs == {"prepare", "candidate_prepared", "runtime_suspending", "suspend",
  "runtime_suspended", "neutralize", "routes_neutralized", "replacing_vault", "replace"}
UndoingPcs == {"undoRoutes", "undoRuntime", "undoCandidate", "undoJournal"}
ReplacedPcs == {"vault_replaced", "quarantine", "quarantined", "commit"}
RevivingPcs == {"rRoutes", "rForwards", "rClear"}
RecoveringPcs == {"boot", "rNeutralize", "rQuarantine", "rCommit"} \cup RevivingPcs
ActivatingPcs == {"aRoutes", "aForwards", "aClear", "aSuspend", "aUndoRoutes"}
Pcs == {"idle"} \cup RestoringPcs \cup UndoingPcs \cup ReplacedPcs \cup RecoveringPcs \cup ActivatingPcs

Revisions == [storage : Nat, catalog : Nat]
Journals == [phase : DOMAIN PhaseOrder, before : Revisions, captured : SUBSET Forwards]
Locals == [before : Revisions, captured : SUBSET Forwards, plan : SUBSET Forwards,
           candidate : BOOLEAN, neutralized : BOOLEAN, replaced : BOOLEAN, failed : BOOLEAN,
           started : SUBSET Forwards]
LocalsKnown ==
  /\ pc \in Pcs /\ tx \in Locals
  /\ pc \in {"idle"} \cup (RecoveringPcs \ {"rForwards"}) \cup ActivatingPcs => tx = NoTx
  /\ pc = "rForwards" => tx = [NoTx EXCEPT !.started = tx.started]
  /\ pc \in RestoringPcs => ~tx.replaced
  /\ pc \in ReplacedPcs => tx.replaced

\* Every write moves the storage revision on, and a journal remembers an earlier one.
RevisionsGrow ==
  /\ vault \in Revisions /\ vault.catalog <= vault.storage
  /\ journal \in Journals /\ journal.before \in VaultStates /\ tx.before \in VaultStates
  /\ journal.before.storage <= vault.storage /\ tx.before.storage <= vault.storage
  /\ pc \in RestoringPcs => vault.storage <= MaxVault

\* Whoever may bring old network effects back does it over the old Vault, and a
\* restored one is told by its journal.
ReplacementIsSeen ==
  /\ pc \in RestoringPcs \cup UndoingPcs \cup RevivingPcs /\ ~meddled => ~restored
  /\ pc = "replace" => journal.phase = "replacing_vault"
  /\ restored /\ Pending /\ ~meddled =>
       \/ AtLeast("vault_replaced")
       \/ journal.phase = "replacing_vault" /\ journal.before.storage < vault.storage
  /\ pc \in {"quarantined", "commit"} => quarantine
  /\ pc = "rCommit" /\ restored /\ ~meddled => quarantine

\* The effects are off before the Vault is replaced, and come back by activation.
EffectsAreOff ==
  /\ pc \in {"runtime_suspended", "neutralize", "routes_neutralized", "replacing_vault", "replace"}
       => running = {}
  /\ pc \in {"routes_neutralized", "replacing_vault", "replace"} => routes = "neutral"
  /\ pc \in ActivatingPcs => attempted

IInv ==
  /\ TypeOK
  /\ LocalsKnown
  /\ RevisionsGrow
  /\ ReplacementIsSeen
  /\ EffectsAreOff
  /\ NewVaultStaysQuiet
  /\ NewVaultIsGuarded

\* The strengthening for AbortRestoresAll: who still knows what the restore took
\* from the network, at every instant at which it may fail or crash.
RoutesAreBack == routesBefore = "applied" => routes # "neutral"
EarlyPcs == {"prepare", "candidate_prepared", "runtime_suspending", "suspend"}

\* The plan names what was stopped until it is restarted, and so does what the
\* journal is told next.
PlanIsKnown ==
  /\ pc \in EarlyPcs => suspended = {} /\ running \subseteq journal.captured \cap tx.captured
  /\ pc \in RestoringPcs \cup {"undoRoutes", "undoRuntime"} => suspended \subseteq tx.plan
  /\ pc \in RestoringPcs \cup ReplacedPcs => suspended \subseteq tx.captured
  /\ pc \in {"undoCandidate", "undoJournal"} /\ ~tx.failed => suspended = {}

\* Routes that are neutral were neutralized by a call that succeeded.
RoutesAreKnown ==
  /\ pc \in EarlyPcs \cup {"runtime_suspended", "neutralize"} => ~tx.neutralized
  /\ pc \in RestoringPcs \cup {"undoRoutes"} /\ ~tx.neutralized => RoutesAreBack
  /\ pc \in {"undoRuntime", "undoCandidate", "undoJournal"} /\ ~tx.failed => RoutesAreBack

\* The journal is ahead of every effect, and tells a replaced Vault.
JournalIsAhead ==
  /\ journal.phase \in {"planned", "candidate_prepared"} => suspended = {} /\ RoutesAreBack
  /\ pc = "suspend" => journal.phase = "runtime_suspending"
  /\ pc = "neutralize" => journal.phase = "runtime_suspended"
  /\ pc \in ActivatingPcs => ~Pending
  /\ Pending => suspended \subseteq journal.captured
  /\ pc \in ReplacedPcs =>
       tx.before.storage < vault.storage /\ journal.before.storage < vault.storage
  /\ AtLeast("vault_replaced") => journal.before.storage < vault.storage

\* A recovery of the old Vault commits when nothing is left to bring back.
RecoveryIsComplete ==
  /\ pc \in {"rNeutralize", "rQuarantine"} =>
       vault # journal.before /\ journal.phase \notin {"planned", "candidate_prepared"}
  /\ pc \in {"rRoutes", "rForwards"} => Pending
  /\ pc = "rForwards" => routes = "applied" /\ suspended \cap tx.started = {}
  /\ pc = "rClear" => suspended = {} /\ RoutesAreBack
  /\ pc = "rCommit" => vault # journal.before \/ (suspended = {} /\ RoutesAreBack)

AbortInv == PlanIsKnown /\ RoutesAreKnown /\ JournalIsAhead /\ RecoveryIsComplete
=============================================================================
