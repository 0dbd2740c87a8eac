---------------------- MODULE RestoreTransactionProofs ----------------------
\* Safety of the restore for every set of forwards, every choice of the Vaults
\* that have a Caddy route, and every bound on writes and faults: a restored Vault
\* is guarded and quiet until its activation is begun (IInv), and a restore that is
\* given up gives everything back (AbortInv, on top of it).  A lemma per conjunct,
\* with a case per action or per group of actions that cannot disturb it.
EXTENDS RestoreTransaction, TLAPS

\* Updates of the sets among the locals keep their type.
LEMMA SetUpdates ==
  ASSUME NEW t \in Locals, NEW S \in SUBSET Forwards, NEW T \in SUBSET Forwards
  PROVE  /\ [t EXCEPT !.plan = S, !.captured = T] \in Locals
         /\ [t EXCEPT !.plan = S, !.captured = T].replaced = t.replaced
         /\ [t EXCEPT !.started = S] \in Locals /\ [t EXCEPT !.started = S].started = S
  BY DEF Locals

\* The locals between two operations.
LEMMA NoTxFacts ==
  /\ NoTx \in Locals /\ NoTx.started = {} /\ ~NoTx.replaced /\ NoTx.before = FirstVault
  /\ [NoTx EXCEPT !.started = {}] = NoTx
  BY DEF NoTx, Locals, Revisions, FirstVault

\* The control point and the locals that go with it.
LEMMA LocalsStep == IInv /\ [Next]_vars => LocalsKnown'
  <1>. SUFFICES ASSUME IInv, [Next]_vars PROVE LocalsKnown'
    OBVIOUS
  <1>. USE DEF Pcs, RestoringPcs, UndoingPcs, ReplacedPcs, RevivingPcs, RecoveringPcs,
         ActivatingPcs, GoesTo, Ends
  <1>1. ASSUME NEW ok \in BOOLEAN, CommitRestoreStep(ok) PROVE LocalsKnown'
    <2>1. CASE PreparesCandidate(ok)
      <3>1. tx' \in Locals /\ tx'.replaced = tx.replaced
        BY <2>1 DEF IInv, LocalsKnown, PreparesCandidate, Locals
      <3>. QED
        BY <2>1, <3>1 DEF IInv, LocalsKnown, PreparesCandidate
    <2>2. CASE WritesJournal(ok)
      <3>1. CASE pc \in ReplacedPcs
        BY <2>2, <3>1, NoTxFacts DEF IInv, LocalsKnown, WritesJournal, AfterPhase, Fails
      <3>2. CASE pc \in RestoringPcs
        BY <2>2, <3>2 DEF IInv, LocalsKnown, WritesJournal, AfterPhase, Fails
      <3>. QED
        BY <2>2, <3>1, <3>2 DEF WritesJournal, AfterPhase
    <2>3. CASE Suspends(ok)
      <3>1. tx' \in Locals /\ tx'.replaced = tx.replaced
        <4>1. running \in SUBSET Forwards /\ tx.captured \in SUBSET Forwards /\ tx \in Locals
          BY DEF IInv, TypeOK, LocalsKnown, Locals
        <4>2. tx' = [tx EXCEPT !.plan = running, !.captured = IF ok THEN running ELSE tx.captured]
          BY <2>3, ZenonT(30) DEF Suspends
        <4>. QED
          BY <4>1, <4>2 DEF Locals
      <3>. QED
        BY <2>3, <3>1 DEF IInv, LocalsKnown, Suspends
    <2>4. CASE NeutralizesRoutes(ok)
      <3>1. tx' \in Locals /\ tx'.replaced = tx.replaced
        BY <2>4 DEF IInv, LocalsKnown, NeutralizesRoutes, Locals
      <3>. QED
        BY <2>4, <3>1 DEF IInv, LocalsKnown, NeutralizesRoutes
    <2>5. CASE ReplacesVault(ok)
      <3>1. tx' \in Locals /\ tx'.replaced = ok
        BY <2>5 DEF IInv, LocalsKnown, ReplacesVault, Locals
      <3>. QED
        BY <2>5, <3>1 DEF IInv, LocalsKnown, ReplacesVault
    <2>6. CASE EntersQuarantine(ok)
      BY <2>6, NoTxFacts DEF IInv, LocalsKnown, EntersQuarantine
    <2>7. CASE CommitsJournal(ok) \/ UndoJournal(ok)
      BY <2>7, NoTxFacts DEF IInv, LocalsKnown, CommitsJournal, UndoJournal
    <2>8. CASE UndoRoutes(ok) \/ UndoRuntime(ok) \/ UndoCandidate(ok)
      <3>1. tx.failed \in BOOLEAN /\ tx \in Locals
        BY DEF IInv, LocalsKnown, Locals
      <3>2. Tries(ok) => tx' \in Locals
        BY <3>1 DEF Tries, Locals
      <3>3. UNCHANGED tx \/ Tries(ok)
        BY <2>8 DEF UndoRoutes, UndoRuntime, UndoCandidate
      <3>4. tx' \in Locals
        BY <3>1, <3>2, <3>3
      <3>. QED
        BY <2>8, <3>4 DEF IInv, LocalsKnown, UndoRoutes, UndoRuntime, UndoCandidate
    <2>. QED
      BY <1>1, <2>1, <2>2, <2>3, <2>4, <2>5, <2>6, <2>7, <2>8 DEF CommitRestoreStep
  <1>2. ASSUME NEW ok \in BOOLEAN, RecoveryStep(ok) PROVE LocalsKnown'
    <2>1. CASE \E f \in Forwards : RecoverForward(f, ok)
      <3>1. PICK f \in Forwards : RecoverForward(f, ok)
        BY <2>1
      <3>2. CASE ~ok
        BY <3>1, <3>2, NoTxFacts DEF IInv, LocalsKnown, RecoverForward
      <3>3. CASE ok
        <4>1. tx = NoTx /\ pc' = "rForwards" /\ tx' = [NoTx EXCEPT !.started = {f}]
          BY <3>1, <3>3, NoTxFacts DEF IInv, LocalsKnown, RecoverForward
        <4>2. tx' \in Locals /\ tx'.started = {f}
          BY <4>1, NoTxFacts, SetUpdates
        <4>. QED
          BY <4>1, <4>2 DEF LocalsKnown
      <3>. QED
        BY <3>2, <3>3
    <2>2. CASE RecoverCheckpoint(ok) \/ RecoverForwardsDone
      BY <2>2, NoTxFacts DEF IInv, LocalsKnown, RecoverCheckpoint, RecoverForwardsDone
    <2>3. CASE BootWithJournal \/ BootWithoutJournal(ok)
      BY <2>3 DEF IInv, LocalsKnown, BootWithJournal, BootWithoutJournal
    <2>4. CASE RecoverNeutralizes(ok) \/ RecoverQuarantines(ok) \/ RecoverRoutes(ok)
      <3>1. UNCHANGED tx /\ tx = NoTx
        BY <2>4 DEF IInv, LocalsKnown, RecoverNeutralizes, RecoverQuarantines, RecoverRoutes
      <3>2. CASE ok
        BY <2>4, <3>1, <3>2, NoTxFacts DEF LocalsKnown, RecoverNeutralizes, RecoverQuarantines, RecoverRoutes
      <3>3. CASE ~ok
        BY <2>4, <3>1, <3>3, NoTxFacts DEF LocalsKnown, RecoverNeutralizes, RecoverQuarantines, RecoverRoutes
      <3>. QED
        BY <3>2, <3>3
    <2>5. CASE RecoverClearsQuarantine(ok) \/ RecoverCommits(ok)
      BY <2>5 DEF IInv, LocalsKnown, RecoverClearsQuarantine, RecoverCommits
    <2>. QED
      BY <1>2, <2>1, <2>2, <2>3, <2>4, <2>5 DEF RecoveryStep
  <1>3. ASSUME NEW ok \in BOOLEAN, ActivationStep(ok) PROVE LocalsKnown'
    BY <1>3 DEF IInv, LocalsKnown, ActivationStep, ActivatesRoutes, ActivatesForwards, ClearsQuarantine, ActivationSuspends, ActivationNeutralizes
  <1>4. CASE UserStep
    <2>1. CASE RestoreBegins
      <3>1. tx' \in Locals /\ ~tx'.replaced
        BY <2>1 DEF IInv, RevisionsGrow, TypeOK, RestoreBegins, NoTx, Locals, Revisions
      <3>. QED
        BY <2>1, <3>1 DEF LocalsKnown, RestoreBegins
    <2>2. CASE UserStep /\ ~RestoreBegins
      BY <2>2, NoTxFacts DEF IInv, LocalsKnown, UserStep, ActivationBegins, UserEdits, Restart, Boots, UserReconciles, ForwardStarts, ForwardStops
    <2>. QED
      BY <1>4, <2>1, <2>2 DEF UserStep
  <1>5. CASE Crash
    BY <1>5, NoTxFacts DEF IInv, LocalsKnown, Crash, Boots
  <1>6. CASE UNCHANGED vars
    BY <1>6 DEF IInv, LocalsKnown, vars
  <1>. QED
    BY <1>1, <1>2, <1>3, <1>4, <1>5, <1>6 DEF Next, SystemStep

\* The phases of the journal, by their numbers.
LEMMA PhaseFacts ==
  /\ DOMAIN PhaseOrder = {"none", "planned", "candidate_prepared", "runtime_suspending",
       "runtime_suspended", "routes_neutralized", "replacing_vault", "vault_replaced", "quarantined"}
  /\ JournalPhases = DOMAIN PhaseOrder \ {"none"}
  /\ AtLeast("vault_replaced") <=>
       PhaseOrder[journal.phase] >= 7
  /\ PhaseOrder["quarantined"] = 8 /\ PhaseOrder["vault_replaced"] = 7
  /\ NoJournal \in Journals /\ NoJournal.before = FirstVault /\ ~(PhaseOrder["none"] >= 7)
  BY DEF PhaseOrder, JournalPhases, AtLeast, NoJournal, Journals, FirstVault, Revisions

\* A restore remembers the Vault it began with; nothing else is remembered.
LEMMA BeforeStep ==
  ASSUME IInv, [Next]_vars, ~RestoreBegins
  PROVE  tx'.before \in {tx.before, FirstVault}
  <1>. USE NoTxFacts DEF Ends, Boots
  <1>. tx \in Locals /\ tx.failed \in BOOLEAN
    BY DEF IInv, LocalsKnown, Locals
  <1>1. ASSUME NEW ok \in BOOLEAN, CommitRestoreStep(ok) PROVE tx'.before \in {tx.before, FirstVault}
    <2>1. CASE PreparesCandidate(ok) \/ NeutralizesRoutes(ok) \/ ReplacesVault(ok)
      BY <2>1 DEF PreparesCandidate, NeutralizesRoutes, ReplacesVault, Locals
    <2>2. CASE Suspends(ok)
      BY <2>2 DEF Suspends, Locals
    <2>3. CASE WritesJournal(ok) \/ EntersQuarantine(ok) \/ CommitsJournal(ok) \/ UndoJournal(ok)
      BY <2>3 DEF WritesJournal, Fails, EntersQuarantine, CommitsJournal, UndoJournal
    <2>4. CASE UndoRoutes(ok) \/ UndoRuntime(ok) \/ UndoCandidate(ok)
      <3>1. UNCHANGED tx \/ Tries(ok)
        BY <2>4 DEF UndoRoutes, UndoRuntime, UndoCandidate
      <3>. QED
        BY <3>1 DEF Tries, Locals
    <2>. QED
      BY <1>1, <2>1, <2>2, <2>3, <2>4 DEF CommitRestoreStep
  <1>2. ASSUME NEW ok \in BOOLEAN, RecoveryStep(ok) PROVE tx'.before \in {tx.before, FirstVault}
    <2>1. CASE \E f \in Forwards : RecoverForward(f, ok)
      BY <2>1 DEF RecoverForward, Locals
    <2>2. CASE UNCHANGED tx \/ tx' = NoTx
      BY <2>2
    <2>. QED
      BY <1>2, <2>1, <2>2 DEF RecoveryStep, RecoverCheckpoint, RecoverForwardsDone, BootWithJournal,
        BootWithoutJournal, RecoverNeutralizes, RecoverQuarantines, RecoverRoutes,
        RecoverClearsQuarantine, RecoverCommits
  <1>3. ASSUME NEW ok \in BOOLEAN, ActivationStep(ok) PROVE tx'.before \in {tx.before, FirstVault}
    BY <1>3 DEF ActivationStep, ActivatesRoutes, ActivatesForwards, ClearsQuarantine,
      ActivationSuspends, ActivationNeutralizes
  <1>4. CASE UserStep \/ Crash \/ UNCHANGED vars
    BY <1>4 DEF UserStep, ActivationBegins, UserEdits, Restart, UserReconciles, ForwardStarts,
      ForwardStops, Crash, vars
  <1>. QED
    BY <1>1, <1>2, <1>3, <1>4 DEF Next, SystemStep

\* What writes the Vault or the journal.
FileStep(ok) ==
  \/ WritesJournal(ok) \/ ReplacesVault(ok) \/ CommitsJournal(ok) \/ UndoJournal(ok)
  \/ RecoverCheckpoint(ok) \/ RecoverCommits(ok)

\* The other actions leave both alone, and start no restore.
LEMMA FilesFrame ==
  ASSUME [Next]_vars, ~RestoreBegins, \A catalogToo \in BOOLEAN : ~UserEdits(catalogToo),
         \A ok \in BOOLEAN : ~FileStep(ok)
  PROVE  UNCHANGED <<vault, journal>> /\ (pc' \in RestoringPcs => pc \in RestoringPcs)
  <1>. USE DEF RestoringPcs, FileStep, GoesTo, Ends, Boots, durable
  <1>1. ASSUME NEW ok \in BOOLEAN, CommitRestoreStep(ok)
        PROVE  UNCHANGED <<vault, journal>> /\ (pc' \in RestoringPcs => pc \in RestoringPcs)
    BY <1>1 DEF CommitRestoreStep, PreparesCandidate, Suspends, NeutralizesRoutes, EntersQuarantine,
      UndoRoutes, UndoRuntime, UndoCandidate
  <1>2. ASSUME NEW ok \in BOOLEAN, RecoveryStep(ok)
        PROVE  UNCHANGED <<vault, journal>> /\ pc' \notin RestoringPcs
    <2>1. CASE \E f \in Forwards : RecoverForward(f, ok)
      BY <2>1 DEF RecoverForward
    <2>2. CASE BootWithJournal \/ BootWithoutJournal(ok) \/ RecoverForwardsDone
      BY <2>2 DEF BootWithJournal, BootWithoutJournal, RecoverForwardsDone
    <2>3. CASE \/ RecoverNeutralizes(ok) \/ RecoverQuarantines(ok) \/ RecoverRoutes(ok)
               \/ RecoverClearsQuarantine(ok)
      BY <2>3 DEF RecoverNeutralizes, RecoverQuarantines, RecoverRoutes, RecoverClearsQuarantine
    <2>. QED
      BY <1>2, <2>1, <2>2, <2>3 DEF RecoveryStep
  <1>3. ASSUME NEW ok \in BOOLEAN, ActivationStep(ok)
        PROVE  UNCHANGED <<vault, journal>> /\ pc' \notin RestoringPcs
    BY <1>3 DEF ActivationStep, ActivatesRoutes, ActivatesForwards, ActivationSuspends,
      ClearsQuarantine, ActivationNeutralizes
  <1>4. CASE UserStep \/ Crash \/ UNCHANGED vars
    BY <1>4 DEF UserStep, ActivationBegins, Restart, UserReconciles, ForwardStarts,
      ForwardStops, Crash, vars
  <1>. QED
    BY <1>1, <1>2, <1>3, <1>4 DEF Next, SystemStep

\* Revisions only grow, within the bound.
LEMMA RevisionsStep == IInv /\ [Next]_vars => RevisionsGrow' /\ vault' \in VaultStates
  <1>. SUFFICES ASSUME IInv, [Next]_vars PROVE RevisionsGrow' /\ vault' \in VaultStates
    OBVIOUS
  <1>1. /\ vault \in Revisions /\ vault.storage \in Nat /\ vault.catalog \in Nat
        /\ vault.catalog <= vault.storage /\ vault.storage <= MaxVault + 1 /\ vault \in VaultStates
        /\ journal \in Journals /\ journal.before \in VaultStates /\ tx \in Locals
        /\ tx.before \in VaultStates /\ tx.before \in Revisions /\ tx.before.storage \in Nat
        /\ journal.before.storage \in Nat
        /\ journal.before.storage <= vault.storage /\ tx.before.storage <= vault.storage
        /\ pc \in RestoringPcs => vault.storage <= MaxVault
    BY BoundsAssumption DEF IInv, TypeOK, RevisionsGrow, LocalsKnown, VaultStates, Revisions, Locals, Journals
  <1>2. FirstVault \in VaultStates /\ FirstVault.storage = 0
    BY BoundsAssumption DEF FirstVault, VaultStates
  <1>3. CASE RestoreBegins
    <2>1. vault' = vault /\ tx'.before = vault /\ vault.storage < MaxVault
      BY <1>3 DEF RestoreBegins, NoTx
    <2>2. journal' \in Journals /\ journal'.before = vault
      BY <1>1, <1>3, PhaseFacts DEF RestoreBegins, Journals, IInv, TypeOK
    <2>. QED
      BY <1>1, <2>1, <2>2, BoundsAssumption DEF RevisionsGrow
  <1>4. CASE ~RestoreBegins
    <2>1. tx'.before \in VaultStates /\ tx'.before.storage \in Nat /\ tx'.before.storage <= vault.storage
      BY <1>1, <1>2, <1>4, BeforeStep
    <2>2. ASSUME NEW catalogToo \in BOOLEAN, UserEdits(catalogToo) PROVE RevisionsGrow' /\ vault' \in VaultStates
      <3>1. /\ vault.storage < MaxVault /\ vault'.storage = vault.storage + 1
            /\ vault'.catalog \in {vault.catalog, vault.catalog + 1} /\ vault' \in Revisions
            /\ UNCHANGED <<journal, pc>>
        BY <1>1, <2>2 DEF UserEdits, Written, Revisions
      <3>2. vault' \in VaultStates
        BY <1>1, <2>2, <3>1, BoundsAssumption DEF UserEdits, Written, VaultStates
      <3>. QED
        BY <1>1, <2>1, <3>1, <3>2, BoundsAssumption DEF RevisionsGrow, RestoringPcs
    <2>3. ASSUME NEW ok \in BOOLEAN, FileStep(ok) PROVE RevisionsGrow' /\ vault' \in VaultStates
      <3>1. CASE ReplacesVault(ok)
        <4>1. UNCHANGED journal /\ pc' \notin RestoringPcs /\ pc \in RestoringPcs
          BY <3>1 DEF ReplacesVault, GoesTo, RestoringPcs
        <4>2. CASE ~ok
          BY <1>1, <2>1, <3>1, <4>1, <4>2 DEF RevisionsGrow, ReplacesVault
        <4>3. CASE ok
          <5>1. /\ vault'.storage = vault.storage + 1 /\ vault'.catalog = vault.catalog + 1
                /\ vault' \in Revisions /\ vault.storage <= MaxVault
            BY <1>1, <3>1, <4>1, <4>3 DEF ReplacesVault, Written, Revisions
          <5>2. vault' \in VaultStates
            BY <1>1, <3>1, <4>3, <5>1, BoundsAssumption DEF ReplacesVault, Written, VaultStates
          <5>. QED
            BY <1>1, <2>1, <4>1, <5>1, <5>2, BoundsAssumption DEF RevisionsGrow
        <4>. QED
          BY <4>2, <4>3
      <3>2. CASE WritesJournal(ok)
        <4>1. UNCHANGED vault /\ (pc' \in RestoringPcs => pc \in RestoringPcs)
          BY <3>2 DEF WritesJournal, AfterPhase, Fails, GoesTo, Ends, RestoringPcs
        <4>2. journal' \in Journals /\ journal'.before \in {journal.before, tx.before}
          <5>1. tx.captured \in SUBSET Forwards /\ DOMAIN AfterPhase \subseteq DOMAIN PhaseOrder
            BY <1>1, PhaseFacts DEF Locals, AfterPhase
          <5>2. CASE ok
            BY <1>1, <3>2, <5>1, <5>2 DEF WritesJournal, Journals
          <5>3. CASE ~ok
            BY <1>1, <3>2, <5>3 DEF WritesJournal
          <5>. QED
            BY <5>2, <5>3
        <4>. QED
          BY <1>1, <2>1, <4>1, <4>2 DEF RevisionsGrow
      <3>3. CASE CommitsJournal(ok) \/ UndoJournal(ok) \/ RecoverCommits(ok)
        <4>1. UNCHANGED vault /\ pc' \notin RestoringPcs /\ journal' \in {journal, NoJournal}
          BY <3>3 DEF CommitsJournal, UndoJournal, RecoverCommits, GoesTo, Ends, RestoringPcs
        <4>. QED
          BY <1>1, <1>2, <2>1, <4>1, PhaseFacts DEF RevisionsGrow
      <3>4. CASE RecoverCheckpoint(ok)
        <4>1. UNCHANGED vault /\ pc' \notin RestoringPcs
          BY <3>4 DEF RecoverCheckpoint, GoesTo, RestoringPcs
        <4>2. journal' \in Journals /\ journal'.before = journal.before
          BY <1>1, <3>4 DEF RecoverCheckpoint, Journals
        <4>. QED
          BY <1>1, <2>1, <4>1, <4>2 DEF RevisionsGrow
      <3>. QED
        BY <2>3, <3>1, <3>2, <3>3, <3>4 DEF FileStep
    <2>4. CASE UNCHANGED <<vault, journal>> /\ (pc' \in RestoringPcs => pc \in RestoringPcs)
      BY <1>1, <2>1, <2>4 DEF RevisionsGrow
    <2>. QED
      BY <1>4, <2>2, <2>3, <2>4, FilesFrame
  <1>. QED
    BY <1>3, <1>4

\* A journal that is there names a phase.
LEMMA JournalStep ==
  IInv /\ [Next]_vars =>
    (Pending => journal \in [phase : JournalPhases, before : VaultStates, captured : SUBSET Forwards])'
  <1>. SUFFICES ASSUME IInv, [Next]_vars, Pending'
                PROVE  journal' \in [phase : JournalPhases, before : VaultStates, captured : SUBSET Forwards]
    BY DEF VaultStates, JournalPhases, PhaseOrder
  <1>. journal' \in Journals /\ journal'.before \in VaultStates
    BY RevisionsStep DEF RevisionsGrow
  <1>. SUFFICES journal'.phase # "none"
    BY PhaseFacts DEF Journals, VaultStates
  <1>1. Pending => journal.phase # "none"
    BY PhaseFacts DEF IInv, TypeOK
  <1>2. CASE RestoreBegins
    BY <1>2 DEF RestoreBegins
  <1>3. ASSUME NEW ok \in BOOLEAN, FileStep(ok) PROVE journal'.phase # "none"
    <2>1. CASE WritesJournal(ok)
      BY <1>1, <2>1 DEF WritesJournal, AfterPhase, Pending
    <2>2. CASE RecoverCheckpoint(ok) /\ ok /\ Pending
      BY <1>1, <2>2 DEF RecoverCheckpoint, IInv, RevisionsGrow, Journals
    <2>3. CASE RecoverCheckpoint(ok) /\ ok /\ ~Pending
      BY <2>3 DEF RecoverCheckpoint, Pending, NoJournal
    <2>4. CASE RecoverCheckpoint(ok) /\ ~ok
      BY <1>1, <2>4 DEF RecoverCheckpoint, Pending
    <2>5. CASE ReplacesVault(ok) \/ CommitsJournal(ok) \/ UndoJournal(ok) \/ RecoverCommits(ok)
      BY <1>1, <2>5 DEF ReplacesVault, CommitsJournal, UndoJournal, RecoverCommits, Pending
    <2>. QED
      BY <1>3, <2>1, <2>2, <2>3, <2>4, <2>5 DEF FileStep
  <1>4. CASE UNCHANGED journal
    BY <1>1, <1>4 DEF Pending
  <1>. QED
    BY <1>2, <1>3, <1>4, FilesFrame DEF UserEdits

\* The effects on the network.
EffectsTyped ==
  /\ running \subseteq Forwards /\ suspended \subseteq Forwards
  /\ {routes, routesBefore} \subseteq RoutesStates

\* Types of what the effects are.
LEMMA EffectsTypeStep == IInv /\ [Next]_vars => EffectsTyped'
  <1>. SUFFICES ASSUME IInv, [Next]_vars PROVE EffectsTyped'
    OBVIOUS
  <1>. EffectsTyped /\ tx.plan \subseteq Forwards /\ journal.captured \subseteq Forwards
    BY DEF IInv, TypeOK, EffectsTyped, RevisionsGrow, Journals
  <1>. USE DEF EffectsTyped, RoutesStates, network, history, Neutralizes, Reconciles
  <1>1. ASSUME NEW ok \in BOOLEAN, CommitRestoreStep(ok) PROVE EffectsTyped'
    <2>1. CASE PreparesCandidate(ok) \/ WritesJournal(ok) \/ ReplacesVault(ok)
      BY <2>1 DEF PreparesCandidate, WritesJournal, ReplacesVault
    <2>2. CASE Suspends(ok)
      BY <2>2 DEF Suspends
    <2>3. CASE NeutralizesRoutes(ok)
      BY <2>3 DEF NeutralizesRoutes
    <2>4. CASE EntersQuarantine(ok) \/ CommitsJournal(ok) \/ UndoCandidate(ok) \/ UndoJournal(ok)
      BY <2>4 DEF EntersQuarantine, CommitsJournal, UndoCandidate, UndoJournal
    <2>5. CASE UndoRoutes(ok)
      BY <2>5 DEF UndoRoutes
    <2>6. CASE UndoRuntime(ok)
      BY <2>6 DEF UndoRuntime
    <2>. QED
      BY <1>1, <2>1, <2>2, <2>3, <2>4, <2>5, <2>6 DEF CommitRestoreStep
  <1>2. ASSUME NEW ok \in BOOLEAN, RecoveryStep(ok) PROVE EffectsTyped'
    <2>1. CASE \E f \in Forwards : RecoverForward(f, ok)
      BY <2>1 DEF RecoverForward
    <2>2. CASE BootWithJournal \/ RecoverForwardsDone
      BY <2>2 DEF BootWithJournal, RecoverForwardsDone
    <2>3. CASE BootWithoutJournal(ok) \/ RecoverNeutralizes(ok) \/ RecoverRoutes(ok)
      BY <2>3 DEF BootWithoutJournal, RecoverNeutralizes, RecoverRoutes
    <2>4. CASE \/ RecoverQuarantines(ok) \/ RecoverCheckpoint(ok)
               \/ RecoverClearsQuarantine(ok) \/ RecoverCommits(ok)
      BY <2>4 DEF RecoverQuarantines, RecoverCheckpoint, RecoverClearsQuarantine, RecoverCommits
    <2>. QED
      BY <1>2, <2>1, <2>2, <2>3, <2>4 DEF RecoveryStep
  <1>3. ASSUME NEW ok \in BOOLEAN, ActivationStep(ok) PROVE EffectsTyped'
    BY <1>3 DEF ActivationStep, ActivatesRoutes, ActivatesForwards, ClearsQuarantine,
      ActivationSuspends, ActivationNeutralizes
  <1>4. CASE RestoreBegins \/ Crash \/ UNCHANGED vars
    BY <1>4 DEF RestoreBegins, Crash, Boots, vars
  <1>5. CASE UserStep /\ ~RestoreBegins
    BY <1>5 DEF UserStep, ActivationBegins, UserEdits, Restart, Boots, UserReconciles,
      ForwardStarts, ForwardStops
  <1>. QED
    BY <1>1, <1>2, <1>3, <1>4, <1>5 DEF Next, SystemStep

\* The Boolean variables.
FlagsTyped ==
  /\ trusted \in BOOLEAN /\ quarantine \in BOOLEAN /\ restored \in BOOLEAN
  /\ attempted \in BOOLEAN /\ meddled \in BOOLEAN

\* Types of the flags.
LEMMA FlagsTypeStep == IInv /\ [Next]_vars => FlagsTyped'
  <1>. SUFFICES ASSUME IInv, [Next]_vars PROVE FlagsTyped'
    OBVIOUS
  <1>. FlagsTyped
    BY DEF IInv, TypeOK, FlagsTyped
  <1>. USE DEF FlagsTyped, network, durable, history, Neutralizes, Quarantines
  <1>0. \A ok, confirmed : Reconciles(ok, confirmed) => trusted' \in BOOLEAN
    <2>. SUFFICES ASSUME NEW ok, NEW confirmed, Reconciles(ok, confirmed) PROVE trusted' \in BOOLEAN
      OBVIOUS
    <2>1. CASE ok
      BY <2>1 DEF Reconciles
    <2>2. CASE ~ok
      BY <2>2 DEF Reconciles
    <2>. QED
      BY <2>1, <2>2
  <1>1. ASSUME NEW ok \in BOOLEAN, CommitRestoreStep(ok) PROVE FlagsTyped'
    <2>1. CASE PreparesCandidate(ok) \/ WritesJournal(ok) \/ ReplacesVault(ok)
      BY <2>1 DEF PreparesCandidate, WritesJournal, ReplacesVault
    <2>2. CASE Suspends(ok)
      BY <2>2 DEF Suspends
    <2>3. CASE NeutralizesRoutes(ok)
      BY <2>3 DEF NeutralizesRoutes
    <2>4. CASE EntersQuarantine(ok) \/ CommitsJournal(ok) \/ UndoCandidate(ok) \/ UndoJournal(ok)
      BY <2>4 DEF EntersQuarantine, CommitsJournal, UndoCandidate, UndoJournal
    <2>5. CASE UndoRoutes(ok)
      BY <1>0, <2>5 DEF UndoRoutes
    <2>6. CASE UndoRuntime(ok)
      BY <2>6 DEF UndoRuntime
    <2>. QED
      BY <1>1, <2>1, <2>2, <2>3, <2>4, <2>5, <2>6 DEF CommitRestoreStep
  <1>2. ASSUME NEW ok \in BOOLEAN, RecoveryStep(ok) PROVE FlagsTyped'
    <2>1. CASE \E f \in Forwards : RecoverForward(f, ok)
      BY <2>1 DEF RecoverForward
    <2>2. CASE BootWithJournal \/ RecoverForwardsDone
      BY <2>2 DEF BootWithJournal, RecoverForwardsDone
    <2>3. CASE BootWithoutJournal(ok) \/ RecoverNeutralizes(ok) \/ RecoverRoutes(ok)
      BY <1>0, <2>3 DEF BootWithoutJournal, RecoverNeutralizes, RecoverRoutes
    <2>4. CASE \/ RecoverQuarantines(ok) \/ RecoverCheckpoint(ok)
               \/ RecoverClearsQuarantine(ok) \/ RecoverCommits(ok)
      BY <2>4 DEF RecoverQuarantines, RecoverCheckpoint, RecoverClearsQuarantine, RecoverCommits
    <2>. QED
      BY <1>2, <2>1, <2>2, <2>3, <2>4 DEF RecoveryStep
  <1>3. ASSUME NEW ok \in BOOLEAN, ActivationStep(ok) PROVE FlagsTyped'
    BY <1>0, <1>3 DEF ActivationStep, ActivatesRoutes, ActivatesForwards, ClearsQuarantine,
      ActivationSuspends, ActivationNeutralizes
  <1>4. CASE RestoreBegins \/ Crash \/ UNCHANGED vars
    BY <1>4 DEF RestoreBegins, Crash, Boots, vars
  <1>5. CASE UserStep /\ ~RestoreBegins
    BY <1>0, <1>5 DEF UserStep, ActivationBegins, UserEdits, Restart, Boots, UserReconciles,
      ForwardStarts, ForwardStops
  <1>. QED
    BY <1>1, <1>2, <1>3, <1>4, <1>5 DEF Next, SystemStep

\* A failing call uses up a fault while there is one.
LEMMA FaultsTypeStep == IInv /\ [Next]_vars => faults' \in 0..MaxFaults
  <1>. SUFFICES ASSUME IInv, [Next]_vars PROVE faults' \in 0..MaxFaults
    OBVIOUS
  <1>. faults \in 0..MaxFaults /\ MaxFaults \in Nat
    BY BoundsAssumption DEF IInv, TypeOK
  <1>. \A ok \in BOOLEAN : Call(ok) => faults' \in 0..MaxFaults
    BY DEF Call
  <1>. USE DEF Neutralizes, Reconciles
  <1>1. ASSUME NEW ok \in BOOLEAN, CommitRestoreStep(ok) PROVE faults' \in 0..MaxFaults
    <2>1. CASE PreparesCandidate(ok) \/ WritesJournal(ok) \/ ReplacesVault(ok)
      BY <2>1 DEF PreparesCandidate, WritesJournal, ReplacesVault
    <2>2. CASE Suspends(ok)
      BY <2>2 DEF Suspends
    <2>3. CASE NeutralizesRoutes(ok)
      BY <2>3 DEF NeutralizesRoutes
    <2>4. CASE EntersQuarantine(ok) \/ CommitsJournal(ok) \/ UndoCandidate(ok) \/ UndoJournal(ok)
      BY <2>4 DEF EntersQuarantine, CommitsJournal, UndoCandidate, UndoJournal
    <2>5. CASE UndoRoutes(ok)
      BY <2>5 DEF UndoRoutes
    <2>6. CASE UndoRuntime(ok)
      BY <2>6 DEF UndoRuntime
    <2>. QED
      BY <1>1, <2>1, <2>2, <2>3, <2>4, <2>5, <2>6 DEF CommitRestoreStep
  <1>2. ASSUME NEW ok \in BOOLEAN, RecoveryStep(ok) PROVE faults' \in 0..MaxFaults
    <2>1. CASE \E f \in Forwards : RecoverForward(f, ok)
      BY <2>1 DEF RecoverForward
    <2>2. CASE BootWithJournal \/ RecoverForwardsDone
      BY <2>2 DEF BootWithJournal, RecoverForwardsDone
    <2>3. CASE BootWithoutJournal(ok) \/ RecoverNeutralizes(ok) \/ RecoverRoutes(ok)
      BY <2>3 DEF BootWithoutJournal, RecoverNeutralizes, RecoverRoutes
    <2>4. CASE \/ RecoverQuarantines(ok) \/ RecoverCheckpoint(ok)
               \/ RecoverClearsQuarantine(ok) \/ RecoverCommits(ok)
      BY <2>4 DEF RecoverQuarantines, RecoverCheckpoint, RecoverClearsQuarantine, RecoverCommits
    <2>. QED
      BY <1>2, <2>1, <2>2, <2>3, <2>4 DEF RecoveryStep
  <1>3. ASSUME NEW ok \in BOOLEAN, ActivationStep(ok) PROVE faults' \in 0..MaxFaults
    BY <1>3 DEF ActivationStep, ActivatesRoutes, ActivatesForwards, ClearsQuarantine,
      ActivationSuspends, ActivationNeutralizes
  <1>4. CASE RestoreBegins \/ Crash \/ UNCHANGED vars
    BY <1>4 DEF RestoreBegins, Crash, Boots, vars
  <1>5. CASE UserStep /\ ~RestoreBegins
    BY <1>5 DEF UserStep, ActivationBegins, UserEdits, Restart, Boots, UserReconciles,
      ForwardStarts, ForwardStops
  <1>. QED
    BY <1>1, <1>2, <1>3, <1>4, <1>5 DEF Next, SystemStep

\* Only a replacement makes a restored Vault, and what else changes is history.
LEMMA HistoryFrame ==
  ASSUME [Next]_vars, ~RestoreBegins, \A catalogToo \in BOOLEAN : ~UserEdits(catalogToo),
         \A ok \in BOOLEAN : ~ReplacesVault(ok)
  PROVE  meddled' = meddled /\ (restored' => restored)
  <1>. USE DEF durable, history, network, Boots
  <1>1. ASSUME NEW ok \in BOOLEAN, CommitRestoreStep(ok) PROVE meddled' = meddled /\ restored' = restored
    <2>1. CASE PreparesCandidate(ok) \/ WritesJournal(ok) \/ Suspends(ok)
      BY <2>1 DEF PreparesCandidate, WritesJournal, Suspends
    <2>2. CASE NeutralizesRoutes(ok) \/ EntersQuarantine(ok) \/ CommitsJournal(ok)
      BY <2>2 DEF NeutralizesRoutes, EntersQuarantine, CommitsJournal
    <2>3. CASE UndoRoutes(ok) \/ UndoRuntime(ok) \/ UndoCandidate(ok) \/ UndoJournal(ok)
      BY <2>3 DEF UndoRoutes, UndoRuntime, UndoCandidate, UndoJournal
    <2>. QED
      BY <1>1, <2>1, <2>2, <2>3 DEF CommitRestoreStep
  <1>2. ASSUME NEW ok \in BOOLEAN, RecoveryStep(ok) PROVE meddled' = meddled /\ restored' = restored
    <2>1. CASE \E f \in Forwards : RecoverForward(f, ok)
      BY <2>1 DEF RecoverForward
    <2>2. CASE BootWithJournal \/ BootWithoutJournal(ok) \/ RecoverNeutralizes(ok) \/ RecoverRoutes(ok)
      BY <2>2 DEF BootWithJournal, BootWithoutJournal, RecoverNeutralizes, RecoverRoutes
    <2>3. CASE RecoverQuarantines(ok) \/ RecoverCheckpoint(ok) \/ RecoverForwardsDone
      BY <2>3 DEF RecoverQuarantines, RecoverCheckpoint, RecoverForwardsDone
    <2>4. CASE RecoverClearsQuarantine(ok) \/ RecoverCommits(ok)
      BY <2>4 DEF RecoverClearsQuarantine, RecoverCommits
    <2>. QED
      BY <1>2, <2>1, <2>2, <2>3, <2>4 DEF RecoveryStep
  <1>3. ASSUME NEW ok \in BOOLEAN, ActivationStep(ok) PROVE meddled' = meddled /\ (restored' => restored)
    <2>1. CASE ClearsQuarantine(ok)
      BY <2>1 DEF ClearsQuarantine
    <2>2. CASE ActivatesRoutes(ok) \/ ActivatesForwards(ok) \/ ActivationSuspends \/ ActivationNeutralizes(ok)
      <3>1. meddled' = meddled /\ restored' = restored
        BY <2>2 DEF ActivatesRoutes, ActivatesForwards, ActivationSuspends, ActivationNeutralizes
      <3>. QED
        BY <3>1, Zenon
    <2>. QED
      BY <1>3, <2>1, <2>2 DEF ActivationStep
  <1>4. ASSUME ActivationBegins \/ Restart \/ Crash \/ UNCHANGED vars
        PROVE  meddled' = meddled /\ restored' = restored
    BY <1>4 DEF ActivationBegins, Restart, Crash, vars
  <1>5. ASSUME \/ \E ok \in BOOLEAN : UserReconciles(ok)
               \/ \E f \in Forwards : ForwardStarts(f) \/ ForwardStops(f)
        PROVE  meddled' = meddled /\ restored' = restored
    BY <1>5 DEF UserReconciles, ForwardStarts, ForwardStops
  <1>. QED
    <2>1. (meddled' = meddled /\ restored' = restored) \/ \E ok \in BOOLEAN : ActivationStep(ok)
      BY <1>1, <1>2, <1>4, <1>5 DEF Next, SystemStep, UserStep
    <2>2. CASE meddled' = meddled /\ restored' = restored
      BY <2>2, Zenon
    <2>3. CASE \E ok \in BOOLEAN : ActivationStep(ok)
      BY <1>3, <2>3
    <2>. QED
      BY <2>1, <2>2, <2>3

\* So a Vault that is restored and unmeddled with after a step was so before.
LEMMA HistoryGrows ==
  ASSUME [Next]_vars, ~RestoreBegins, \A ok \in BOOLEAN : ~ReplacesVault(ok), ~meddled', restored'
  PROVE  ~meddled /\ restored
  <1>1. CASE \E catalogToo \in BOOLEAN : UserEdits(catalogToo)
    BY <1>1 DEF UserEdits
  <1>2. CASE \A catalogToo \in BOOLEAN : ~UserEdits(catalogToo)
    BY <1>2, HistoryFrame
  <1>. QED
    BY <1>1, <1>2

\* A restore that begins without meddling begins over a Vault that was not restored.
LEMMA RestoreBeginsClean ==
  ASSUME IInv, RestoreBegins, ~meddled'
  PROVE  ~meddled /\ ~restored' /\ ~restored /\ ~Pending
  BY DEF IInv, NewVaultIsGuarded, RestoreBegins

\* Whoever may bring old effects back entered over the old Vault.
OldVaultPcs == RestoringPcs \cup UndoingPcs \cup RevivingPcs
LEMMA OldVaultStep == IInv /\ [Next]_vars => (pc \in OldVaultPcs /\ ~meddled => ~restored)'
  <1>. SUFFICES ASSUME IInv, [Next]_vars, pc' \in OldVaultPcs, ~meddled' PROVE ~restored'
    OBVIOUS
  <1>. USE DEF OldVaultPcs, RestoringPcs, UndoingPcs, RevivingPcs, GoesTo, Ends, Boots
  <1>1. CASE RestoreBegins
    BY <1>1, RestoreBeginsClean
  <1>2. ASSUME NEW catalogToo \in BOOLEAN, UserEdits(catalogToo) PROVE ~restored'
    BY <1>2 DEF UserEdits, IInv, ReplacementIsSeen
  <1>3. ASSUME NEW ok \in BOOLEAN, ReplacesVault(ok) PROVE ~restored'
    BY <1>3 DEF ReplacesVault, IInv, ReplacementIsSeen
  <1>4. CASE BootWithJournal
    <2>1. ~meddled /\ Pending /\ ~Replaced /\ UNCHANGED restored
      BY <1>4 DEF BootWithJournal, history, durable
    <2>2. vault = journal.before \/ journal.phase # "replacing_vault"
      BY <2>1 DEF Replaced
    <2>3. vault.storage \in Nat
      BY DEF IInv, RevisionsGrow, Revisions
    <2>. QED
      BY <2>1, <2>2, <2>3 DEF Replaced, IInv, ReplacementIsSeen
  <1>5. CASE pc \in OldVaultPcs /\ meddled' = meddled /\ (restored' => restored)
    BY <1>5 DEF IInv, ReplacementIsSeen
  <1>6. CASE UserStep /\ ~RestoreBegins /\ \A catalogToo \in BOOLEAN : ~UserEdits(catalogToo)
    <2>1. CASE ActivationBegins \/ Restart
      BY <2>1 DEF ActivationBegins, Restart
    <2>2. CASE \E ok \in BOOLEAN : UserReconciles(ok)
      BY <2>2 DEF UserReconciles
    <2>3. CASE \E f \in Forwards : ForwardStarts(f)
      BY <2>3 DEF ForwardStarts
    <2>4. CASE \E f \in Forwards : ForwardStops(f)
      BY <2>4 DEF ForwardStops, durable, history, IInv, ReplacementIsSeen
    <2>. QED
      BY <1>6, <2>1, <2>2, <2>3, <2>4 DEF UserStep
  <1>7. ASSUME NEW ok \in BOOLEAN, CommitRestoreStep(ok) PROVE pc \in OldVaultPcs \/ EntersQuarantine(ok) \/ WritesJournal(ok)
    BY <1>7 DEF CommitRestoreStep, PreparesCandidate, Suspends, NeutralizesRoutes, ReplacesVault,
      CommitsJournal, UndoRoutes, UndoRuntime, UndoCandidate, UndoJournal
  <1>8. ASSUME NEW ok \in BOOLEAN, EntersQuarantine(ok) \/ WritesJournal(ok) PROVE pc \in OldVaultPcs
    <2>1. CASE EntersQuarantine(ok)
      BY <2>1 DEF EntersQuarantine
    <2>2. CASE WritesJournal(ok)
      BY <2>2 DEF WritesJournal, AfterPhase, Fails, IInv, LocalsKnown, ReplacedPcs
    <2>. QED
      BY <1>8, <2>1, <2>2
  <1>9. ASSUME NEW ok \in BOOLEAN, RecoveryStep(ok) PROVE BootWithJournal \/ pc \in OldVaultPcs
    BY <1>9 DEF RecoveryStep, BootWithoutJournal, RecoverNeutralizes, RecoverQuarantines, RecoverRoutes,
      RecoverForward, RecoverCheckpoint, RecoverForwardsDone, RecoverClearsQuarantine, RecoverCommits
  <1>10. ASSUME NEW ok \in BOOLEAN, ActivationStep(ok) PROVE FALSE
    BY <1>10 DEF ActivationStep, ActivatesRoutes, ActivatesForwards, ClearsQuarantine,
      ActivationSuspends, ActivationNeutralizes
  <1>11. ~Crash
    BY DEF Crash
  <1>12. CASE UNCHANGED vars
    BY <1>12 DEF vars, IInv, ReplacementIsSeen
  <1>. QED
    BY <1>1, <1>2, <1>3, <1>4, <1>5, <1>6, <1>7, <1>8, <1>9, <1>10, <1>11, <1>12, HistoryFrame DEF Next, SystemStep

\* What pc says of the journal, of the quarantine and of a recovery.
PcMeans ==
  /\ pc = "replace" => journal.phase = "replacing_vault"
  /\ pc \in {"quarantined", "commit"} => quarantine
  /\ pc = "rCommit" /\ restored /\ ~meddled => quarantine

\* These meanings are kept.
LEMMA PcMeansStep == IInv /\ [Next]_vars => PcMeans'
  <1>. SUFFICES ASSUME IInv, [Next]_vars PROVE PcMeans'
    OBVIOUS
  <1>. USE DEF PcMeans, GoesTo, Ends, Boots
  <1>1. ASSUME NEW ok \in BOOLEAN, CommitRestoreStep(ok) PROVE PcMeans'
    <2>1. CASE WritesJournal(ok)
      <3>1. CASE ok
        BY <2>1, <3>1 DEF WritesJournal, AfterPhase, IInv, ReplacementIsSeen
      <3>2. CASE ~ok
        BY <2>1, <3>2 DEF WritesJournal, Fails
      <3>. QED
        BY <3>1, <3>2
    <2>2. CASE EntersQuarantine(ok)
      BY <2>2 DEF EntersQuarantine, Quarantines
    <2>3. CASE PreparesCandidate(ok) \/ Suspends(ok) \/ NeutralizesRoutes(ok) \/ ReplacesVault(ok)
      BY <2>3 DEF PreparesCandidate, Suspends, NeutralizesRoutes, ReplacesVault
    <2>4. CASE \/ CommitsJournal(ok) \/ UndoRoutes(ok) \/ UndoRuntime(ok)
               \/ UndoCandidate(ok) \/ UndoJournal(ok)
      BY <2>4 DEF CommitsJournal, UndoRoutes, UndoRuntime, UndoCandidate, UndoJournal
    <2>. QED
      BY <1>1, <2>1, <2>2, <2>3, <2>4 DEF CommitRestoreStep
  <1>2. ASSUME NEW ok \in BOOLEAN, RecoveryStep(ok) PROVE PcMeans'
    <2>1. CASE RecoverQuarantines(ok)
      BY <2>1 DEF RecoverQuarantines, Quarantines
    <2>2. CASE RecoverClearsQuarantine(ok)
      BY <2>2 DEF RecoverClearsQuarantine, durable, history, IInv, ReplacementIsSeen, RevivingPcs
    <2>3. CASE \E f \in Forwards : RecoverForward(f, ok)
      BY <2>3 DEF RecoverForward
    <2>4. CASE BootWithJournal \/ BootWithoutJournal(ok) \/ RecoverNeutralizes(ok) \/ RecoverRoutes(ok)
      BY <2>4 DEF BootWithJournal, BootWithoutJournal, RecoverNeutralizes, RecoverRoutes
    <2>5. CASE RecoverCheckpoint(ok) \/ RecoverForwardsDone \/ RecoverCommits(ok)
      BY <2>5 DEF RecoverCheckpoint, RecoverForwardsDone, RecoverCommits
    <2>. QED
      BY <1>2, <2>1, <2>2, <2>3, <2>4, <2>5 DEF RecoveryStep
  <1>3. ASSUME NEW ok \in BOOLEAN, ActivationStep(ok) PROVE PcMeans'
    BY <1>3 DEF ActivationStep, ActivatesRoutes, ActivatesForwards, ClearsQuarantine,
      ActivationSuspends, ActivationNeutralizes
  <1>4. CASE \E catalogToo \in BOOLEAN : UserEdits(catalogToo)
    <2>1. UNCHANGED <<journal, quarantine, pc, restored>> /\ (~meddled' => ~meddled)
      BY <1>4 DEF UserEdits
    <2>. QED
      BY <2>1 DEF IInv, ReplacementIsSeen
  <1>5. CASE \E f \in Forwards : ForwardStops(f)
    BY <1>5 DEF ForwardStops, durable, history, IInv, ReplacementIsSeen
  <1>6. CASE RestoreBegins \/ ActivationBegins \/ Restart \/ Crash
    BY <1>6 DEF RestoreBegins, ActivationBegins, Restart, Crash
  <1>7. CASE \/ \E ok \in BOOLEAN : UserReconciles(ok)
             \/ \E f \in Forwards : ForwardStarts(f)
    BY <1>7 DEF UserReconciles, ForwardStarts
  <1>8. CASE UNCHANGED vars
    BY <1>8 DEF vars, IInv, ReplacementIsSeen
  <1>. QED
    BY <1>1, <1>2, <1>3, <1>4, <1>5, <1>6, <1>7, <1>8 DEF Next, SystemStep, UserStep

\* A restored Vault is told by the journal.
SeenByJournal ==
  restored /\ Pending /\ ~meddled =>
    \/ AtLeast("vault_replaced")
    \/ journal.phase = "replacing_vault" /\ journal.before.storage < vault.storage

\* So recovery never takes a restored Vault for the old one.
LEMMA SeenStep == IInv /\ [Next]_vars => SeenByJournal'
  <1>. SUFFICES ASSUME IInv, [Next]_vars, restored', Pending', ~meddled'
                PROVE  \/ AtLeast("vault_replaced")'
                       \/ journal'.phase = "replacing_vault" /\ journal'.before.storage < vault'.storage
    BY DEF SeenByJournal
  <1>1. /\ vault.storage \in Nat /\ journal.before.storage \in Nat
        /\ journal.before.storage <= vault.storage
    BY DEF IInv, RevisionsGrow, Revisions, Journals
  <1>2. ~RestoreBegins
    BY RestoreBeginsClean
  <1>3. ASSUME NEW catalogToo \in BOOLEAN, UserEdits(catalogToo)
        PROVE  \/ AtLeast("vault_replaced")'
               \/ journal'.phase = "replacing_vault" /\ journal'.before.storage < vault'.storage
    <2>1. UNCHANGED journal /\ vault'.storage = vault.storage + 1 /\ restored /\ Pending /\ ~meddled
      BY <1>3 DEF UserEdits, Written, Pending
    <2>2. \/ AtLeast("vault_replaced")
          \/ journal.phase = "replacing_vault" /\ journal.before.storage < vault.storage
      BY <2>1 DEF IInv, ReplacementIsSeen
    <2>. QED
      BY <1>1, <2>1, <2>2 DEF AtLeast
  <1>4. ASSUME NEW ok \in BOOLEAN, ReplacesVault(ok)
        PROVE  journal'.phase = "replacing_vault" /\ journal'.before.storage < vault'.storage
    <2>1. ok
      BY <1>4 DEF ReplacesVault, IInv, ReplacementIsSeen, RestoringPcs
    <2>. QED
      BY <1>1, <1>4, <2>1 DEF ReplacesVault, Written, IInv, ReplacementIsSeen
  <1>5. CASE \A ok \in BOOLEAN : ~ReplacesVault(ok)
    <2>1. restored /\ ~meddled
      BY <1>2, <1>5, HistoryGrows
    <2>2. pc \notin RestoringPcs \cup UndoingPcs \cup RevivingPcs
      BY <2>1 DEF IInv, ReplacementIsSeen
    <2>3. ASSUME NEW ok \in BOOLEAN, FileStep(ok) PROVE AtLeast("vault_replaced")' \/ UNCHANGED <<vault, journal>>
      <3>1. CASE WritesJournal(ok)
        <4>1. UNCHANGED <<vault, journal>> \/ journal'.phase \in {"vault_replaced", "quarantined"}
          BY <2>2, <3>1 DEF WritesJournal, AfterPhase, RestoringPcs
        <4>. QED
          BY <4>1, PhaseFacts DEF AtLeast
      <3>2. CASE CommitsJournal(ok) \/ RecoverCommits(ok)
        BY <3>2 DEF CommitsJournal, RecoverCommits, Pending
      <3>3. CASE UndoJournal(ok) \/ RecoverCheckpoint(ok)
        BY <2>2, <3>3 DEF UndoJournal, RecoverCheckpoint, UndoingPcs, RevivingPcs
      <3>. QED
        BY <1>5, <2>3, <3>1, <3>2, <3>3 DEF FileStep
    <2>4. CASE UNCHANGED <<vault, journal>>
      <3>1. Pending
        BY <2>4 DEF Pending
      <3>2. \/ AtLeast("vault_replaced")
            \/ journal.phase = "replacing_vault" /\ journal.before.storage < vault.storage
        BY <2>1, <3>1 DEF IInv, ReplacementIsSeen
      <3>. QED
        BY <2>4, <3>2 DEF AtLeast
    <2>. QED
      BY <1>2, <1>3, <2>3, <2>4, FilesFrame
  <1>. QED
    BY <1>4, <1>5

-----------------------------------------------------------------------------
\* The quarantine is lifted over an old Vault, or by the end of an activation.
LEMMA QuarantineFrame ==
  ASSUME [Next]_vars, quarantine, \A ok \in BOOLEAN : ~RecoverClearsQuarantine(ok) /\ ~ClearsQuarantine(ok)
  PROVE  quarantine'
  <1>. USE DEF durable, Quarantines
  <1>1. ASSUME NEW ok \in BOOLEAN, CommitRestoreStep(ok) PROVE quarantine'
    <2>1. CASE PreparesCandidate(ok) \/ WritesJournal(ok) \/ Suspends(ok)
      BY <2>1 DEF PreparesCandidate, WritesJournal, Suspends
    <2>2. CASE NeutralizesRoutes(ok) \/ ReplacesVault(ok) \/ EntersQuarantine(ok) \/ CommitsJournal(ok)
      BY <2>2 DEF NeutralizesRoutes, ReplacesVault, EntersQuarantine, CommitsJournal
    <2>3. CASE UndoRoutes(ok) \/ UndoRuntime(ok) \/ UndoCandidate(ok) \/ UndoJournal(ok)
      BY <2>3 DEF UndoRoutes, UndoRuntime, UndoCandidate, UndoJournal
    <2>. QED
      BY <1>1, <2>1, <2>2, <2>3 DEF CommitRestoreStep
  <1>2. ASSUME NEW ok \in BOOLEAN, RecoveryStep(ok) PROVE quarantine'
    <2>1. CASE \E f \in Forwards : RecoverForward(f, ok)
      BY <2>1 DEF RecoverForward
    <2>2. CASE BootWithJournal \/ BootWithoutJournal(ok) \/ RecoverNeutralizes(ok) \/ RecoverRoutes(ok)
      BY <2>2 DEF BootWithJournal, BootWithoutJournal, RecoverNeutralizes, RecoverRoutes
    <2>3. CASE RecoverQuarantines(ok) \/ RecoverCheckpoint(ok) \/ RecoverForwardsDone \/ RecoverCommits(ok)
      BY <2>3 DEF RecoverQuarantines, RecoverCheckpoint, RecoverForwardsDone, RecoverCommits
    <2>. QED
      BY <1>2, <2>1, <2>2, <2>3 DEF RecoveryStep
  <1>3. ASSUME NEW ok \in BOOLEAN, ActivationStep(ok) PROVE quarantine'
    BY <1>3 DEF ActivationStep, ActivatesRoutes, ActivatesForwards, ActivationSuspends, ActivationNeutralizes
  <1>4. CASE RestoreBegins \/ ActivationBegins \/ Restart \/ Crash \/ UNCHANGED vars
    BY <1>4 DEF RestoreBegins, ActivationBegins, Restart, Crash, vars
  <1>5. CASE \/ \E ok \in BOOLEAN : UserReconciles(ok)
             \/ \E f \in Forwards : ForwardStarts(f) \/ ForwardStops(f)
             \/ \E catalogToo \in BOOLEAN : UserEdits(catalogToo)
    BY <1>5 DEF UserReconciles, ForwardStarts, ForwardStops, UserEdits
  <1>. QED
    BY <1>1, <1>2, <1>3, <1>4, <1>5 DEF Next, SystemStep, UserStep

\* The guard is up at every instant between two writes.
LEMMA GuardStep == IInv /\ [Next]_vars => NewVaultIsGuarded'
  <1>. SUFFICES ASSUME IInv, [Next]_vars, restored', ~meddled' PROVE quarantine' \/ Pending'
    BY DEF NewVaultIsGuarded
  <1>1. ~RestoreBegins
    BY RestoreBeginsClean
  <1>2. ASSUME NEW ok \in BOOLEAN, ReplacesVault(ok) PROVE Pending'
    BY <1>2 DEF ReplacesVault, Pending, NoJournal, IInv, ReplacementIsSeen
  <1>3. CASE \A ok \in BOOLEAN : ~ReplacesVault(ok)
    <2>1. restored /\ ~meddled
      BY <1>1, <1>3, HistoryGrows
    <2>2. pc \notin RestoringPcs \cup UndoingPcs \cup RevivingPcs
      BY <2>1 DEF IInv, ReplacementIsSeen
    <2>3. quarantine \/ Pending
      BY <2>1 DEF IInv, NewVaultIsGuarded
    <2>4. \A ok \in BOOLEAN : ~RecoverClearsQuarantine(ok)
      BY <2>2 DEF RecoverClearsQuarantine, RevivingPcs
    <2>5. ASSUME NEW ok \in BOOLEAN, ClearsQuarantine(ok) PROVE quarantine'
      BY <2>5 DEF ClearsQuarantine
    <2>6. CASE quarantine
      BY <2>4, <2>5, <2>6, QuarantineFrame
    <2>7. CASE ~quarantine
      <3>1. ASSUME NEW ok \in BOOLEAN, FileStep(ok) PROVE Pending'
        <4>1. CASE WritesJournal(ok)
          BY <2>3, <2>7, <4>1 DEF WritesJournal, AfterPhase, Pending, NoJournal
        <4>2. CASE CommitsJournal(ok) \/ RecoverCommits(ok)
          BY <2>1, <2>7, <4>2 DEF CommitsJournal, RecoverCommits, IInv, ReplacementIsSeen
        <4>3. CASE UndoJournal(ok) \/ RecoverCheckpoint(ok)
          BY <2>2, <4>3 DEF UndoJournal, RecoverCheckpoint, UndoingPcs, RevivingPcs
        <4>. QED
          BY <1>3, <3>1, <4>1, <4>2, <4>3 DEF FileStep
      <3>2. CASE UNCHANGED journal
        BY <2>3, <2>7, <3>2 DEF Pending
      <3>. QED
        BY <1>1, <3>1, <3>2, FilesFrame DEF UserEdits
    <2>. QED
      BY <2>6, <2>7
  <1>. QED
    BY <1>2, <1>3

\* While the runtime is suspended and the routes are neutral, they stay so.
LEMMA OffStep == IInv /\ [Next]_vars => EffectsAreOff'
  <1>. SUFFICES ASSUME IInv, [Next]_vars PROVE EffectsAreOff'
    OBVIOUS
  <1>. EffectsAreOff
    BY DEF IInv
  <1>. USE DEF EffectsAreOff, ActivatingPcs, GoesTo, Ends, Boots, network, history
  <1>1. ASSUME NEW ok \in BOOLEAN, CommitRestoreStep(ok) PROVE EffectsAreOff'
    <2>1. CASE WritesJournal(ok)
      <3>1. CASE ok
        BY <2>1, <3>1 DEF WritesJournal, AfterPhase
      <3>2. CASE ~ok
        BY <2>1, <3>2 DEF WritesJournal, Fails
      <3>. QED
        BY <3>1, <3>2
    <2>2. CASE PreparesCandidate(ok) \/ Suspends(ok)
      BY <2>2 DEF PreparesCandidate, Suspends
    <2>3. CASE NeutralizesRoutes(ok)
      BY <2>3 DEF NeutralizesRoutes, Neutralizes
    <2>4. CASE \/ ReplacesVault(ok) \/ EntersQuarantine(ok) \/ CommitsJournal(ok) \/ UndoRoutes(ok)
               \/ UndoRuntime(ok) \/ UndoCandidate(ok) \/ UndoJournal(ok)
      BY <2>4 DEF ReplacesVault, EntersQuarantine, CommitsJournal, UndoRoutes, UndoRuntime, UndoCandidate,
        UndoJournal
    <2>. QED
      BY <1>1, <2>1, <2>2, <2>3, <2>4 DEF CommitRestoreStep
  <1>2. ASSUME NEW ok \in BOOLEAN, RecoveryStep(ok) PROVE EffectsAreOff'
    <2>1. CASE \E f \in Forwards : RecoverForward(f, ok)
      BY <2>1 DEF RecoverForward
    <2>2. CASE BootWithJournal \/ BootWithoutJournal(ok) \/ RecoverNeutralizes(ok) \/ RecoverRoutes(ok)
      BY <2>2 DEF BootWithJournal, BootWithoutJournal, RecoverNeutralizes, RecoverRoutes
    <2>3. CASE \/ RecoverQuarantines(ok) \/ RecoverCheckpoint(ok) \/ RecoverForwardsDone
               \/ RecoverClearsQuarantine(ok) \/ RecoverCommits(ok)
      BY <2>3 DEF RecoverQuarantines, RecoverCheckpoint, RecoverForwardsDone, RecoverClearsQuarantine,
        RecoverCommits
    <2>. QED
      BY <1>2, <2>1, <2>2, <2>3 DEF RecoveryStep
  <1>3. ASSUME NEW ok \in BOOLEAN, ActivationStep(ok) PROVE EffectsAreOff'
    BY <1>3 DEF ActivationStep, ActivatesRoutes, ActivatesForwards, ClearsQuarantine,
      ActivationSuspends, ActivationNeutralizes
  <1>4. CASE RestoreBegins \/ ActivationBegins \/ Restart \/ Crash
    BY <1>4 DEF RestoreBegins, ActivationBegins, Restart, Crash
  <1>5. CASE \/ \E ok \in BOOLEAN : UserReconciles(ok)
             \/ \E f \in Forwards : ForwardStarts(f) \/ ForwardStops(f)
             \/ \E catalogToo \in BOOLEAN : UserEdits(catalogToo)
    BY <1>5 DEF UserReconciles, ForwardStarts, ForwardStops, UserEdits
  <1>6. CASE UNCHANGED vars
    BY <1>6 DEF vars
  <1>. QED
    BY <1>1, <1>2, <1>3, <1>4, <1>5, <1>6 DEF Next, SystemStep, UserStep

\* Only a replacement forgets that an activation was attempted.
LEMMA AttemptFrame ==
  ASSUME [Next]_vars, attempted, \A ok \in BOOLEAN : ~ReplacesVault(ok)
  PROVE  attempted'
  <1>. USE DEF history
  <1>1. ASSUME NEW ok \in BOOLEAN, CommitRestoreStep(ok) PROVE attempted'
    <2>1. CASE PreparesCandidate(ok) \/ WritesJournal(ok) \/ Suspends(ok)
      BY <2>1 DEF PreparesCandidate, WritesJournal, Suspends
    <2>2. CASE NeutralizesRoutes(ok) \/ EntersQuarantine(ok) \/ CommitsJournal(ok)
      BY <2>2 DEF NeutralizesRoutes, EntersQuarantine, CommitsJournal
    <2>3. CASE UndoRoutes(ok) \/ UndoRuntime(ok) \/ UndoCandidate(ok) \/ UndoJournal(ok)
      BY <2>3 DEF UndoRoutes, UndoRuntime, UndoCandidate, UndoJournal
    <2>. QED
      BY <1>1, <2>1, <2>2, <2>3 DEF CommitRestoreStep
  <1>2. ASSUME NEW ok \in BOOLEAN, RecoveryStep(ok) PROVE attempted'
    <2>1. CASE \E f \in Forwards : RecoverForward(f, ok)
      BY <2>1 DEF RecoverForward
    <2>2. CASE BootWithJournal \/ BootWithoutJournal(ok) \/ RecoverNeutralizes(ok) \/ RecoverRoutes(ok)
      BY <2>2 DEF BootWithJournal, BootWithoutJournal, RecoverNeutralizes, RecoverRoutes
    <2>3. CASE \/ RecoverQuarantines(ok) \/ RecoverCheckpoint(ok) \/ RecoverForwardsDone
               \/ RecoverClearsQuarantine(ok) \/ RecoverCommits(ok)
      BY <2>3 DEF RecoverQuarantines, RecoverCheckpoint, RecoverForwardsDone, RecoverClearsQuarantine,
        RecoverCommits
    <2>. QED
      BY <1>2, <2>1, <2>2, <2>3 DEF RecoveryStep
  <1>3. ASSUME NEW ok \in BOOLEAN, ActivationStep(ok) PROVE attempted'
    BY <1>3 DEF ActivationStep, ActivatesRoutes, ActivatesForwards, ClearsQuarantine,
      ActivationSuspends, ActivationNeutralizes
  <1>4. CASE RestoreBegins \/ ActivationBegins \/ Restart \/ Crash \/ UNCHANGED vars
    BY <1>4 DEF RestoreBegins, ActivationBegins, Restart, Crash, vars
  <1>5. CASE \/ \E ok \in BOOLEAN : UserReconciles(ok)
             \/ \E f \in Forwards : ForwardStarts(f) \/ ForwardStops(f)
             \/ \E catalogToo \in BOOLEAN : UserEdits(catalogToo)
    BY <1>5 DEF UserReconciles, ForwardStarts, ForwardStops, UserEdits
  <1>. QED
    BY <1>1, <1>2, <1>3, <1>4, <1>5 DEF Next, SystemStep, UserStep

\* What brings network effects about: an undone restore, a recovery that
\* revives, an activation, a user whose network is allowed.
Revives(ok) ==
  \/ UndoRoutes(ok) \/ UndoRuntime(ok) \/ RecoverRoutes(ok) \/ ActivatesRoutes(ok)
  \/ ActivatesForwards(ok) \/ UserReconciles(ok)
  \/ \E f \in Forwards : RecoverForward(f, ok) \/ ForwardStarts(f)

\* No effect on the network.
Quiet == running = {} /\ routes # "applied"
\* Nothing else disturbs a quiet network.
LEMMA QuietFrame ==
  ASSUME [Next]_vars, Quiet, \A ok \in BOOLEAN : ~Revives(ok)
  PROVE  Quiet'
  <1>. USE DEF Quiet, Revives, network, Boots, Neutralizes
  <1>1. ASSUME NEW ok \in BOOLEAN, CommitRestoreStep(ok) PROVE Quiet'
    <2>1. CASE PreparesCandidate(ok) \/ WritesJournal(ok) \/ Suspends(ok)
      BY <2>1 DEF PreparesCandidate, WritesJournal, Suspends
    <2>2. CASE NeutralizesRoutes(ok) \/ ReplacesVault(ok) \/ EntersQuarantine(ok) \/ CommitsJournal(ok)
      BY <2>2 DEF NeutralizesRoutes, ReplacesVault, EntersQuarantine, CommitsJournal
    <2>3. CASE UndoCandidate(ok) \/ UndoJournal(ok)
      BY <2>3 DEF UndoCandidate, UndoJournal
    <2>. QED
      BY <1>1, <2>1, <2>2, <2>3 DEF CommitRestoreStep
  <1>2. ASSUME NEW ok \in BOOLEAN, RecoveryStep(ok) PROVE Quiet'
    <2>1. CASE BootWithJournal \/ BootWithoutJournal(ok) \/ RecoverNeutralizes(ok)
      BY <2>1 DEF BootWithJournal, BootWithoutJournal, RecoverNeutralizes
    <2>2. CASE \/ RecoverQuarantines(ok) \/ RecoverCheckpoint(ok) \/ RecoverForwardsDone
               \/ RecoverClearsQuarantine(ok) \/ RecoverCommits(ok)
      BY <2>2 DEF RecoverQuarantines, RecoverCheckpoint, RecoverForwardsDone, RecoverClearsQuarantine,
        RecoverCommits
    <2>. QED
      BY <1>2, <2>1, <2>2 DEF RecoveryStep
  <1>3. ASSUME NEW ok \in BOOLEAN, ActivationStep(ok) PROVE Quiet'
    BY <1>3 DEF ActivationStep, ClearsQuarantine, ActivationSuspends, ActivationNeutralizes
  <1>4. CASE RestoreBegins \/ ActivationBegins \/ Restart \/ Crash \/ UNCHANGED vars
    BY <1>4 DEF RestoreBegins, ActivationBegins, Restart, Crash, vars
  <1>5. CASE \/ \E f \in Forwards : ForwardStops(f)
             \/ \E catalogToo \in BOOLEAN : UserEdits(catalogToo)
    BY <1>5 DEF ForwardStops, UserEdits
  <1>. QED
    BY <1>1, <1>2, <1>3, <1>4, <1>5 DEF Next, SystemStep, UserStep

\* A restored Vault stays quiet.
LEMMA QuietStep == IInv /\ [Next]_vars => NewVaultStaysQuiet'
  <1>. SUFFICES ASSUME IInv, [Next]_vars, restored', ~attempted', ~meddled' PROVE Quiet'
    BY DEF NewVaultStaysQuiet, Quiet
  <1>1. ~RestoreBegins
    BY RestoreBeginsClean
  <1>2. ASSUME NEW ok \in BOOLEAN, ReplacesVault(ok) PROVE Quiet'
    BY <1>2 DEF ReplacesVault, Quiet, network, IInv, EffectsAreOff
  <1>3. CASE \A ok \in BOOLEAN : ~ReplacesVault(ok)
    <2>1. restored /\ ~meddled /\ ~attempted
      BY <1>1, <1>3, HistoryGrows, AttemptFrame
    <2>2. Quiet
      BY <2>1 DEF IInv, NewVaultStaysQuiet, Quiet
    <2>3. pc \notin RestoringPcs \cup UndoingPcs \cup RevivingPcs
      BY <2>1 DEF IInv, ReplacementIsSeen
    <2>4. ~NetworkAllowed
      BY <2>1 DEF IInv, NewVaultIsGuarded, NetworkAllowed
    <2>5. pc \notin ActivatingPcs
      BY <2>1 DEF IInv, EffectsAreOff
    <2>6. \A ok \in BOOLEAN : ~Revives(ok)
      BY <2>3, <2>4, <2>5 DEF Revives, UndoRoutes, UndoRuntime, RecoverRoutes, RecoverForward,
        ActivatesRoutes, ActivatesForwards, UserReconciles, ForwardStarts, UndoingPcs, RevivingPcs,
        ActivatingPcs
    <2>. QED
      BY <2>2, <2>6, QuietFrame
  <1>. QED
    BY <1>2, <1>3

-----------------------------------------------------------------------------
\* The first state.
LEMMA InitIInv == Init => IInv
  <1>. SUFFICES ASSUME Init PROVE IInv
    OBVIOUS
  <1>. USE BoundsAssumption DEF Init
  <1>1. TypeOK
    <2>1. vault \in VaultStates /\ faults \in 0..MaxFaults
      BY DEF VaultStates, FirstVault
    <2>2. {routes, routesBefore} \subseteq RoutesStates /\ running \subseteq Forwards /\ suspended \subseteq Forwards
      BY DEF RoutesStates
    <2>3. {trusted, quarantine, restored, attempted, meddled} \subseteq BOOLEAN
      OBVIOUS
    <2>4. ~Pending /\ tx.plan \cup tx.captured \cup tx.started \subseteq Forwards
      BY DEF Pending, NoTx
    <2>. QED
      BY <2>1, <2>2, <2>3, <2>4 DEF TypeOK
  <1>2. LocalsKnown
    BY NoTxFacts DEF LocalsKnown, Pcs, RestoringPcs, ReplacedPcs
  <1>3. RevisionsGrow
    BY NoTxFacts, PhaseFacts DEF RevisionsGrow, Revisions, FirstVault, VaultStates, RestoringPcs
  <1>4. ReplacementIsSeen /\ EffectsAreOff
    BY DEF ReplacementIsSeen, EffectsAreOff, RestoringPcs, UndoingPcs, RevivingPcs, ActivatingPcs
  <1>5. NewVaultStaysQuiet /\ NewVaultIsGuarded
    BY DEF NewVaultStaysQuiet, NewVaultIsGuarded
  <1>. QED
    BY <1>1, <1>2, <1>3, <1>4, <1>5 DEF IInv

\* Every step.
LEMMA StepIInv == IInv /\ [Next]_vars => IInv'
  <1>. SUFFICES ASSUME IInv, [Next]_vars PROVE IInv'
    OBVIOUS
  <1>1. LocalsKnown' /\ RevisionsGrow' /\ vault' \in VaultStates
    BY LocalsStep, RevisionsStep
  <1>2. TypeOK'
    <2>1. (tx.plan \cup tx.captured \cup tx.started \subseteq Forwards)'
      BY <1>1 DEF LocalsKnown, Locals
    <2>2. (pc = "idle" => tx = NoTx)'
      BY <1>1 DEF LocalsKnown
    <2>3. EffectsTyped' /\ faults' \in 0..MaxFaults
      BY EffectsTypeStep, FaultsTypeStep
    <2>4. ({trusted, quarantine, restored, attempted, meddled} \subseteq BOOLEAN)'
      BY FlagsTypeStep DEF FlagsTyped
    <2>5. (Pending => journal \in [phase : JournalPhases, before : VaultStates, captured : SUBSET Forwards])'
      BY JournalStep
    <2>. QED
      BY <1>1, <2>1, <2>2, <2>3, <2>4, <2>5 DEF TypeOK, EffectsTyped
  <1>3. ReplacementIsSeen'
    <2>1. (pc \in OldVaultPcs /\ ~meddled => ~restored)'
      BY OldVaultStep
    <2>2. PcMeans' /\ SeenByJournal'
      BY PcMeansStep, SeenStep
    <2>. QED
      BY <2>1, <2>2 DEF ReplacementIsSeen, OldVaultPcs, PcMeans, SeenByJournal
  <1>. QED
    BY <1>1, <1>2, <1>3, OffStep, QuietStep, GuardStep DEF IInv

\* The inductive invariant of the restore.
LEMMA RestoreInvariant == Spec => []IInv
  BY InitIInv, StepIInv, PTL DEF Spec

\* Every reachable state of a restore is well typed.
THEOREM RestoreTypeCorrect == Spec => []TypeOK
  <1>. IInv => TypeOK
    BY DEF IInv
  <1>. QED
    BY RestoreInvariant, PTL

\* A restored Vault is in quarantine, or a journal is there to put it into one,
\* whatever failed or crashed (backup_restore.go:240, restore.go:244).
THEOREM RestoredVaultIsGuarded == Spec => []NewVaultIsGuarded
  <1>. IInv => NewVaultIsGuarded
    BY DEF IInv
  <1>. QED
    BY RestoreInvariant, PTL

\* A restored Vault touches no network before an activation of it is begun
\* (restore.go:214, service.go:1579).
THEOREM RestoredVaultIsQuiet == Spec => []NewVaultStaysQuiet
  <1>. IInv => NewVaultStaysQuiet
    BY DEF IInv
  <1>. QED
    BY RestoreInvariant, PTL

-----------------------------------------------------------------------------
\* What AbortRestoresAll rests on: a lemma per conjunct of AbortInv.

RestorePcs == RestoringPcs \cup UndoingPcs \cup ReplacedPcs

\* Nobody else has the steps of a restore; a Stop may come in between.
LEMMA RestoreIsAlone ==
  ASSUME [Next]_vars, ~RestoreBegins, \A ok \in BOOLEAN : ~CommitRestoreStep(ok)
  PROVE  \/ pc' \notin RestorePcs
         \/ /\ UNCHANGED <<pc, tx, suspended, routes, routesBefore, journal>>
            /\ running' \subseteq running
  <1>. USE DEF RestorePcs, RestoringPcs, UndoingPcs, ReplacedPcs, GoesTo, Ends, Boots
  <1>1. ASSUME NEW ok \in BOOLEAN, RecoveryStep(ok) PROVE pc' \notin RestorePcs
    <2>1. CASE \E f \in Forwards : RecoverForward(f, ok)
      BY <2>1 DEF RecoverForward
    <2>2. CASE BootWithJournal \/ BootWithoutJournal(ok) \/ RecoverNeutralizes(ok) \/ RecoverRoutes(ok)
      BY <2>2 DEF BootWithJournal, BootWithoutJournal, RecoverNeutralizes, RecoverRoutes
    <2>3. CASE \/ RecoverQuarantines(ok) \/ RecoverCheckpoint(ok) \/ RecoverForwardsDone
               \/ RecoverClearsQuarantine(ok) \/ RecoverCommits(ok)
      BY <2>3 DEF RecoverQuarantines, RecoverCheckpoint, RecoverForwardsDone, RecoverClearsQuarantine,
        RecoverCommits
    <2>. QED
      BY <1>1, <2>1, <2>2, <2>3 DEF RecoveryStep
  <1>2. ASSUME NEW ok \in BOOLEAN, ActivationStep(ok) PROVE pc' \notin RestorePcs
    BY <1>2 DEF ActivationStep, ActivatesRoutes, ActivatesForwards, ClearsQuarantine,
      ActivationSuspends, ActivationNeutralizes
  <1>3. CASE ActivationBegins \/ Restart \/ Crash
    BY <1>3 DEF ActivationBegins, Restart, Crash
  <1>4. CASE \/ \E ok \in BOOLEAN : UserReconciles(ok)
             \/ \E f \in Forwards : ForwardStarts(f)
    BY <1>4 DEF UserReconciles, ForwardStarts
  <1>5. CASE \/ \E f \in Forwards : ForwardStops(f)
             \/ \E catalogToo \in BOOLEAN : UserEdits(catalogToo)
    BY <1>5 DEF ForwardStops, UserEdits, durable, history, network
  <1>6. CASE UNCHANGED vars
    BY <1>6 DEF vars
  <1>. QED
    BY <1>1, <1>2, <1>3, <1>4, <1>5, <1>6 DEF Next, SystemStep, UserStep

\* What a failing step of the compensation leaves for the rest of it.
LEMMA TryingIs ==
  ASSUME tx \in Locals, NEW ok \in BOOLEAN, Tries(ok)
  PROVE  /\ tx'.plan = tx.plan /\ tx'.captured = tx.captured
         /\ tx'.neutralized = tx.neutralized /\ tx'.before = tx.before
         /\ ~tx'.failed => ok /\ ~tx.failed
  <1>1. tx' = [tx EXCEPT !.failed = tx.failed \/ ~ok]
    BY DEF Tries
  <1>2. PICK f \in BOOLEAN : f = (tx.failed \/ ~ok)
    OBVIOUS
  <1>3. /\ tx'.plan = tx.plan /\ tx'.captured = tx.captured
        /\ tx'.neutralized = tx.neutralized /\ tx'.before = tx.before /\ tx'.failed = f
    BY <1>1, <1>2 DEF Locals
  <1>4. ~f => ok /\ ~tx.failed
    BY <1>2
  <1>. QED
    BY <1>3, <1>4

\* The plan is known until all of it runs again.
LEMMA PlanStep == IInv /\ AbortInv /\ [Next]_vars => PlanIsKnown'
  <1>. SUFFICES ASSUME IInv, AbortInv, [Next]_vars PROVE PlanIsKnown'
    OBVIOUS
  <1>. PlanIsKnown /\ tx \in Locals
    BY DEF AbortInv, IInv, LocalsKnown
  <1>. USE DEF PlanIsKnown, EarlyPcs, RestoringPcs, ReplacedPcs, GoesTo, Ends, network, history, durable
  <1>1. ASSUME NEW ok \in BOOLEAN, CommitRestoreStep(ok) PROVE PlanIsKnown'
    <2>1. CASE PreparesCandidate(ok)
      <3>1. tx'.plan = tx.plan /\ tx'.captured = tx.captured
        BY <2>1 DEF PreparesCandidate, Locals
      <3>. QED
        BY <2>1, <3>1 DEF PreparesCandidate
    <2>2. CASE WritesJournal(ok)
      <3>1. CASE ok
        BY <2>2, <3>1 DEF WritesJournal, AfterPhase
      <3>2. CASE ~ok
        BY <2>2, <3>2 DEF WritesJournal, AfterPhase, Fails, IInv, LocalsKnown
      <3>. QED
        BY <3>1, <3>2
    <2>3. CASE Suspends(ok)
      <3>1. suspended = {} /\ pc' \in {"runtime_suspended", "undoRoutes"} /\ suspended' = running
        BY <2>3 DEF Suspends
      <3>2. tx'.plan = running /\ (ok => tx'.captured = running)
        BY <2>3 DEF Suspends, Locals
      <3>3. ~ok => pc' = "undoRoutes"
        BY <2>3 DEF Suspends
      <3>. QED
        BY <3>1, <3>2, <3>3
    <2>4. CASE NeutralizesRoutes(ok) \/ ReplacesVault(ok)
      <3>1. tx'.plan = tx.plan /\ tx'.captured = tx.captured
        BY <2>4 DEF NeutralizesRoutes, ReplacesVault, Locals
      <3>. QED
        BY <2>4, <3>1 DEF NeutralizesRoutes, ReplacesVault
    <2>5. CASE EntersQuarantine(ok) \/ CommitsJournal(ok) \/ UndoJournal(ok)
      BY <2>5 DEF EntersQuarantine, CommitsJournal, UndoJournal
    <2>6. CASE UndoRoutes(ok)
      <3>1. tx'.plan = tx.plan
        BY <2>6, TryingIs DEF UndoRoutes
      <3>. QED
        BY <2>6, <3>1 DEF UndoRoutes
    <2>7. CASE UndoRuntime(ok)
      <3>1. PICK back \in SUBSET tx.plan : (back = tx.plan) = ok /\ suspended' = suspended \ back
        BY <2>7 DEF UndoRuntime
      <3>2. suspended \subseteq tx.plan /\ pc' = "undoCandidate"
        BY <2>7 DEF UndoRuntime
      <3>3. ~tx'.failed => ok
        BY <2>7, TryingIs DEF UndoRuntime
      <3>4. ok => suspended' = {}
        BY <3>1, <3>2
      <3>. QED
        BY <3>2, <3>3, <3>4
    <2>8. CASE UndoCandidate(ok)
      <3>1. ~tx'.failed => ~tx.failed
        BY <2>8, TryingIs DEF UndoCandidate
      <3>. QED
        BY <2>8, <3>1 DEF UndoCandidate
    <2>. QED
      BY <1>1, <2>1, <2>2, <2>3, <2>4, <2>5, <2>6, <2>7, <2>8 DEF CommitRestoreStep
  <1>2. CASE RestoreBegins
    <2>1. tx'.captured = running
      BY <1>2 DEF RestoreBegins, NoTx
    <2>. QED
      BY <1>2, <2>1 DEF RestoreBegins
  <1>3. CASE pc' \notin RestorePcs
    BY <1>3 DEF RestorePcs, UndoingPcs
  <1>4. CASE UNCHANGED <<pc, tx, suspended, journal>> /\ running' \subseteq running
    BY <1>4
  <1>. QED
    BY <1>1, <1>2, <1>3, <1>4, RestoreIsAlone

\* Only a neutralization that succeeded leaves neutral what was in effect.
LEMMA RoutesStep == IInv /\ AbortInv /\ [Next]_vars => RoutesAreKnown'
  <1>. SUFFICES ASSUME IInv, AbortInv, [Next]_vars PROVE RoutesAreKnown'
    OBVIOUS
  <1>. RoutesAreKnown /\ tx \in Locals
    BY DEF AbortInv, IInv, LocalsKnown
  <1>. USE DEF RoutesAreKnown, RoutesAreBack, EarlyPcs, RestoringPcs, GoesTo, Ends, network, history, durable
  <1>1. ASSUME NEW ok \in BOOLEAN, CommitRestoreStep(ok) PROVE RoutesAreKnown'
    <2>1. CASE PreparesCandidate(ok) \/ Suspends(ok)
      <3>1. tx'.neutralized = tx.neutralized
        BY <2>1 DEF PreparesCandidate, Suspends, Locals
      <3>. QED
        BY <2>1, <3>1 DEF PreparesCandidate, Suspends
    <2>2. CASE WritesJournal(ok)
      <3>1. CASE ok
        BY <2>2, <3>1 DEF WritesJournal, AfterPhase, IInv, LocalsKnown
      <3>2. CASE ~ok
        BY <2>2, <3>2 DEF WritesJournal, AfterPhase, Fails, IInv, LocalsKnown, ReplacedPcs
      <3>. QED
        BY <3>1, <3>2
    <2>3. CASE NeutralizesRoutes(ok)
      <3>1. tx'.neutralized = ok /\ RoutesAreBack
        BY <2>3 DEF NeutralizesRoutes, Locals
      <3>2. CASE ok
        BY <2>3, <3>1, <3>2 DEF NeutralizesRoutes
      <3>3. CASE ~ok
        BY <2>3, <3>1, <3>3 DEF NeutralizesRoutes, Neutralizes
      <3>. QED
        BY <3>2, <3>3
    <2>4. CASE ReplacesVault(ok)
      <3>1. tx'.neutralized = tx.neutralized
        BY <2>4 DEF ReplacesVault, Locals
      <3>. QED
        BY <2>4, <3>1 DEF ReplacesVault
    <2>5. CASE EntersQuarantine(ok) \/ CommitsJournal(ok) \/ UndoJournal(ok)
      BY <2>5 DEF EntersQuarantine, CommitsJournal, UndoJournal
    <2>6. CASE UndoRoutes(ok)
      <3>1. CASE ~tx.neutralized
        BY <2>6, <3>1 DEF UndoRoutes
      <3>2. CASE tx.neutralized
        <4>1. ~tx'.failed => ok
          BY <2>6, <3>2, TryingIs DEF UndoRoutes
        <4>2. ok => routes' = "applied"
          BY <2>6, <3>2 DEF UndoRoutes, Reconciles
        <4>. QED
          BY <2>6, <4>1, <4>2 DEF UndoRoutes
      <3>. QED
        BY <3>1, <3>2
    <2>7. CASE UndoRuntime(ok) \/ UndoCandidate(ok)
      <3>1. ~tx'.failed => ~tx.failed
        BY <2>7, TryingIs DEF UndoRuntime, UndoCandidate
      <3>. QED
        BY <2>7, <3>1 DEF UndoRuntime, UndoCandidate
    <2>. QED
      BY <1>1, <2>1, <2>2, <2>3, <2>4, <2>5, <2>6, <2>7 DEF CommitRestoreStep
  <1>2. CASE RestoreBegins
    <2>1. ~tx'.neutralized
      BY <1>2 DEF RestoreBegins, NoTx
    <2>. QED
      BY <1>2, <2>1 DEF RestoreBegins
  <1>3. CASE pc' \notin RestorePcs
    BY <1>3 DEF RestorePcs, UndoingPcs
  <1>4. CASE UNCHANGED <<pc, tx, routes, routesBefore>>
    BY <1>4
  <1>. QED
    BY <1>1, <1>2, <1>3, <1>4, RestoreIsAlone

\* The phases from which a journal tells of a suspended runtime, and of a replaced Vault.
LEMMA PhasesReached ==
  ASSUME NEW p \in DOMAIN PhaseOrder
  PROVE  /\ PhaseOrder[p] >= PhaseOrder["vault_replaced"] <=> p \in {"vault_replaced", "quarantined"}
         /\ PhaseOrder[p] >= PhaseOrder["runtime_suspending"]
              <=> p \notin {"none", "planned", "candidate_prepared"}
  BY DEF PhaseOrder

\* The revisions are numbers that only grow, and a journal has a phase.
LEMMA RevisionFacts ==
  ASSUME IInv, [Next]_vars
  PROVE  /\ vault.storage \in Nat /\ tx.before.storage \in Nat /\ journal.before.storage \in Nat
         /\ tx.before.storage <= vault.storage /\ journal.before.storage <= vault.storage
         /\ journal.phase \in DOMAIN PhaseOrder /\ journal'.phase \in DOMAIN PhaseOrder
         /\ Pending => journal.phase # "none"
         /\ ~Pending => journal.phase = "none"
  <1>1. journal' \in Journals
    BY RevisionsStep DEF RevisionsGrow
  <1>2. Pending => journal.phase # "none"
    BY PhaseFacts DEF IInv, TypeOK
  <1>3. ~Pending => journal.phase = "none"
    BY DEF Pending, NoJournal
  <1>. QED
    BY <1>1, <1>2, <1>3 DEF IInv, RevisionsGrow, LocalsKnown, Revisions, Locals, Journals

\* The effects and the files as a step that touches none of them leaves them.
LEMMA AheadFrame ==
  ASSUME JournalIsAhead, UNCHANGED <<vault, journal>>, routesBefore' = routesBefore,
         suspended' \subseteq suspended, routes' \in {routes, "applied"},
         pc' \notin {"suspend", "neutralize"} \cup ActivatingPcs \cup ReplacedPcs
  PROVE  JournalIsAhead'
  BY DEF JournalIsAhead, RoutesAreBack, Pending, AtLeast

\* Without a journal there is nothing to be ahead of.
LEMMA AheadWithoutJournal ==
  ASSUME journal' = NoJournal, pc' \notin {"suspend", "neutralize"} \cup ReplacedPcs
  PROVE  JournalIsAhead'
  BY DEF JournalIsAhead, NoJournal, Pending, AtLeast, PhaseOrder

LEMMA AheadInRestore ==
  ASSUME IInv, AbortInv, [Next]_vars, NEW ok \in BOOLEAN, CommitRestoreStep(ok)
  PROVE  JournalIsAhead'
  <1>. JournalIsAhead /\ PlanIsKnown /\ RoutesAreKnown /\ tx \in Locals
    BY DEF AbortInv, IInv, LocalsKnown
  <1>. USE DEF ActivatingPcs, ReplacedPcs, GoesTo, Ends, network, history, durable
  <1>1. CASE PreparesCandidate(ok)
    BY <1>1, AheadFrame DEF PreparesCandidate
  <1>2. CASE WritesJournal(ok)
    <2>0. UNCHANGED <<vault, suspended, routes, routesBefore>>
      BY <1>2 DEF WritesJournal
    <2>1. CASE ok
      <3>1. /\ journal'.phase = pc /\ journal'.before = tx.before /\ journal'.captured = tx.captured
            /\ pc \in DOMAIN AfterPhase /\ pc' = AfterPhase[pc] /\ UNCHANGED tx
        BY <1>2, <2>1 DEF WritesJournal
      <3>2. pc = "candidate_prepared" => suspended = {} /\ RoutesAreBack
        BY DEF PlanIsKnown, RoutesAreKnown, EarlyPcs, RestoringPcs
      <3>3. suspended \subseteq tx.captured
        BY <3>1 DEF PlanIsKnown, RestoringPcs, AfterPhase
      <3>4. pc \in ReplacedPcs => tx.before.storage < vault.storage
        BY DEF JournalIsAhead
      <3>5. pc' \in ReplacedPcs => pc \in ReplacedPcs
        BY <3>1 DEF AfterPhase
      <3>6. (pc' = "suspend" => pc = "runtime_suspending")
            /\ (pc' = "neutralize" => pc = "runtime_suspended") /\ pc' \notin ActivatingPcs
            /\ pc # "planned"
        BY <3>1 DEF AfterPhase
      <3>7. AtLeast("vault_replaced")' => pc \in ReplacedPcs
        BY <3>1, RevisionFacts, PhasesReached DEF AtLeast
      <3>. QED
        BY <2>0, <3>1, <3>2, <3>3, <3>4, <3>5, <3>6, <3>7 DEF JournalIsAhead, RoutesAreBack
    <2>2. CASE ~ok
      <3>1. UNCHANGED journal /\ pc' \in {"idle", "undoRoutes"}
        BY <1>2, <2>2 DEF WritesJournal, Fails
      <3>. QED
        BY <2>0, <3>1, AheadFrame
    <2>. QED
      BY <2>1, <2>2
  <1>3. CASE Suspends(ok)
    <2>1. /\ journal.phase = "runtime_suspending" /\ suspended' \subseteq journal.captured
          /\ UNCHANGED <<vault, journal>> /\ pc' \in {"runtime_suspended", "undoRoutes"}
      BY <1>3 DEF Suspends, JournalIsAhead, PlanIsKnown, EarlyPcs
    <2>. QED
      BY <2>1 DEF JournalIsAhead, AtLeast
  <1>4. CASE NeutralizesRoutes(ok)
    <2>1. /\ journal.phase = "runtime_suspended"
          /\ UNCHANGED <<vault, journal, suspended>> /\ pc' \in {"routes_neutralized", "undoRoutes"}
      BY <1>4 DEF NeutralizesRoutes, JournalIsAhead
    <2>. QED
      BY <2>1 DEF JournalIsAhead, AtLeast, Pending
  <1>5. CASE ReplacesVault(ok)
    <2>1. /\ UNCHANGED <<journal, suspended, routes, routesBefore>>
          /\ pc' = IF ok THEN "vault_replaced" ELSE "undoRoutes"
          /\ tx'.before = tx.before /\ pc = "replace"
      BY <1>5 DEF ReplacesVault, Locals
    <2>2. CASE ok
      <3>1. vault'.storage = vault.storage + 1
        BY <1>5, <2>2 DEF ReplacesVault, Written
      <3>. QED
        BY <2>1, <2>2, <3>1, RevisionFacts DEF JournalIsAhead, RoutesAreBack, Pending, AtLeast
    <2>3. CASE ~ok
      BY <1>5, <2>1, <2>3, AheadFrame DEF ReplacesVault
    <2>. QED
      BY <2>2, <2>3
  <1>6. CASE EntersQuarantine(ok)
    <2>1. /\ UNCHANGED <<vault, journal, suspended, routes, routesBefore>>
          /\ pc = "quarantine" /\ pc' \in {"idle", "quarantined"}
          /\ (pc' = "quarantined" => tx' = tx)
      BY <1>6 DEF EntersQuarantine
    <2>. QED
      BY <2>1 DEF JournalIsAhead, RoutesAreBack, Pending, AtLeast
  <1>7. CASE CommitsJournal(ok) \/ UndoJournal(ok)
    <2>1. /\ UNCHANGED <<vault, suspended, routes, routesBefore>> /\ pc' = "idle"
          /\ journal' \in {NoJournal, journal}
      BY <1>7 DEF CommitsJournal, UndoJournal
    <2>. QED
      BY <2>1, AheadFrame, AheadWithoutJournal
  <1>8. CASE UndoRoutes(ok)
    <2>1. routes' \in {routes, "applied"}
      BY <1>8 DEF UndoRoutes, Reconciles
    <2>. QED
      BY <1>8, <2>1, AheadFrame DEF UndoRoutes
  <1>9. CASE UndoRuntime(ok)
    <2>1. suspended' \subseteq suspended
      BY <1>9 DEF UndoRuntime
    <2>. QED
      BY <1>9, <2>1, AheadFrame DEF UndoRuntime
  <1>10. CASE UndoCandidate(ok)
    BY <1>10, AheadFrame DEF UndoCandidate
  <1>. QED
    BY <1>1, <1>2, <1>3, <1>4, <1>5, <1>6, <1>7, <1>8, <1>9, <1>10 DEF CommitRestoreStep

LEMMA AheadInRecovery ==
  ASSUME IInv, AbortInv, [Next]_vars, NEW ok \in BOOLEAN, RecoveryStep(ok)
  PROVE  JournalIsAhead'
  <1>. JournalIsAhead /\ RecoveryIsComplete
    BY DEF AbortInv
  <1>. USE DEF ActivatingPcs, ReplacedPcs, GoesTo, Ends, network, history, durable
  <1>1. CASE BootWithJournal
    BY <1>1, AheadFrame DEF BootWithJournal
  <1>2. CASE BootWithoutJournal(ok)
    BY <1>2, AheadWithoutJournal DEF BootWithoutJournal, Pending
  <1>3. CASE RecoverNeutralizes(ok)
    <2>1. /\ journal.phase \notin {"planned", "candidate_prepared"}
          /\ UNCHANGED <<vault, journal, suspended>> /\ pc' \in {"rQuarantine", "idle"}
      BY <1>3 DEF RecoverNeutralizes, RecoveryIsComplete
    <2>. QED
      BY <2>1 DEF JournalIsAhead, AtLeast, Pending
  <1>4. CASE RecoverQuarantines(ok) \/ RecoverClearsQuarantine(ok) \/ RecoverForwardsDone
    BY <1>4, AheadFrame DEF RecoverQuarantines, RecoverClearsQuarantine, RecoverForwardsDone
  <1>5. CASE RecoverRoutes(ok)
    <2>1. routes' \in {routes, "applied"}
      BY <1>5 DEF RecoverRoutes, Reconciles
    <2>. QED
      BY <1>5, <2>1, AheadFrame DEF RecoverRoutes
  <1>6. ASSUME NEW f \in Forwards, RecoverForward(f, ok) PROVE JournalIsAhead'
    <2>1. suspended' \subseteq suspended /\ pc' \in {"rForwards", "idle"}
          /\ UNCHANGED <<vault, journal, routes, routesBefore>>
      BY <1>6 DEF RecoverForward
    <2>. QED
      BY <2>1, AheadFrame
  <1>7. CASE RecoverCheckpoint(ok)
    <2>1. /\ UNCHANGED <<vault, suspended, routes, routesBefore>> /\ pc' \in {"rForwards", "idle"}
          /\ suspended \cap tx.started = {} /\ Pending
      BY <1>7 DEF RecoverCheckpoint, RecoveryIsComplete
    <2>2. CASE ok
      <3>1. /\ journal'.phase = journal.phase /\ journal'.before = journal.before
            /\ journal'.captured = journal.captured \ tx.started
        BY <1>7, <2>2 DEF RecoverCheckpoint, IInv, RevisionsGrow, Journals
      <3>. QED
        BY <2>1, <3>1 DEF JournalIsAhead, RoutesAreBack, AtLeast
    <2>3. CASE ~ok
      BY <1>7, <2>1, <2>3, AheadFrame DEF RecoverCheckpoint
    <2>. QED
      BY <2>2, <2>3
  <1>8. CASE RecoverCommits(ok)
    <2>1. /\ UNCHANGED <<vault, suspended, routes, routesBefore>> /\ pc' = "idle"
          /\ journal' \in {NoJournal, journal}
      BY <1>8 DEF RecoverCommits
    <2>. QED
      BY <2>1, AheadFrame, AheadWithoutJournal
  <1>. QED
    BY <1>1, <1>2, <1>3, <1>4, <1>5, <1>6, <1>7, <1>8 DEF RecoveryStep

\* The journal is ahead of every effect.
LEMMA AheadStep == IInv /\ AbortInv /\ [Next]_vars => JournalIsAhead'
  <1>. SUFFICES ASSUME IInv, AbortInv, [Next]_vars PROVE JournalIsAhead'
    OBVIOUS
  <1>. JournalIsAhead
    BY DEF AbortInv
  <1>. USE DEF ActivatingPcs, ReplacedPcs, GoesTo, Boots, network, history, durable
  <1>1. ASSUME NEW ok \in BOOLEAN, ActivationStep(ok) PROVE JournalIsAhead'
    <2>1. pc \in ActivatingPcs /\ journal' = journal /\ pc' \in {"idle"} \cup ActivatingPcs
      BY <1>1 DEF ActivationStep, ActivatesRoutes, ActivatesForwards, ClearsQuarantine,
        ActivationSuspends, ActivationNeutralizes
    <2>2. journal' = NoJournal
      BY <2>1 DEF JournalIsAhead, Pending
    <2>. QED
      BY <2>1, <2>2, AheadWithoutJournal
  <1>2. CASE ActivationBegins
    BY <1>2, AheadWithoutJournal DEF ActivationBegins, Pending
  <1>3. CASE RestoreBegins
    <2>1. /\ journal'.phase = "planned" /\ suspended' = {} /\ routesBefore' = routes /\ routes' = routes
          /\ pc' = "prepare"
      BY <1>3 DEF RestoreBegins
    <2>2. ~AtLeast("vault_replaced")'
      BY <2>1, RevisionFacts, PhasesReached DEF AtLeast
    <2>. QED
      BY <2>1, <2>2 DEF JournalIsAhead, RoutesAreBack
  <1>4. ASSUME NEW catalogToo \in BOOLEAN, UserEdits(catalogToo) PROVE JournalIsAhead'
    <2>1. /\ UNCHANGED <<journal, suspended, routes, routesBefore, pc, tx>>
          /\ vault'.storage = vault.storage + 1
      BY <1>4 DEF UserEdits, Written
    <2>. QED
      BY <2>1, RevisionFacts DEF JournalIsAhead, RoutesAreBack, Pending, AtLeast
  <1>5. ASSUME NEW ok \in BOOLEAN, UserReconciles(ok) PROVE JournalIsAhead'
    BY <1>5, AheadWithoutJournal DEF UserReconciles, NetworkAllowed, Pending
  <1>6. ASSUME \/ Crash \/ Restart \/ UNCHANGED vars
               \/ \E f \in Forwards : ForwardStarts(f) \/ ForwardStops(f)
        PROVE  JournalIsAhead'
    <2>1. /\ UNCHANGED <<vault, journal, suspended, routes, routesBefore>>
          /\ pc' = "boot" \/ UNCHANGED <<pc, tx>>
      BY <1>6 DEF Crash, Restart, ForwardStarts, ForwardStops, vars
    <2>2. CASE pc' = "boot"
      BY <2>1, <2>2, AheadFrame
    <2>3. CASE UNCHANGED <<pc, tx>>
      BY <2>1, <2>3 DEF JournalIsAhead, RoutesAreBack, Pending, AtLeast
    <2>. QED
      BY <2>1, <2>2, <2>3
  <1>. QED
    BY <1>1, <1>2, <1>3, <1>4, <1>5, <1>6, AheadInRestore, AheadInRecovery DEF Next, SystemStep, UserStep

\* A recovery goes on by its own steps, with an edit or a Stop in between.
LEMMA RecoveryIsAlone ==
  ASSUME [Next]_vars, \A ok \in BOOLEAN : ~RecoveryStep(ok),
         \A catalogToo \in BOOLEAN : ~UserEdits(catalogToo)
  PROVE  \/ pc' \notin RecoveringPcs \ {"boot"}
         \/ UNCHANGED <<pc, tx, vault, journal, suspended, routes, routesBefore>>
  <1>. USE DEF RecoveringPcs, RevivingPcs, GoesTo, Ends, Boots
  <1>1. ASSUME NEW ok \in BOOLEAN, CommitRestoreStep(ok) PROVE pc' \notin RecoveringPcs
    <2>1. CASE WritesJournal(ok)
      BY <2>1 DEF WritesJournal, AfterPhase, Fails
    <2>2. CASE PreparesCandidate(ok) \/ Suspends(ok) \/ NeutralizesRoutes(ok) \/ ReplacesVault(ok)
      BY <2>2 DEF PreparesCandidate, Suspends, NeutralizesRoutes, ReplacesVault
    <2>3. CASE EntersQuarantine(ok) \/ CommitsJournal(ok)
      BY <2>3 DEF EntersQuarantine, CommitsJournal
    <2>4. CASE UndoRoutes(ok) \/ UndoRuntime(ok) \/ UndoCandidate(ok) \/ UndoJournal(ok)
      BY <2>4 DEF UndoRoutes, UndoRuntime, UndoCandidate, UndoJournal
    <2>. QED
      BY <1>1, <2>1, <2>2, <2>3, <2>4 DEF CommitRestoreStep
  <1>2. ASSUME NEW ok \in BOOLEAN, ActivationStep(ok) PROVE pc' \notin RecoveringPcs
    BY <1>2 DEF ActivationStep, ActivatesRoutes, ActivatesForwards, ClearsQuarantine,
      ActivationSuspends, ActivationNeutralizes
  <1>3. CASE RestoreBegins \/ ActivationBegins \/ Restart \/ Crash
    BY <1>3 DEF RestoreBegins, ActivationBegins, Restart, Crash
  <1>4. CASE \/ \E ok \in BOOLEAN : UserReconciles(ok)
             \/ \E f \in Forwards : ForwardStarts(f)
    BY <1>4 DEF UserReconciles, ForwardStarts
  <1>5. CASE (\E f \in Forwards : ForwardStops(f)) \/ UNCHANGED vars
    BY <1>5 DEF ForwardStops, durable, history, vars
  <1>. QED
    BY <1>1, <1>2, <1>3, <1>4, <1>5 DEF Next, SystemStep, UserStep

\* A recovery commits when the Vault is the new one, or all is back.
LEMMA RecoveryCompleteStep == IInv /\ AbortInv /\ [Next]_vars => RecoveryIsComplete'
  <1>. SUFFICES ASSUME IInv, AbortInv, [Next]_vars PROVE RecoveryIsComplete'
    OBVIOUS
  <1>. RecoveryIsComplete /\ JournalIsAhead
    BY DEF AbortInv
  <1>. USE DEF RecoveryIsComplete, RoutesAreBack, GoesTo, Ends, network, history, durable
  <1>1. ASSUME NEW ok \in BOOLEAN, RecoveryStep(ok) PROVE RecoveryIsComplete'
    <2>1. CASE BootWithJournal
      <3>0. /\ UNCHANGED <<vault, journal, suspended, routes, routesBefore>> /\ Pending
            /\ pc' \in {"rNeutralize", "idle", "rRoutes", "rClear"}
        BY <2>1 DEF BootWithJournal
      <3>1. ASSUME pc' = "rNeutralize"
            PROVE  vault # journal.before /\ journal.phase \notin {"planned", "candidate_prepared"}
        <4>1. Replaced
          BY <2>1, <3>1 DEF BootWithJournal
        <4>2. CASE AtLeast("vault_replaced")
          <5>1. journal.phase \in {"vault_replaced", "quarantined"}
            BY <4>2, RevisionFacts, PhasesReached DEF AtLeast
          <5>2. journal.before.storage < vault.storage
            BY <4>2 DEF JournalIsAhead
          <5>. QED
            BY <5>1, <5>2, RevisionFacts
        <4>. QED
          BY <4>1, <4>2 DEF Replaced
      <3>2. ASSUME pc' = "rClear" PROVE suspended = {} /\ RoutesAreBack
        <4>1. ~AtLeast("runtime_suspending")
          BY <2>1, <3>2 DEF BootWithJournal
        <4>2. journal.phase \in {"planned", "candidate_prepared"}
          BY <3>0, <4>1, RevisionFacts, PhasesReached DEF AtLeast
        <4>. QED
          BY <4>2 DEF JournalIsAhead
      <3>. QED
        BY <3>0, <3>1, <3>2 DEF Pending
    <2>2. CASE BootWithoutJournal(ok) \/ RecoverCommits(ok)
      BY <2>2 DEF BootWithoutJournal, RecoverCommits
    <2>3. CASE RecoverNeutralizes(ok)
      BY <2>3 DEF RecoverNeutralizes
    <2>4. CASE RecoverQuarantines(ok)
      BY <2>4 DEF RecoverQuarantines
    <2>5. CASE RecoverRoutes(ok)
      <3>1. tx' = NoTx /\ NoTx.started = {}
        BY <2>5, NoTxFacts DEF RecoverRoutes, IInv, LocalsKnown, RecoveringPcs, RevivingPcs
      <3>2. ok => routes' = "applied"
        BY <2>5 DEF RecoverRoutes, Reconciles
      <3>. QED
        BY <2>5, <3>1, <3>2 DEF RecoverRoutes, Pending
    <2>6. ASSUME NEW f \in Forwards, RecoverForward(f, ok) PROVE RecoveryIsComplete'
      <3>1. CASE ok
        <4>1. tx'.started = {f} /\ suspended' = suspended \ {f}
          BY <2>6, <3>1 DEF RecoverForward, IInv, LocalsKnown, Locals
        <4>. QED
          BY <2>6, <3>1, <4>1 DEF RecoverForward, Pending
      <3>2. CASE ~ok
        BY <2>6, <3>2 DEF RecoverForward
      <3>. QED
        BY <3>1, <3>2
    <2>7. CASE RecoverCheckpoint(ok)
      <3>1. CASE ok
        <4>1. /\ tx'.started = {} /\ routes' = routes /\ pc = "rForwards" /\ pc' = "rForwards"
          BY <2>7, <3>1, NoTxFacts DEF RecoverCheckpoint
        <4>2. journal'.phase = journal.phase
          BY <2>7, <3>1 DEF RecoverCheckpoint, IInv, RevisionsGrow, Journals
        <4>3. Pending'
          BY <4>1, <4>2, RevisionFacts DEF Pending, NoJournal
        <4>. QED
          BY <4>1, <4>3
      <3>2. CASE ~ok
        BY <2>7, <3>2 DEF RecoverCheckpoint
      <3>. QED
        BY <3>1, <3>2
    <2>8. CASE RecoverForwardsDone
      <3>1. suspended = {} /\ RoutesAreBack
        BY <2>8 DEF RecoverForwardsDone, JournalIsAhead
      <3>. QED
        BY <2>8, <3>1 DEF RecoverForwardsDone
    <2>9. CASE RecoverClearsQuarantine(ok)
      BY <2>9 DEF RecoverClearsQuarantine
    <2>. QED
      BY <1>1, <2>1, <2>2, <2>3, <2>4, <2>5, <2>6, <2>7, <2>8, <2>9 DEF RecoveryStep
  <1>2. ASSUME NEW catalogToo \in BOOLEAN, UserEdits(catalogToo) PROVE RecoveryIsComplete'
    <2>1. /\ UNCHANGED <<journal, pc, tx, suspended, routes, routesBefore>>
          /\ vault'.storage = vault.storage + 1
      BY <1>2 DEF UserEdits, Written
    <2>2. vault' # journal.before
      BY <2>1, RevisionFacts
    <2>. QED
      BY <2>1, <2>2 DEF Pending
  <1>3. CASE pc' \notin RecoveringPcs \ {"boot"}
    BY <1>3 DEF RecoveringPcs, RevivingPcs
  <1>4. CASE UNCHANGED <<pc, tx, vault, journal, suspended, routes, routesBefore>>
    BY <1>4 DEF Pending
  <1>. QED
    BY <1>1, <1>2, <1>3, <1>4, RecoveryIsAlone

\* The first state has no restore to undo.
LEMMA InitAbortInv == Init => AbortInv
  <1>. SUFFICES ASSUME Init PROVE AbortInv
    OBVIOUS
  <1>1. /\ pc = "idle" /\ journal = NoJournal /\ journal.phase = "none" /\ suspended = {}
        /\ journal.before.storage = 0
    BY DEF Init, NoJournal, FirstVault
  <1>2. ~AtLeast("vault_replaced")
    BY <1>1 DEF AtLeast, PhaseOrder
  <1>3. PlanIsKnown /\ RoutesAreKnown /\ RecoveryIsComplete
    BY <1>1 DEF PlanIsKnown, RoutesAreKnown, RecoveryIsComplete, EarlyPcs, RestoringPcs, ReplacedPcs
  <1>4. JournalIsAhead
    BY <1>1, <1>2 DEF JournalIsAhead, ActivatingPcs, ReplacedPcs, Pending
  <1>. QED
    BY <1>3, <1>4 DEF AbortInv

\* The two invariants together.
LEMMA AbortInvariant == Spec => [](IInv /\ AbortInv)
  <1>1. Init => IInv /\ AbortInv
    BY InitIInv, InitAbortInv
  <1>2. IInv /\ AbortInv /\ [Next]_vars => (IInv /\ AbortInv)'
    BY StepIInv, PlanStep, RoutesStep, AheadStep, RecoveryCompleteStep DEF AbortInv
  <1>. QED
    BY <1>1, <1>2, PTL DEF Spec

\* What consumes the journal: the commit of a restore, of its compensation and of
\* a recovery.
LEMMA WhoCommits ==
  ASSUME IInv, [Next]_vars, Pending, journal' = NoJournal
  PROVE  \E ok \in BOOLEAN : CommitsJournal(ok) \/ UndoJournal(ok) \/ RecoverCommits(ok)
  <1>1. journal' # journal /\ journal.phase # "none" /\ journal'.phase = "none"
    BY RevisionFacts DEF Pending, NoJournal
  <1>2. ~RestoreBegins
    BY <1>1 DEF RestoreBegins
  <1>3. \A catalogToo \in BOOLEAN : ~UserEdits(catalogToo)
    BY <1>1 DEF UserEdits
  <1>4. ASSUME NEW ok \in BOOLEAN, WritesJournal(ok) PROVE FALSE
    BY <1>1, <1>4 DEF WritesJournal, AfterPhase
  <1>5. ASSUME NEW ok \in BOOLEAN, ReplacesVault(ok) PROVE FALSE
    BY <1>1, <1>5 DEF ReplacesVault
  <1>6. ASSUME NEW ok \in BOOLEAN, RecoverCheckpoint(ok) PROVE FALSE
    BY <1>1, <1>6 DEF RecoverCheckpoint, IInv, RevisionsGrow, Journals
  <1>. QED
    BY <1>1, <1>2, <1>3, <1>4, <1>5, <1>6, FilesFrame DEF FileStep

\* A restore that did not replace the Vault gives its journal up, at once or after
\* any number of crashes and failing recoveries, only when every forward it stopped
\* runs again and the routes it neutralized are back (restore.go:203).
THEOREM AbortRestoresAllHolds == Spec => AbortRestoresAll
  <1>1. ASSUME IInv, AbortInv, [Next]_vars,
               Pending, journal' = NoJournal, vault = journal.before
        PROVE  suspended' = {} /\ (routesBefore = "applied" => routes' # "neutral")
    <2>. /\ PlanIsKnown /\ RoutesAreKnown /\ JournalIsAhead /\ RecoveryIsComplete
         /\ ~(journal.before.storage < vault.storage)
      BY <1>1, RevisionFacts DEF AbortInv
    <2>1. ASSUME NEW ok \in BOOLEAN, CommitsJournal(ok) PROVE FALSE
      BY <2>1 DEF CommitsJournal, JournalIsAhead, ReplacedPcs
    <2>2. ASSUME NEW ok \in BOOLEAN, UndoJournal(ok)
          PROVE  suspended' = {} /\ (routesBefore = "applied" => routes' # "neutral")
      <3>1. ~tx.failed /\ pc = "undoJournal" /\ UNCHANGED <<suspended, routes>>
        BY <1>1, <2>2 DEF UndoJournal, KeepsJournal, Pending, network, history
      <3>. QED
        BY <3>1 DEF PlanIsKnown, RoutesAreKnown, RoutesAreBack
    <2>3. ASSUME NEW ok \in BOOLEAN, RecoverCommits(ok)
          PROVE  suspended' = {} /\ (routesBefore = "applied" => routes' # "neutral")
      <3>1. pc = "rCommit" /\ UNCHANGED <<suspended, routes>>
        BY <2>3 DEF RecoverCommits, network, history
      <3>. QED
        BY <1>1, <3>1 DEF RecoveryIsComplete, RoutesAreBack
    <2>. QED
      BY <1>1, <2>1, <2>2, <2>3, WhoCommits
  <1>2. IInv /\ AbortInv /\ [Next]_vars =>
          [Pending /\ journal' = NoJournal /\ vault = journal.before =>
             suspended' = {} /\ (routesBefore = "applied" => routes' # "neutral")]_vars
    BY <1>1
  <1>. QED
    BY <1>2, AbortInvariant, PTL DEF Spec, AbortRestoresAll

=============================================================================
