------------------------- MODULE RouteTransactionProofs -------------------------
(***************************************************************************)
(* The inductive invariant of RouteTransaction holds for any routes and any *)
(* number of failing calls, crashes and foreign changes.  What a            *)
(* transaction knows of hosts, Caddy and trust grows with every step it     *)
(* took, forward and back; what others change meanwhile it cannot know, and *)
(* then it claims nothing.                                                  *)
(***************************************************************************)
EXTENDS RouteTransaction, TLAPS

Parts == {"hosts", "caddy", "ca"}
Targets == Desires \cup {Nothing}
TxRecords ==
  [target : Targets, before : States, hosts : HostsBlocks, running : BOOLEAN,
   trusted : BOOLEAN, confirmed : BOOLEAN, mutated : SUBSET Parts, conflict : BOOLEAN,
   failed : BOOLEAN, ca : BOOLEAN, caddy : Configs, touched : BOOLEAN]

\* The steps of applySystemLocked once the hosts are in place, of the
\* compensation, and of NeutralizeRoutes.
AfterHosts == {"hosts_applied", "caddy", "caddy_applied", "trust", "ca_applied", "stop", "untrust",
               "neutralized", "commit", "clear"}
Undoing == {"undoCA", "undoCaddy", "undoHosts", "redoCA", "undoClear", "undoSave"}
Neutralizing == {"nHosts", "nCaddy", "nCA", "nClear", "nSave"}
Routing == {"hosts"} \cup AfterHosts \cup Undoing

\* The values every variable ranges over.
Typed ==
  /\ desired \in Desires /\ hosts \in HostsBlocks
  /\ caddy \in Configs /\ digest \in Configs
  /\ trusted \in BOOLEAN /\ owed \in BOOLEAN
  /\ state \in States /\ journal \in Phases \cup {"none"}
  /\ pc \in Pcs /\ tx \in TxRecords
  /\ faults \in Nat /\ foreign \in Nat

\* Nobody else edited the hosts during the transaction: others who do leave
\* both marks, and no later step of the transaction takes either away.
HostsAreOurs == ~owed \/ ~tx.touched

HostsKnown ==
  HostsAreOurs =>
    /\ pc = "hosts" => hosts = tx.hosts
    /\ pc \in AfterHosts => hosts = tx.target.hosts
    /\ pc \in Routing /\ "hosts" \notin tx.mutated => hosts = tx.hosts
    /\ pc \in {"redoCA", "undoClear"} /\ ~tx.failed => hosts = tx.hosts
    /\ pc = "undoSave" /\ ~tx.failed => hosts = tx.hosts

TrustKnown ==
  ~tx.touched =>
    /\ pc \in Routing /\ "ca" \notin tx.mutated => (trusted <=> tx.ca)
    /\ pc \in Routing /\ "ca" \in tx.mutated => (tx.trusted <=> tx.ca)
    /\ pc \in Routing => (tx.trusted => tx.ca)
    /\ pc \in {"hosts", "hosts_applied", "caddy", "caddy_applied", "trust", "stop", "untrust"}
         => "ca" \notin tx.mutated
    /\ pc \in {"undoCaddy", "undoHosts", "redoCA"} /\ ~tx.failed /\ UndoesTrust => ~trusted
    /\ pc = "undoClear" /\ ~tx.failed => (trusted <=> tx.ca)
    /\ pc = "ca_applied" => trusted

CaddyKnown ==
  ~tx.touched =>
    /\ pc \in Routing /\ "caddy" \notin tx.mutated /\ ~tx.running => caddy = NoCaddy
    /\ pc \in {"hosts", "hosts_applied", "caddy"} => "caddy" \notin tx.mutated
    /\ pc \in {"undoHosts", "redoCA", "undoClear"} /\ ~tx.running => caddy = NoCaddy
    /\ pc \in {"caddy", "caddy_applied", "trust", "ca_applied"} => tx.target.caddy # NoCaddy
    /\ pc \in {"caddy_applied", "trust", "ca_applied"} => caddy # NoCaddy
    /\ pc \in {"stop", "untrust", "neutralized"} => tx.target.caddy = NoCaddy
    /\ pc \in {"untrust", "neutralized"} => caddy = NoCaddy
    /\ pc = "commit" /\ ~tx.conflict =>
         /\ (caddy = NoCaddy <=> tx.target.caddy = NoCaddy)
         /\ caddy # NoCaddy => trusted

\* Where the hosts and the record of them may be apart, and what says so.
DriftKnown ==
  /\ pc \in Routing \ {"undoSave"} => journal # "none"
  /\ pc \in Routing \ {"clear"} => (tx.hosts = tx.before.rev.hosts /\ state = tx.before) \/ owed
  /\ pc = "clear" => hosts = state.rev.hosts \/ owed
  /\ pc = "undoSave" => (tx.failed /\ journal # "none") \/ hosts = tx.hosts \/ owed
  /\ pc \in Neutralizing => owed
  /\ DriftIsRecorded

NeutralKnown ==
  ~tx.touched =>
    /\ pc \in {"nCaddy", "nCA", "nClear"} => hosts = NoHosts
    /\ pc \in {"nCA", "nClear"} => caddy = NoCaddy
    /\ pc = "nClear" => ~trusted
    /\ pc = "nSave" /\ ~tx.failed => hosts = NoHosts /\ caddy = NoCaddy /\ ~trusted /\ journal = "none"

\* The inductive invariant.
IInv == Typed /\ HostsKnown /\ TrustKnown /\ CaddyKnown /\ DriftKnown /\ NeutralKnown

-----------------------------------------------------------------------------
(* What a transaction knew when it began. *)
Knew(u, t) ==
  /\ u.target = t.target /\ u.before = t.before /\ u.hosts = t.hosts /\ u.running = t.running
  /\ u.trusted = t.trusted /\ u.confirmed = t.confirmed /\ u.ca = t.ca /\ u.caddy = t.caddy

(* A step that mutates a part of the system only adds to the mutated ones, *)
LEMMA MutatedIs ==
  ASSUME NEW t \in TxRecords, NEW part \in Parts
  PROVE  LET u == [t EXCEPT !.mutated = @ \cup {part}] IN
         /\ u \in TxRecords /\ Knew(u, t) /\ u.mutated = t.mutated \cup {part}
         /\ u.conflict = t.conflict /\ u.failed = t.failed /\ u.touched = t.touched
  <1>1. t.mutated \cup {part} \in SUBSET Parts
    BY DEF TxRecords
  <1>2. \A m \in SUBSET Parts :
          LET u == [t EXCEPT !.mutated = m] IN
          /\ u \in TxRecords /\ Knew(u, t) /\ u.mutated = m
          /\ u.conflict = t.conflict /\ u.failed = t.failed /\ u.touched = t.touched
    BY DEF TxRecords, Knew
  <1>. QED
    BY <1>1, <1>2

(* ... Caddy's keeps the conflict as well, *)
LEMMA CaddyMutatedIs ==
  ASSUME NEW t \in TxRecords, NEW conflict \in BOOLEAN
  PROVE  LET u == [t EXCEPT !.mutated = @ \cup {"caddy"}, !.conflict = conflict] IN
         /\ u \in TxRecords /\ Knew(u, t) /\ u.mutated = t.mutated \cup {"caddy"}
         /\ u.conflict = conflict /\ u.failed = t.failed /\ u.touched = t.touched
  <1>. DEFINE m == t.mutated \cup {"caddy"}
  <1>1. m \in SUBSET Parts
    BY DEF TxRecords, Parts
  <1>. HIDE DEF m
  <1>. DEFINE v == [t EXCEPT !.mutated = m]
  <1>2. /\ v \in TxRecords /\ Knew(v, t) /\ v.mutated = m
        /\ v.failed = t.failed /\ v.touched = t.touched
    BY <1>1 DEF TxRecords, Knew
  <1>. HIDE DEF v
  <1>3. LET u == [v EXCEPT !.conflict = conflict] IN
        /\ u \in TxRecords /\ Knew(u, v) /\ u.mutated = v.mutated
        /\ u.conflict = conflict /\ u.failed = v.failed /\ u.touched = v.touched
    BY <1>2 DEF TxRecords, Knew
  <1>. QED
    BY <1>2, <1>3 DEF v, m, Knew

(* ... a failing compensation is remembered, *)
LEMMA FailedIs ==
  ASSUME NEW t \in TxRecords, NEW failed \in BOOLEAN
  PROVE  LET u == [t EXCEPT !.failed = failed] IN
         /\ u \in TxRecords /\ Knew(u, t) /\ u.mutated = t.mutated
         /\ u.conflict = t.conflict /\ u.failed = failed /\ u.touched = t.touched
  BY DEF TxRecords, Knew

(* ... and so is a change by others. *)
LEMMA TouchedIs ==
  ASSUME NEW t \in TxRecords, NEW touched \in BOOLEAN
  PROVE  LET u == [t EXCEPT !.touched = touched] IN
         /\ u \in TxRecords /\ Knew(u, t) /\ u.mutated = t.mutated
         /\ u.conflict = t.conflict /\ u.failed = t.failed /\ u.touched = touched
  BY DEF TxRecords, Knew

(* No transaction, and one that begins. *)
LEMMA NoTxIs == Typed => NoTx \in TxRecords
  BY DEF NoTx, TxRecords, Typed, States, Nothing, Targets, HostsBlocks, Configs

LEMMA LocalsAre ==
  ASSUME Typed, NEW target \in Targets, NEW seen \in BOOLEAN, NEW confirmed \in BOOLEAN
  PROVE  LET t == Locals(target, seen, confirmed) IN
         /\ t \in TxRecords
         /\ t.target = target /\ t.before = state /\ t.hosts = hosts /\ (t.running <=> caddy # NoCaddy)
         /\ t.trusted = seen /\ t.mutated = {} /\ ~t.conflict /\ ~t.failed /\ t.ca = trusted /\ ~t.touched
  BY DEF Locals, TxRecords, Typed

(* A route is of two parts, the hosts and Caddy. *)
LEMMA TargetIs ==
  ASSUME NEW target \in Targets
  PROVE  target.hosts \in HostsBlocks /\ target.caddy \in Configs
  BY DEF Targets, HostsBlocks, Configs, Nothing

\* What a step that keeps the locals, one that mutates a part, and one that
\* compensates do to them.
Keeps      == tx' = tx
Adds(part) == /\ tx' \in TxRecords /\ Knew(tx', tx) /\ tx'.mutated = tx.mutated \cup {part}
              /\ tx'.conflict = tx.conflict /\ tx'.failed = tx.failed /\ tx'.touched = tx.touched
Tries(ok)  == /\ tx' \in TxRecords /\ Knew(tx', tx) /\ tx'.mutated = tx.mutated
              /\ tx'.conflict = tx.conflict /\ (tx'.failed <=> tx.failed \/ ~ok) /\ tx'.touched = tx.touched

(* These are what the operators of the transaction do. *)
LEMMA LocalsMove ==
  ASSUME Typed
  PROVE  /\ \A part \in Parts : Mutates(part) => Adds(part)
         /\ \A ok \in BOOLEAN : Compensates(ok) => Tries(ok) /\ faults' \in Nat
         /\ \A ok \in BOOLEAN : Call(ok) => faults' \in Nat
         /\ NeutralFails => Tries(FALSE) /\ pc' = "nSave"
  <1>. tx \in TxRecords
    BY DEF Typed
  <1>1. ASSUME NEW part \in Parts, Mutates(part) PROVE Adds(part)
    <2>1. LET u == [tx EXCEPT !.mutated = @ \cup {part}] IN
          /\ u \in TxRecords /\ Knew(u, tx) /\ u.mutated = tx.mutated \cup {part}
          /\ u.conflict = tx.conflict /\ u.failed = tx.failed /\ u.touched = tx.touched
      BY MutatedIs
    <2>. QED
      BY <1>1, <2>1 DEF Mutates, Adds
  <1>2. ASSUME NEW ok \in BOOLEAN, Call(ok) PROVE faults' \in Nat
    BY <1>2 DEF Typed, Call
  <1>3. ASSUME NEW failed \in BOOLEAN
        PROVE  LET u == [tx EXCEPT !.failed = failed] IN
               /\ u \in TxRecords /\ Knew(u, tx) /\ u.mutated = tx.mutated
               /\ u.conflict = tx.conflict /\ u.failed = failed /\ u.touched = tx.touched
    BY FailedIs
  <1>4. ASSUME NEW ok \in BOOLEAN, Compensates(ok) PROVE Tries(ok) /\ faults' \in Nat
    <2>. DEFINE f == tx.failed \/ ~ok
    <2>1. f \in BOOLEAN /\ tx' = [tx EXCEPT !.failed = f] /\ Call(ok)
      BY <1>4 DEF Compensates
    <2>2. (f <=> tx.failed \/ ~ok)
      OBVIOUS
    <2>. HIDE DEF f
    <2>. QED
      BY <1>2, <1>3, <2>1, <2>2 DEF Tries
  <1>5. ASSUME NeutralFails PROVE Tries(FALSE) /\ pc' = "nSave"
    <2>1. tx' = [tx EXCEPT !.failed = TRUE] /\ pc' = "nSave"
      BY <1>5 DEF NeutralFails, GoesTo
    <2>. QED
      BY <1>3, <2>1 DEF Tries
  <1>. QED
    BY <1>1, <1>2, <1>4, <1>5

(* What Adapter.Apply can make of Caddy. *)
LEMMA OutcomeIs ==
  ASSUME Typed, NEW config \in Configs, NEW o \in ApplyOutcomes(config), Serves(o)
  PROVE  /\ o.result \in {"applied", "conflict", "error"}
         /\ caddy' \in Configs /\ digest' \in Configs
         /\ o.result = "applied" /\ config # NoCaddy => caddy' # NoCaddy
  <1>. NoCaddy \in Configs /\ caddy \in Configs /\ digest \in Configs
    BY DEF Typed, Configs
  <1>1. \/ o = [result |-> "applied", caddy |-> caddy, digest |-> digest] /\ caddy # NoCaddy
        \/ o = [result |-> "applied", caddy |-> config, digest |-> config]
        \/ o \in [result : {"conflict", "error"}, caddy : {NoCaddy}, digest : {NoCaddy}]
        \/ o \in [result : {"error"}, caddy : {caddy, config}, digest : {digest}]
    BY DEF ApplyOutcomes
  <1>. QED
    BY <1>1 DEF Serves

-----------------------------------------------------------------------------
\* From here on the invariant and the changes of the locals are read in full.
USE DEF IInv, HostsKnown, HostsAreOurs, TrustKnown, UndoesTrust, CaddyKnown, DriftKnown, DriftIsRecorded,
        NeutralKnown, Typed, Pcs, Phases, Routing, AfterHosts, Undoing, Neutralizing,
        Keeps, Adds, Tries, Knew

(* A step that finds nothing to do, or cannot do it, *)
LEMMA IdleStepsKeep ==
  ASSUME IInv, HelperIsMissing \/ HostsAreUnchanged \/ TrustQueryFails
  PROVE  IInv'
  <1>1. /\ \/ pc = "hosts" /\ pc' = "undoCA"
           \/ pc = "hosts" /\ tx.target.hosts = tx.hosts /\ pc' = "hosts_applied"
           \/ pc = "trust" /\ pc' = "undoCA"
        /\ Keeps /\ faults' \in Nat
        /\ UNCHANGED <<hosts, caddy, digest, trusted, state, journal, desired, foreign, owed>>
    BY LocalsMove DEF HelperIsMissing, HostsAreUnchanged, TrustQueryFails, GoesTo
  <1>. QED
    BY <1>1

(* ... the hosts, whose answer may be lost, *)
LEMMA AppliesHostsKeeps ==
  ASSUME IInv, NEW ok \in BOOLEAN, AppliesHosts(ok)
  PROVE  IInv'
  <1>1. /\ pc = "hosts" /\ pc' = (IF ok THEN "hosts_applied" ELSE "undoCA") /\ Adds("hosts")
        /\ faults' \in Nat /\ hosts' \in HostsBlocks /\ (ok => hosts = tx.hosts /\ hosts' = tx.target.hosts)
        /\ UNCHANGED <<caddy, digest, trusted, state, journal, desired, foreign, owed>>
    BY LocalsMove, TargetIs DEF AppliesHosts, GoesTo, Parts, TxRecords
  <1>. QED
    BY <1>1

(* ... the journal that follows the transaction, *)
LEMMA AdvancesKeeps ==
  ASSUME IInv, NEW ok \in BOOLEAN, Advances(ok)
  PROVE  IInv'
  <1>1. Keeps /\ faults' \in Nat
        /\ UNCHANGED <<hosts, caddy, digest, trusted, state, desired, foreign, owed>>
    BY LocalsMove DEF Advances
  <1>2. /\ pc \in {"hosts_applied", "caddy_applied", "ca_applied", "neutralized"}
        /\ journal' = (IF ok THEN pc ELSE journal) /\ pc' = (IF ok THEN AfterPhase(pc) ELSE "undoCA")
    BY DEF Advances, GoesTo
  <1>3. /\ AfterPhase("hosts_applied")
              = (IF tx.target.caddy # NoCaddy THEN "caddy" ELSE IF tx.running THEN "stop" ELSE "untrust")
        /\ AfterPhase("caddy_applied") = "trust"
        /\ AfterPhase("ca_applied") = "commit" /\ AfterPhase("neutralized") = "commit"
    BY DEF AfterPhase
  <1>4. CASE ~ok
    <2>1. /\ pc' = "undoCA" /\ journal' = journal
          /\ pc \in {"hosts_applied", "caddy_applied", "ca_applied", "neutralized"}
      BY <1>2, <1>3, <1>4
    <2>. QED
      BY <1>1, <1>4, <2>1
  <1>5. CASE ok /\ pc = "hosts_applied"
    <2>1. /\ journal' = "hosts_applied"
          /\ pc' = (IF tx.target.caddy # NoCaddy THEN "caddy" ELSE IF tx.running THEN "stop" ELSE "untrust")
      BY <1>2, <1>3, <1>5
    <2>. QED
      BY <1>1, <1>5, <2>1
  <1>6. CASE ok /\ pc = "caddy_applied"
    <2>1. /\ journal' = "caddy_applied" /\ pc' = "trust"
      BY <1>2, <1>3, <1>6
    <2>. QED
      BY <1>1, <1>6, <2>1
  <1>7. CASE ok /\ pc \in {"ca_applied", "neutralized"}
    <2>1. /\ journal' \in {"ca_applied", "neutralized"} /\ pc' = "commit"
      BY <1>2, <1>3, <1>7
    <2>. QED
      BY <1>1, <1>7, <2>1
  <1>. QED
    BY <1>2, <1>4, <1>5, <1>6, <1>7

(* ... the Caddy that is not wanted any more, *)
LEMMA StopsCaddyKeeps ==
  ASSUME IInv, NEW ok \in BOOLEAN, StopsCaddy(ok)
  PROVE  IInv'
  <1>1. /\ pc = "stop" /\ pc' = (IF ok THEN "untrust" ELSE "undoCA") /\ Adds("caddy")
        /\ faults' \in Nat /\ caddy' = NoCaddy /\ digest' = NoCaddy /\ NoCaddy \in Configs
        /\ UNCHANGED <<hosts, trusted, state, journal, desired, foreign, owed>>
    BY LocalsMove DEF StopsCaddy, GoesTo, Parts, Configs
  <1>. QED
    BY <1>1

(* ... its CA, *)
LEMMA UntrustsCAKeeps ==
  ASSUME IInv, NEW ok \in BOOLEAN, UntrustsCA(ok)
  PROVE  IInv'
  <1>1. /\ pc = "untrust" /\ pc' = (IF ok THEN "neutralized" ELSE "undoCA")
        /\ \/ ~tx.trusted /\ Keeps /\ trusted' = trusted
           \/ tx.trusted /\ Adds("ca") /\ trusted' \in BOOLEAN
        /\ faults' \in Nat
        /\ UNCHANGED <<hosts, caddy, digest, state, journal, desired, foreign, owed>>
    BY LocalsMove DEF UntrustsCA, GoesTo, Parts
  <1>. QED
    BY <1>1

(* ... the Caddy that is wanted, *)
LEMMA AppliesCaddyKeeps ==
  ASSUME IInv, NEW o \in ApplyOutcomes(tx.target.caddy), AppliesCaddy(o)
  PROVE  IInv'
  <1>. DEFINE conflict == o.result = "conflict"
              u == [tx EXCEPT !.mutated = @ \cup {"caddy"}, !.conflict = conflict]
  <1>1. conflict \in BOOLEAN /\ (conflict <=> o.result = "conflict") /\ tx' = u
    BY DEF AppliesCaddy
  <1>. HIDE DEF conflict
  <1>2. /\ u \in TxRecords /\ Knew(u, tx) /\ u.mutated = tx.mutated \cup {"caddy"}
        /\ u.conflict = conflict /\ u.failed = tx.failed /\ u.touched = tx.touched
    <2>1. tx \in TxRecords
      OBVIOUS
    <2>. HIDE DEF IInv, Knew
    <2>. QED
      BY <1>1, <2>1, CaddyMutatedIs
  <1>. HIDE DEF u
  <1>3. tx.target.caddy \in Configs
    BY TargetIs DEF TxRecords
  <1>4. /\ o.result \in {"applied", "conflict", "error"} /\ caddy' \in Configs /\ digest' \in Configs
        /\ o.result = "applied" /\ tx.target.caddy # NoCaddy => caddy' # NoCaddy
    <2>1. Typed /\ Serves(o)
      BY DEF AppliesCaddy
    <2>. HIDE DEF Typed
    <2>. QED
      BY <1>3, <2>1, OutcomeIs
  <1>5. /\ pc = "caddy" /\ faults' \in Nat
        /\ \/ pc' = "caddy_applied" /\ o.result = "applied"
           \/ pc' = "commit" /\ conflict
           \/ pc' = "undoCA"
        /\ UNCHANGED <<hosts, trusted, state, journal, desired, foreign, owed>>
    BY <1>1, <1>4, LocalsMove DEF AppliesCaddy, GoesTo
  <1>. QED
    BY <1>1, <1>2, <1>4, <1>5

(* ... or whose redirection fails, *)
LEMMA RedirectFailsKeeps ==
  ASSUME IInv, RedirectFails
  PROVE  IInv'
  <1>1. /\ pc = "caddy" /\ pc' = "undoCA" /\ Adds("caddy") /\ faults' \in Nat
        /\ UNCHANGED <<hosts, caddy, digest, trusted, state, journal, desired, foreign, owed>>
    BY LocalsMove DEF RedirectFails, GoesTo, Parts
  <1>. QED
    BY <1>1

(* ... and the trust in its CA, *)
LEMMA TrustsCAKeeps ==
  ASSUME IInv, NEW ok \in BOOLEAN, TrustsCA(ok)
  PROVE  IInv'
  <1>1. /\ pc = "trust" /\ pc' = (IF ok THEN "ca_applied" ELSE "undoCA")
        /\ \/ trusted /\ Keeps /\ trusted' = trusted
           \/ ~trusted /\ Adds("ca") /\ trusted' \in BOOLEAN /\ (ok => trusted')
        /\ faults' \in Nat
        /\ UNCHANGED <<hosts, caddy, digest, state, journal, desired, foreign, owed>>
    BY LocalsMove DEF TrustsCA, GoesTo, Parts
  <1>. QED
    BY <1>1

(* ... then the record of it all, which ends what was owed, *)
LEMMA SavesStateKeeps ==
  ASSUME IInv, NEW ok \in BOOLEAN, SavesState(ok)
  PROVE  IInv'
  <1>1. /\ pc = "commit" /\ pc' = (IF ok THEN "clear" ELSE "undoCA") /\ Keeps /\ faults' \in Nat
        /\ state' \in States /\ (ok => state'.rev = tx.target) /\ (~ok => state' = state)
        /\ owed' \in BOOLEAN /\ (owed' <=> owed /\ (tx.touched \/ ~ok))
        /\ UNCHANGED <<hosts, caddy, digest, trusted, journal, desired, foreign>>
    BY LocalsMove DEF SavesState, GoesTo, TxRecords, States, Targets
  <1>. QED
    BY <1>1

(* ... and the journal that is not needed any more. *)
LEMMA ClearsJournalKeeps ==
  ASSUME IInv, NEW ok \in BOOLEAN, ClearsJournal(ok)
  PROVE  IInv'
  <1>1. /\ pc = "clear" /\ faults' \in Nat /\ (owed' <=> owed \/ ~ok) /\ owed' \in BOOLEAN
        /\ \/ ok /\ journal' = "none" /\ pc' = "idle" /\ tx' = NoTx /\ NoTx \in TxRecords
           \/ ~ok /\ journal' = journal /\ pc' = "undoCA" /\ Keeps
        /\ UNCHANGED <<hosts, caddy, digest, trusted, state, desired, foreign>>
    BY LocalsMove, NoTxIs DEF ClearsJournal, GoesTo, Ends
  <1>. QED
    BY <1>1

-----------------------------------------------------------------------------
(* The compensation takes back the trust, *)
LEMMA UndoCAKeeps ==
  ASSUME IInv, NEW ok \in BOOLEAN, UndoCA(ok)
  PROVE  IInv'
  <1>1. /\ pc = "undoCA" /\ pc' = "undoCaddy" /\ faults' \in Nat
        /\ \/ UndoesTrust /\ Tries(ok) /\ trusted' \in BOOLEAN /\ (ok => ~trusted')
           \/ ~UndoesTrust /\ Keeps /\ trusted' = trusted
        /\ UNCHANGED <<hosts, caddy, digest, state, journal, desired, foreign, owed>>
    BY LocalsMove DEF UndoCA, GoesTo
  <1>. QED
    BY <1>1

(* ... the new Caddy, *)
LEMMA UndoCaddyKeeps ==
  ASSUME IInv, NEW ok \in BOOLEAN, UndoCaddy(ok)
  PROVE  IInv'
  <1>1. /\ pc = "undoCaddy" /\ pc' = "undoHosts" /\ faults' \in Nat
        /\ \/ "caddy" \in tx.mutated /\ ~tx.running /\ Tries(ok) /\ caddy' = NoCaddy /\ digest' = NoCaddy
           \/ ("caddy" \notin tx.mutated \/ tx.running) /\ Keeps /\ caddy' = caddy /\ digest' = digest
        /\ NoCaddy \in Configs
        /\ UNCHANGED <<hosts, trusted, state, journal, desired, foreign, owed>>
    BY LocalsMove DEF UndoCaddy, StopsNewCaddy, GoesTo, Configs
  <1>. QED
    BY <1>1

(* ... the hosts, *)
LEMMA UndoHostsKeeps ==
  ASSUME IInv, NEW ok \in BOOLEAN, UndoHosts(ok)
  PROVE  IInv'
  <1>1. /\ pc = "undoHosts" /\ pc' = "redoCA" /\ faults' \in Nat /\ hosts' \in HostsBlocks
        /\ \/ "hosts" \in tx.mutated /\ Tries(ok) /\ (ok => hosts' = tx.hosts)
           \/ "hosts" \notin tx.mutated /\ Keeps /\ hosts' = hosts
        /\ UNCHANGED <<caddy, digest, trusted, state, journal, desired, foreign, owed>>
    BY LocalsMove DEF UndoHosts, GoesTo, TxRecords
  <1>. QED
    BY <1>1

(* ... gives back the trust that was taken away, *)
LEMMA RedoCAKeeps ==
  ASSUME IInv, NEW ok \in BOOLEAN, RedoCA(ok)
  PROVE  IInv'
  <1>1. /\ pc = "redoCA" /\ pc' = "undoClear" /\ faults' \in Nat
        /\ \/ "ca" \in tx.mutated /\ tx.trusted /\ Tries(ok) /\ trusted' \in BOOLEAN /\ (ok => trusted')
           \/ ("ca" \notin tx.mutated \/ ~tx.trusted) /\ Keeps /\ trusted' = trusted
        /\ UNCHANGED <<hosts, caddy, digest, state, journal, desired, foreign, owed>>
    BY LocalsMove DEF RedoCA, GoesTo
  <1>. QED
    BY <1>1

(* ... clears the journal when nothing failed, *)
LEMMA UndoClearKeeps ==
  ASSUME IInv, NEW ok \in BOOLEAN, UndoClear(ok)
  PROVE  IInv'
  <1>1. /\ pc = "undoClear" /\ pc' = "undoSave" /\ faults' \in Nat
        /\ \/ tx.failed /\ Keeps /\ journal' = journal /\ owed' = owed
           \/ /\ ~tx.failed /\ Tries(ok) /\ owed' \in BOOLEAN /\ (owed' <=> owed \/ ~ok)
              /\ journal' = IF ok THEN "none" ELSE journal
        /\ UNCHANGED <<hosts, caddy, digest, trusted, state, desired, foreign>>
    BY LocalsMove DEF UndoClear, KeepsJournal, GoesTo
  <1>. QED
    BY <1>1

(* ... and records the error over what was there before. *)
LEMMA UndoSaveKeeps ==
  ASSUME IInv, NEW ok \in BOOLEAN, UndoSave(ok)
  PROVE  IInv'
  <1>0. LET s == [tx.before EXCEPT !.status = "error", !.pending = tx.failed] IN
        s \in States /\ s.rev = tx.before.rev
    BY DEF TxRecords, States
  <1>1. /\ pc = "undoSave" /\ pc' = "idle" /\ tx' = NoTx /\ NoTx \in TxRecords /\ faults' \in Nat
        /\ state' = state \/ (state' \in States /\ state'.rev = tx.before.rev)
        /\ UNCHANGED <<hosts, caddy, digest, trusted, journal, desired, foreign, owed>>
    BY <1>0, LocalsMove, NoTxIs DEF UndoSave, Ends
  <1>. QED
    BY <1>1

-----------------------------------------------------------------------------
(* A neutralization owes the repair while it runs: *)
LEMMA NeutralizeBeginsKeeps ==
  ASSUME IInv, NeutralizeBegins
  PROVE  IInv'
  <1>0. tx' \in TxRecords /\ ~tx'.failed /\ ~tx'.touched
    <2>1. Nothing \in Targets /\ tx' = Locals(Nothing, FALSE, FALSE)
      BY DEF Targets, NeutralizeBegins
    <2>2. LET t == Locals(Nothing, FALSE, FALSE) IN t \in TxRecords /\ ~t.failed /\ ~t.touched
      BY <2>1, LocalsAre
    <2>. QED
      BY <2>1, <2>2
  <1>1. /\ pc = "idle" /\ pc' = "nHosts" /\ owed' = TRUE /\ faults' = faults
        /\ UNCHANGED <<hosts, caddy, digest, trusted, state, journal, desired, foreign>>
    BY DEF NeutralizeBegins, GoesTo
  <1>. QED
    BY <1>1, <1>0

(* the hosts, *)
LEMMA NeutralHostsKeeps ==
  ASSUME IInv, NEW ok \in BOOLEAN, NeutralHosts(ok)
  PROVE  IInv'
  <1>1. /\ pc = "nHosts" /\ faults' \in Nat
        /\ \/ ok /\ pc' = "nCaddy" /\ Keeps
           \/ ~ok /\ pc' = "nSave" /\ Tries(FALSE)
        /\ hosts' \in HostsBlocks /\ (ok => hosts' = NoHosts)
        /\ UNCHANGED <<caddy, digest, trusted, state, journal, desired, foreign, owed>>
    BY LocalsMove DEF NeutralHosts, GoesTo, HostsBlocks
  <1>. QED
    BY <1>1

(* ... Caddy, *)
LEMMA NeutralCaddyKeeps ==
  ASSUME IInv, NEW ok \in BOOLEAN, NeutralCaddy(ok)
  PROVE  IInv'
  <1>1. /\ pc = "nCaddy" /\ faults' \in Nat
        /\ \/ ok /\ pc' = "nCA" /\ Keeps
           \/ ~ok /\ pc' = "nSave" /\ Tries(FALSE)
        /\ caddy' = NoCaddy /\ digest' = NoCaddy /\ NoCaddy \in Configs
        /\ UNCHANGED <<hosts, trusted, state, journal, desired, foreign, owed>>
    BY LocalsMove DEF NeutralCaddy, GoesTo, Configs
  <1>. QED
    BY <1>1

(* ... the CA, *)
LEMMA NeutralCAKeeps ==
  ASSUME IInv, NEW ok \in BOOLEAN, NeutralCA(ok)
  PROVE  IInv'
  <1>1. /\ pc = "nCA" /\ faults' \in Nat
        /\ \/ ok /\ pc' = "nClear" /\ Keeps
           \/ ~ok /\ pc' = "nSave" /\ Tries(FALSE)
        /\ trusted' \in BOOLEAN /\ (ok => ~trusted')
        /\ UNCHANGED <<hosts, caddy, digest, state, journal, desired, foreign, owed>>
    BY LocalsMove DEF NeutralCA, GoesTo
  <1>. QED
    BY <1>1

(* ... the journal, *)
LEMMA NeutralClearKeeps ==
  ASSUME IInv, NEW ok \in BOOLEAN, NeutralClear(ok)
  PROVE  IInv'
  <1>1. /\ pc = "nClear" /\ faults' \in Nat
        /\ \/ ok /\ pc' = "nSave" /\ Keeps
           \/ ~ok /\ pc' = "nSave" /\ Tries(FALSE)
        /\ journal' = IF ok THEN "none" ELSE journal
        /\ UNCHANGED <<hosts, caddy, digest, trusted, state, desired, foreign, owed>>
    BY LocalsMove DEF NeutralClear, GoesTo
  <1>. QED
    BY <1>1

(* ... and the record, that says what is left to do. *)
LEMMA NeutralSaveKeeps ==
  ASSUME IInv, NEW ok \in BOOLEAN, NeutralSave(ok)
  PROVE  IInv'
  <1>0. /\ NeutralState \in States
        /\ tx.failed => NeutralState.status = "cleanup_pending"
        /\ ~tx.failed => NeutralState.rev.hosts = NoHosts
    <2>1. LET s == [tx.before EXCEPT !.status = "cleanup_pending"] IN
          s \in States /\ s.status = "cleanup_pending"
      BY DEF TxRecords, States
    <2>2. LET s == [rev |-> Nothing, pending |-> FALSE, status |-> "quarantined"] IN
          s \in States /\ s.rev.hosts = NoHosts
      BY DEF States, Nothing
    <2>. QED
      BY <2>1, <2>2 DEF NeutralState
  <1>1. /\ pc = "nSave" /\ pc' = "idle" /\ tx' = NoTx /\ NoTx \in TxRecords /\ faults' \in Nat
        /\ state' = IF ok THEN NeutralState ELSE state
        /\ owed' \in BOOLEAN /\ (owed' <=> owed /\ (tx.touched \/ ~ok))
        /\ UNCHANGED <<hosts, caddy, digest, trusted, journal, desired, foreign>>
    BY LocalsMove, NoTxIs DEF NeutralSave, Ends
  <1>. QED
    BY <1>1, <1>0

-----------------------------------------------------------------------------
(* A transaction begins with what it reads, and forgets an older journal, *)
LEMMA BeginsKeeps ==
  ASSUME IInv, NEW confirmed \in BOOLEAN, NEW seen \in BOOLEAN, Begins(confirmed, seen)
  PROVE  IInv'
  <1>0. /\ tx' \in TxRecords /\ tx'.before = state /\ tx'.hosts = hosts /\ (tx'.running <=> caddy # NoCaddy)
        /\ tx'.trusted = seen /\ tx'.mutated = {} /\ ~tx'.failed /\ tx'.ca = trusted /\ ~tx'.touched
    <2>1. desired \in Targets /\ tx' = Locals(desired, seen, confirmed)
      BY DEF Targets, Begins
    <2>. HIDE DEF Locals
    <2>. QED
      BY <2>1, LocalsAre
  <1>1. /\ pc = "idle" /\ pc' = "hosts" /\ (seen => trusted) /\ faults' \in Nat /\ journal' = "planned"
        /\ owed' \in BOOLEAN /\ (owed' <=> owed \/ journal # "none" \/ state.status = "cleanup_pending")
        /\ UNCHANGED <<hosts, caddy, digest, trusted, state, desired, foreign>>
    BY LocalsMove DEF Begins, GoesTo
  <1>. QED
    BY <1>1, <1>0

(* ... the Vault moves on between transactions, and so does a Caddy that is resumed. *)
LEMMA BetweenKeeps ==
  ASSUME IInv, SavesDesired \/ \E o \in ApplyOutcomes(desired.caddy) : ResumeCaddy(o)
  PROVE  IInv'
  <1>0. ASSUME NEW o \in ApplyOutcomes(desired.caddy), ResumeCaddy(o)
        PROVE  caddy' \in Configs /\ digest' \in Configs /\ faults' \in Nat
    <2>1. desired.caddy \in Configs
      BY TargetIs DEF Targets
    <2>. QED
      BY <1>0, <2>1, OutcomeIs, LocalsMove DEF ResumeCaddy
  <1>1. /\ pc = "idle" /\ pc' = pc /\ tx' = tx /\ faults' \in Nat /\ desired' \in Desires
        /\ caddy' \in Configs /\ digest' \in Configs
        /\ UNCHANGED <<hosts, trusted, state, journal, foreign, owed>>
    BY <1>0 DEF SavesDesired, ResumeCaddy
  <1>. QED
    BY <1>1

(* Others leave their mark on the transaction they meet, *)
LEMMA ForeignKeeps ==
  ASSUME IInv, OthersEditHosts \/ UserUntrusts \/ CaddyDies
  PROVE  IInv'
  <1>. DEFINE met == pc # "idle"
  <1>0. /\ tx' \in TxRecords /\ Knew(tx', tx) /\ tx'.mutated = tx.mutated /\ tx'.conflict = tx.conflict
        /\ tx'.failed = tx.failed /\ (tx'.touched <=> pc # "idle")
    <2>1. met \in BOOLEAN /\ tx \in TxRecords /\ tx' = [tx EXCEPT !.touched = met]
      BY DEF OthersEditHosts, UserUntrusts, CaddyDies, Foreign
    <2>2. (met <=> pc # "idle")
      OBVIOUS
    <2>. HIDE DEF met
    <2>. QED
      BY <2>1, <2>2, TouchedIs
  <1>1. /\ pc' = pc /\ foreign' \in Nat /\ hosts' \in HostsBlocks /\ trusted' \in BOOLEAN
        /\ caddy' \in Configs /\ digest' \in Configs /\ owed' \in BOOLEAN
        /\ owed' = TRUE \/ (owed' = owed /\ hosts' = hosts)
        /\ UNCHANGED <<desired, state, journal, faults>>
    <2>1. /\ pc' = pc /\ foreign' = foreign + 1 /\ foreign \in Nat
          /\ UNCHANGED <<desired, state, journal, faults>>
      BY DEF OthersEditHosts, UserUntrusts, CaddyDies, Foreign
    <2>2. foreign' \in Nat
      BY <2>1
    <2>3. /\ hosts' \in HostsBlocks /\ owed' \in BOOLEAN /\ trusted' \in BOOLEAN
          /\ owed' = TRUE \/ (owed' = owed /\ hosts' = hosts)
      BY DEF OthersEditHosts, UserUntrusts, CaddyDies
    <2>4. caddy' \in Configs /\ digest' \in Configs
      BY DEF OthersEditHosts, UserUntrusts, CaddyDies, Configs
    <2>. QED
      BY <2>1, <2>2, <2>3, <2>4
  <1>. QED
    BY <1>1, <1>0

(* ... and a crash leaves what the journal records. *)
LEMMA CrashKeeps ==
  ASSUME IInv, Crash
  PROVE  IInv'
  <1>1. /\ pc' = "idle" /\ tx' = NoTx /\ NoTx \in TxRecords /\ faults' \in Nat
        /\ caddy' = NoCaddy /\ digest' = NoCaddy /\ NoCaddy \in Configs
        /\ UNCHANGED <<hosts, trusted, state, journal, desired, foreign, owed>>
    BY LocalsMove, NoTxIs DEF Crash, Ends, Configs
  <1>. QED
    BY <1>1

-----------------------------------------------------------------------------
(* Nothing is applied, and nothing under way. *)
LEMMA InitHolds == Init => IInv
  <1>. SUFFICES ASSUME Init PROVE IInv
    OBVIOUS
  <1>1. Typed
    <2>1. /\ state \in States /\ state.rev.hosts = NoHosts
          /\ hosts \in HostsBlocks /\ caddy \in Configs /\ digest \in Configs /\ hosts = NoHosts
      BY DEF Init, States, Nothing, HostsBlocks, Configs
    <2>2. NoTx \in TxRecords
      BY DEF NoTx, TxRecords, States, Nothing, Targets, HostsBlocks, Configs
    <2>. QED
      BY <2>1, <2>2 DEF Init
  <1>2. pc = "idle" /\ hosts = state.rev.hosts
    BY DEF Init, Nothing
  <1>. QED
    BY <1>1, <1>2

(* Every step keeps the invariant. *)
LEMMA NextKeeps == IInv /\ [Next]_vars => IInv'
  <1>. SUFFICES ASSUME IInv, [Next]_vars PROVE IInv'
    OBVIOUS
  <1>1. ASSUME NEW ok \in BOOLEAN, Steps(ok) PROVE IInv'
    <2>1. CASE \/ AppliesHosts(ok) \/ Advances(ok) \/ StopsCaddy(ok) \/ UntrustsCA(ok) \/ TrustsCA(ok)
               \/ SavesState(ok) \/ ClearsJournal(ok)
      <3>. HIDE DEF IInv
      <3>. QED
        BY <2>1, AppliesHostsKeeps, AdvancesKeeps, StopsCaddyKeeps, UntrustsCAKeeps, TrustsCAKeeps,
           SavesStateKeeps, ClearsJournalKeeps
    <2>2. CASE \/ UndoCA(ok) \/ UndoCaddy(ok) \/ UndoHosts(ok) \/ RedoCA(ok) \/ UndoClear(ok) \/ UndoSave(ok)
      <3>. HIDE DEF IInv
      <3>. QED
        BY <2>2, UndoCAKeeps, UndoCaddyKeeps, UndoHostsKeeps, RedoCAKeeps, UndoClearKeeps, UndoSaveKeeps
    <2>3. CASE \/ NeutralHosts(ok) \/ NeutralCaddy(ok) \/ NeutralCA(ok) \/ NeutralClear(ok) \/ NeutralSave(ok)
      <3>. HIDE DEF IInv
      <3>. QED
        BY <2>3, NeutralHostsKeeps, NeutralCaddyKeeps, NeutralCAKeeps, NeutralClearKeeps, NeutralSaveKeeps
    <2>. QED
      BY <1>1, <2>1, <2>2, <2>3 DEF Steps
  <1>2. CASE HelperIsMissing \/ HostsAreUnchanged \/ TrustQueryFails
    BY <1>2, IdleStepsKeep
  <1>3. CASE RedirectFails \/ \E o \in ApplyOutcomes(tx.target.caddy) : AppliesCaddy(o)
    BY <1>3, RedirectFailsKeeps, AppliesCaddyKeeps
  <1>4. CASE SavesDesired \/ \E o \in ApplyOutcomes(desired.caddy) : ResumeCaddy(o)
    BY <1>4, BetweenKeeps
  <1>5. CASE NeutralizeBegins
    BY <1>5, NeutralizeBeginsKeeps
  <1>6. CASE \E confirmed, seen \in BOOLEAN : Begins(confirmed, seen)
    BY <1>6, BeginsKeeps
  <1>7. CASE OthersEditHosts \/ UserUntrusts \/ CaddyDies
    BY <1>7, ForeignKeeps
  <1>8. CASE Crash
    BY <1>8, CrashKeeps
  <1>9. CASE UNCHANGED vars
    BY <1>9 DEF vars
  <1>. HIDE DEF IInv
  <1>. QED
    BY <1>1, <1>2, <1>3, <1>4, <1>5, <1>6, <1>7, <1>8, <1>9 DEF Next, Transaction

(* So it holds in every state. *)
LEMMA InvariantHolds == Spec => []IInv
  <1>. HIDE DEF IInv
  <1>. QED
    BY InitHolds, NextKeeps, PTL DEF Spec

(* Between transactions a hosts file that differs from the recorded state is     *)
(* announced by the journal or by cleanup_pending, whatever failed or crashed,   *)
(* unless one of the named exceptions owes the repair.                           *)
THEOREM DriftRecorded == Spec => []DriftIsRecorded
  <1>1. IInv => DriftIsRecorded
    OBVIOUS
  <1>. HIDE DEF IInv, DriftIsRecorded
  <1>. QED
    BY <1>1, InvariantHolds, PTL

(* A compensation that reports no failure has put hosts and trust back and left *)
(* no Caddy running that did not run before.                                    *)
THEOREM RollbackComplete == Spec => []RollbackIsComplete
  <1>1. IInv => RollbackIsComplete
    BY DEF RollbackIsComplete, TxRecords
  <1>. HIDE DEF IInv
  <1>. QED
    BY <1>1, InvariantHolds, PTL

(* Only three steps write route-state.json. *)
LEMMA WhoSaves ==
  ASSUME IInv, [Next]_vars, state' # state
  PROVE  \E ok \in BOOLEAN : SavesState(ok) \/ UndoSave(ok) \/ NeutralSave(ok)
  <1>1. \A ok \in BOOLEAN : Steps(ok) => SavesState(ok) \/ UndoSave(ok) \/ NeutralSave(ok)
    BY DEF Steps, AppliesHosts, Advances, StopsCaddy, UntrustsCA, TrustsCA, ClearsJournal, UndoCA, UndoCaddy,
           UndoHosts, RedoCA, UndoClear, NeutralHosts, NeutralCaddy, NeutralCA, NeutralClear
  <1>2. Next => \E ok \in BOOLEAN : Steps(ok)
    BY DEF Next, Transaction, HelperIsMissing, HostsAreUnchanged, RedirectFails, TrustQueryFails, AppliesCaddy,
           SavesDesired, NeutralizeBegins, Begins, ResumeCaddy, OthersEditHosts, UserUntrusts, CaddyDies,
           Foreign, Crash
  <1>3. Next
    BY DEF vars
  <1>. QED
    BY <1>1, <1>2, <1>3

(* What is recorded in route-state.json is what is in effect, at a commit and at *)
(* the quarantine of a restore.                                                  *)
THEOREM RecordTrue == Spec => RecordIsTrue
  <1>1. ASSUME IInv, [Next]_vars, pc = "commit", state' # state, ~tx.touched
        PROVE  /\ hosts = state'.rev.hosts
               /\ state'.status = "applied" =>
                    /\ (caddy = NoCaddy) = (state'.rev.caddy = NoCaddy)
                    /\ caddy # NoCaddy => trusted
    <2>1. PICK ok \in BOOLEAN : SavesState(ok)
      BY <1>1, WhoSaves DEF UndoSave, NeutralSave
    <2>2. state' = [rev |-> tx.target, pending |-> FALSE,
                    status |-> IF tx.conflict THEN "hosts_only" ELSE "applied"]
      BY <1>1, <2>1 DEF SavesState
    <2>3. state'.rev = tx.target /\ (state'.status = "applied" => ~tx.conflict)
      BY <2>2
    <2>. QED
      BY <1>1, <2>3
  <1>2. ASSUME IInv, [Next]_vars, state' # state, state'.status = "quarantined", ~tx.touched
        PROVE  hosts = NoHosts /\ caddy = NoCaddy /\ ~trusted /\ journal = "none"
    <2>1. PICK ok \in BOOLEAN : SavesState(ok) \/ UndoSave(ok) \/ NeutralSave(ok)
      BY <1>2, WhoSaves
    <2>2. ~SavesState(ok)
      BY <1>2 DEF SavesState
    <2>3. ~UndoSave(ok)
      <3>1. [tx.before EXCEPT !.status = "error", !.pending = tx.failed].status = "error"
        BY <1>2 DEF TxRecords, States
      <3>. QED
        BY <1>2, <3>1 DEF UndoSave
    <2>4. NeutralSave(ok) /\ ok
      BY <1>2, <2>1, <2>2, <2>3 DEF NeutralSave
    <2>5. ~tx.failed
      <3>1. [tx.before EXCEPT !.status = "cleanup_pending"].status = "cleanup_pending"
        BY <1>2 DEF TxRecords, States
      <3>. QED
        BY <1>2, <2>4, <3>1 DEF NeutralSave, NeutralState
    <2>. QED
      BY <1>2, <2>4, <2>5 DEF NeutralSave
  <1>. HIDE DEF IInv
  <1>3. IInv /\ [Next]_vars =>
          /\ (pc = "commit" /\ state' # state /\ ~tx.touched =>
                /\ hosts = state'.rev.hosts
                /\ state'.status = "applied" =>
                     /\ (caddy = NoCaddy) = (state'.rev.caddy = NoCaddy)
                     /\ caddy # NoCaddy => trusted)
          /\ (state' # state /\ state'.status = "quarantined" /\ ~tx.touched =>
                hosts = NoHosts /\ caddy = NoCaddy /\ ~trusted /\ journal = "none")
    BY <1>1, <1>2
  <1>. QED
    BY <1>3, InvariantHolds, PTL DEF RecordIsTrue, CommitIsTrue, QuarantineIsNeutral, Spec

=============================================================================
