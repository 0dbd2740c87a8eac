------------------------------ MODULE SSHConnPool ------------------------------
(***************************************************************************)
(* The shared pool of first-hop SSH connections                            *)
(* (internal/forward/conn_pool.go, chain_lease.go).                        *)
(*                                                                         *)
(* A pool entry serialises on its mutex everything that happens to one     *)
(* first-hop connection: acquisition, re-dialling, release, the watcher    *)
(* and the keepalive goroutine, RetireHost, CloseAll and the abort of a    *)
(* captured generation.  Every critical section but one is a single        *)
(* action; acquire keeps the mutex while it dials, so "some lease is       *)
(* dialling on e" is the entry's lock.  closeAll always runs after the     *)
(* mutex was given back and is an action of its own.                       *)
(*                                                                         *)
(* client and generation change together, once per successful dial, so a   *)
(* client is named by its generation.                                      *)
(***************************************************************************)
EXTENDS Naturals, FiniteSets

CONSTANTS
    Leases,      \* concurrent calls of LeaseChain
    Identities,  \* ConnectionIdentity values in use
    IdentityOf,  \* the first hop of each lease
    Hosts,       \* SSHHost.ID values
    HostOf,      \* the host an identity belongs to
    Retirers,    \* goroutines that run RetireHost and CloseAll
    MaxEntries,  \* bound: pool entries ever created
    MaxDials     \* bound: successful dials

ASSUME PoolAssumption ==
    /\ IsFiniteSet(Leases)
    /\ IdentityOf \in [Leases -> Identities]
    /\ HostOf \in [Identities -> Hosts]
    /\ MaxEntries \in Nat
    /\ MaxDials \in Nat

Entries  == 1..MaxEntries
Clients  == 1..MaxDials
NoEntry  == 0
NoClient == 0
Monitors == {"watch", "keepAlive"}

VARIABLES
    entryOf,         \* pool.entries: the entry an identity leads to
    entryCount,      \* entries created so far
    nextGeneration,  \* pool.nextGeneration
    client,          \* entry.client (and entry.generation)
    dead,            \* entry.dead
    refs,            \* entry.refs
    owner,           \* the entry that dialled a client: its goroutines' receiver
    conn,            \* the transport of a client
    monitor,         \* where a client's watcher and keepalive goroutine are
    pc,              \* where each lease is
    ent,             \* the entry a lease acquires from
    cli,             \* the client a lease references
    abortEnt,        \* captureGenerationAbort's entry
    abortCli,        \* captureGenerationAbort's client and generation
    todo,            \* entries a retirer still has to mark
    closing          \* the client a retirer marked and is about to close

poolVars  == <<entryOf, entryCount>>
entryVars == <<client, dead, refs>>
leaseVars == <<pc, ent, cli, abortEnt, abortCli>>
adminVars == <<todo, closing>>
vars == <<poolVars, nextGeneration, entryVars, owner, conn, monitor, leaseVars, adminVars>>

Init ==
    /\ entryOf = [i \in Identities |-> NoEntry]
    /\ entryCount = 0
    /\ nextGeneration = 0
    /\ client = [e \in Entries |-> NoClient]
    /\ dead = [e \in Entries |-> FALSE]
    /\ refs = [e \in Entries |-> 0]
    /\ owner = [c \in Clients |-> NoEntry]
    /\ conn = [c \in Clients |-> "none"]
    /\ monitor = [m \in Monitors |-> [c \in Clients |-> "off"]]
    /\ pc = [l \in Leases |-> "idle"]
    /\ ent = [l \in Leases |-> NoEntry]
    /\ cli = [l \in Leases |-> NoClient]
    /\ abortEnt = [l \in Leases |-> NoEntry]
    /\ abortCli = [l \in Leases |-> NoClient]
    /\ todo = [r \in Retirers |-> {}]
    /\ closing = [r \in Retirers |-> NoClient]

-----------------------------------------------------------------------------
\* entry.mu is free: no acquire is dialling under it.
Unlocked(e) == \A l \in Leases : ~(pc[l] = "dial" /\ ent[l] = e)

\* A mutation: a released, dying connection is handed out again.
NeedsDialIgnoringDead(e) == client[e] = NoClient
\* The entry has nothing acquire could share.
NeedsDial(e) == client[e] = NoClient \/ dead[e]

Close(c) == conn' = [conn EXCEPT ![c] = "closed"]

\* acquire, under pool.mu: find or create the entry of the identity.
Lookup(l) ==
    LET i == IdentityOf[l] IN
    /\ pc[l] = "idle"
    /\ pc' = [pc EXCEPT ![l] = "acquire"]
    /\ \/ /\ entryOf[i] # NoEntry
          /\ ent' = [ent EXCEPT ![l] = entryOf[i]]
          /\ UNCHANGED poolVars
       \/ /\ entryOf[i] = NoEntry
          /\ entryCount < MaxEntries
          /\ entryCount' = entryCount + 1
          /\ entryOf' = [entryOf EXCEPT ![i] = entryCount + 1]
          /\ ent' = [ent EXCEPT ![l] = entryCount + 1]
    /\ UNCHANGED <<nextGeneration, entryVars, owner, conn, monitor, cli, abortEnt, abortCli, adminVars>>

\* acquire, under entry.mu: a live connection is shared.
TakeShared(l) ==
    LET e == ent[l] IN
    /\ pc[l] = "acquire"
    /\ Unlocked(e)
    /\ ~NeedsDial(e)
    /\ refs' = [refs EXCEPT ![e] = @ + 1]
    /\ cli' = [cli EXCEPT ![l] = client[e]]
    /\ pc' = [pc EXCEPT ![l] = "chain"]
    /\ UNCHANGED <<poolVars, nextGeneration, client, dead, owner, conn, monitor, ent, abortEnt, abortCli, adminVars>>

\* A mutation: "needs a dial" was decided before entry.mu was taken.
BeginDialWithoutRecheck(l) ==
    /\ pc[l] = "acquire"
    /\ Unlocked(ent[l])
    /\ pc' = [pc EXCEPT ![l] = "dial"]
    /\ UNCHANGED <<poolVars, nextGeneration, entryVars, owner, conn, monitor, ent, cli, abortEnt, abortCli, adminVars>>

\* acquire, under entry.mu: dial and keep the lock.
BeginDial(l) ==
    /\ pc[l] = "acquire"
    /\ Unlocked(ent[l])
    /\ NeedsDial(ent[l])
    /\ pc' = [pc EXCEPT ![l] = "dial"]
    /\ UNCHANGED <<poolVars, nextGeneration, entryVars, owner, conn, monitor, ent, cli, abortEnt, abortCli, adminVars>>

\* The dial error goes to this caller; the entry keeps its dead generation.
DialFails(l) ==
    /\ pc[l] = "dial"
    /\ pc' = [pc EXCEPT ![l] = "idle"]
    /\ ent' = [ent EXCEPT ![l] = NoEntry]
    /\ UNCHANGED <<poolVars, nextGeneration, entryVars, owner, conn, monitor, cli, abortEnt, abortCli, adminVars>>

\* A mutation: the counter of the dead generation is carried over.
RefsAfterDialKept(e) == refs[e] + 1
RefsAfterDial(e) == 1

\* A mutation: the previous generation is never closed.
ConnAfterDialKeepingOld(e, c) == [conn EXCEPT ![c] = "open"]
\* The new transport is up and oldClose has run.
ConnAfterDial(e, c) ==
    [x \in Clients |-> IF x = c THEN "open"
                       ELSE IF x = client[e] THEN "closed" ELSE conn[x]]

\* A new generation: client and closeAll, refs reset to this caller's, the two
\* goroutines started, the previous generation closed, the lock given back.
DialSucceeds(l) ==
    LET e == ent[l]
        c == nextGeneration + 1
    IN
    /\ pc[l] = "dial"
    /\ c \in Clients
    /\ nextGeneration' = c
    /\ client' = [client EXCEPT ![e] = c]
    /\ dead' = [dead EXCEPT ![e] = FALSE]
    /\ refs' = [refs EXCEPT ![e] = RefsAfterDial(e)]
    /\ owner' = [owner EXCEPT ![c] = e]
    /\ conn' = ConnAfterDial(e, c)
    /\ monitor' = [m \in Monitors |-> [monitor[m] EXCEPT ![c] = "run"]]
    /\ cli' = [cli EXCEPT ![l] = c]
    /\ pc' = [pc EXCEPT ![l] = "chain"]
    /\ UNCHANGED <<poolVars, ent, abortEnt, abortCli, adminVars>>

-----------------------------------------------------------------------------
\* captureGenerationAbort, under pool.mu: the entry the identity leads to now.
CaptureLookup(l) ==
    LET e == entryOf[IdentityOf[l]] IN
    /\ pc[l] = "chain"
    /\ abortEnt' = [abortEnt EXCEPT ![l] = e]
    /\ pc' = [pc EXCEPT ![l] = IF e = NoEntry THEN "held" ELSE "capture"]
    /\ UNCHANGED <<poolVars, nextGeneration, entryVars, owner, conn, monitor, ent, cli, abortCli, adminVars>>

\* captureGenerationAbort, under entry.mu: its client and generation now.
CaptureRead(l) ==
    /\ pc[l] = "capture"
    /\ Unlocked(abortEnt[l])
    /\ abortCli' = [abortCli EXCEPT ![l] = client[abortEnt[l]]]
    /\ pc' = [pc EXCEPT ![l] = "held"]
    /\ UNCHANGED <<poolVars, nextGeneration, entryVars, owner, conn, monitor, ent, cli, abortEnt, adminVars>>

\* release: the pooled client is still the one this lease took.
SameGeneration(e, c) == client[e] = c

\* release, under entry.mu.  From "chain" it is the clean-up of a chain whose
\* later hops failed (dialChainFrom's closeAll), from "held" the lease's own
\* Release, run at most once.  A lease of an older generation is ignored.
Release(l) ==
    LET e == ent[l] IN
    /\ pc[l] \in {"chain", "held"}
    /\ Unlocked(e)
    /\ IF SameGeneration(e, cli[l])
       THEN /\ refs' = [refs EXCEPT ![e] = @ - 1]
            /\ dead' = [dead EXCEPT ![e] = @ \/ refs[e] = 1]
            /\ pc' = [pc EXCEPT ![l] = IF refs[e] = 1 THEN "close" ELSE "released"]
       ELSE /\ pc' = [pc EXCEPT ![l] = "released"]
            /\ UNCHANGED <<refs, dead>>
    /\ UNCHANGED <<poolVars, nextGeneration, client, owner, conn, monitor, ent, cli, abortEnt, abortCli, adminVars>>

\* A mutation: the last release never closes the transport.
ReleaseForgetsClose(l) ==
    /\ pc[l] = "close"
    /\ pc' = [pc EXCEPT ![l] = "released"]
    /\ UNCHANGED <<poolVars, nextGeneration, entryVars, owner, conn, monitor, ent, cli, abortEnt, abortCli, adminVars>>

\* release, after unlocking: closeAll.
ReleaseCloses(l) ==
    /\ pc[l] = "close"
    /\ Close(cli[l])
    /\ pc' = [pc EXCEPT ![l] = "released"]
    /\ UNCHANGED <<poolVars, nextGeneration, entryVars, owner, monitor, ent, cli, abortEnt, abortCli, adminVars>>

\* AbortGeneration, under entry.mu: called after Release, when Stop's deadline
\* has passed; without an entry it does nothing.
AbortGeneration(l) ==
    LET e == abortEnt[l] IN
    /\ pc[l] = "released"
    /\ e # NoEntry
    /\ Unlocked(e)
    /\ client[e] = abortCli[l]
    /\ dead' = [dead EXCEPT ![e] = TRUE]
    /\ pc' = [pc EXCEPT ![l] = IF client[e] = NoClient THEN "released" ELSE "abort"]
    /\ UNCHANGED <<poolVars, nextGeneration, client, refs, owner, conn, monitor, ent, cli, abortEnt, abortCli, adminVars>>

AbortCloses(l) ==
    /\ pc[l] = "abort"
    /\ Close(abortCli[l])
    /\ pc' = [pc EXCEPT ![l] = "released"]
    /\ UNCHANGED <<poolVars, nextGeneration, entryVars, owner, monitor, ent, cli, abortEnt, abortCli, adminVars>>

\* The caller drops a released lease and may lease again (Rebuild, next Start).
Forget(l) ==
    /\ pc[l] = "released"
    /\ pc' = [pc EXCEPT ![l] = "idle"]
    /\ ent' = [ent EXCEPT ![l] = NoEntry]
    /\ cli' = [cli EXCEPT ![l] = NoClient]
    /\ abortEnt' = [abortEnt EXCEPT ![l] = NoEntry]
    /\ abortCli' = [abortCli EXCEPT ![l] = NoClient]
    /\ UNCHANGED <<poolVars, nextGeneration, entryVars, owner, conn, monitor, adminVars>>

-----------------------------------------------------------------------------
\* The network or the server drops an open transport.
TransportLost(c) ==
    /\ conn[c] = "open"
    /\ conn' = [conn EXCEPT ![c] = "lost"]
    /\ UNCHANGED <<poolVars, nextGeneration, entryVars, owner, monitor, leaseVars, adminVars>>

\* watch returns from Wait; keepAliveLoop's probe fails, which may also happen
\* on a transport that is merely slow.  Both mark the entry under entry.mu if it
\* still holds their generation.
MonitorMarksDead(m, c) ==
    LET e == owner[c] IN
    /\ monitor[m][c] = "run"
    /\ m = "watch" => conn[c] # "open"
    /\ Unlocked(e)
    /\ IF SameGeneration(e, c)
       THEN /\ dead' = [dead EXCEPT ![e] = TRUE]
            /\ monitor' = [monitor EXCEPT ![m][c] = "close"]
       ELSE /\ monitor' = [monitor EXCEPT ![m][c] = "exit"]
            /\ UNCHANGED dead
    /\ UNCHANGED <<poolVars, nextGeneration, client, refs, owner, conn, leaseVars, adminVars>>

\* The goroutine's closeAll, after unlocking.
MonitorCloses(m, c) ==
    /\ monitor[m][c] = "close"
    /\ Close(c)
    /\ monitor' = [monitor EXCEPT ![m][c] = "exit"]
    /\ UNCHANGED <<poolVars, nextGeneration, entryVars, owner, leaseVars, adminVars>>

\* keepAliveLoop sees its stop channel closed by closeAll.
KeepAliveStops(c) ==
    /\ monitor["keepAlive"][c] = "run"
    /\ conn[c] = "closed"
    /\ monitor' = [monitor EXCEPT !["keepAlive"][c] = "exit"]
    /\ UNCHANGED <<poolVars, nextGeneration, entryVars, owner, conn, leaseVars, adminVars>>

-----------------------------------------------------------------------------
Idle(r) == todo[r] = {} /\ closing[r] = NoClient

\* RetireHost, under pool.mu: unlink the host's entries, remember them.
RetireHost(r, h) ==
    /\ Idle(r)
    /\ todo' = [todo EXCEPT ![r] = {entryOf[i] : i \in {j \in Identities : HostOf[j] = h}} \ {NoEntry}]
    /\ entryOf' = [i \in Identities |-> IF HostOf[i] = h THEN NoEntry ELSE entryOf[i]]
    /\ UNCHANGED <<entryCount, nextGeneration, entryVars, owner, conn, monitor, leaseVars, closing>>

\* CloseAll, under pool.mu: remember every entry, unlink none.
CloseAll(r) ==
    /\ Idle(r)
    /\ todo' = [todo EXCEPT ![r] = {entryOf[i] : i \in Identities} \ {NoEntry}]
    /\ UNCHANGED <<poolVars, nextGeneration, entryVars, owner, conn, monitor, leaseVars, closing>>

\* Both, under entry.mu, one entry after the other.
RetirerMarksDead(r, e) ==
    /\ e \in todo[r]
    /\ closing[r] = NoClient
    /\ Unlocked(e)
    /\ dead' = [dead EXCEPT ![e] = TRUE]
    /\ closing' = [closing EXCEPT ![r] = client[e]]
    /\ todo' = [todo EXCEPT ![r] = @ \ {e}]
    /\ UNCHANGED <<poolVars, nextGeneration, client, refs, owner, conn, monitor, leaseVars>>

\* Both, after unlocking: closeAll of the generation they found.
RetirerCloses(r) ==
    /\ closing[r] # NoClient
    /\ Close(closing[r])
    /\ closing' = [closing EXCEPT ![r] = NoClient]
    /\ UNCHANGED <<poolVars, nextGeneration, entryVars, owner, monitor, leaseVars, todo>>

-----------------------------------------------------------------------------
LeaseNext(l) ==
    \/ Lookup(l) \/ TakeShared(l) \/ BeginDial(l) \/ DialFails(l) \/ DialSucceeds(l)
    \/ CaptureLookup(l) \/ CaptureRead(l)
    \/ Release(l) \/ ReleaseCloses(l) \/ AbortGeneration(l) \/ AbortCloses(l) \/ Forget(l)

ClientNext(c) ==
    \/ TransportLost(c) \/ KeepAliveStops(c)
    \/ \E m \in Monitors : MonitorMarksDead(m, c) \/ MonitorCloses(m, c)

RetirerNext(r) ==
    \/ \E h \in Hosts : RetireHost(r, h)
    \/ CloseAll(r)
    \/ \E e \in Entries : RetirerMarksDead(r, e)
    \/ RetirerCloses(r)

Next ==
    \/ \E l \in Leases : LeaseNext(l)
    \/ \E c \in Clients : ClientNext(c)
    \/ \E r \in Retirers : RetirerNext(r)

Spec == Init /\ [][Next]_vars

\* Whoever has marked an entry dead runs on to close its transport.  Callers are
\* free to keep a lease, nothing makes the network fail, and nobody has to call
\* RetireHost or CloseAll.  A dial need not end either: ClientConfig.Timeout bounds
\* the TCP connect, and a peer that is silent in the handshake holds entry.mu.
FairSpec ==
    /\ Spec
    /\ \A l \in Leases : WF_vars(ReleaseCloses(l)) /\ WF_vars(AbortCloses(l))
    /\ \A c \in Clients, m \in Monitors : WF_vars(MonitorCloses(m, c))
    /\ \A r \in Retirers : WF_vars(RetirerCloses(r))

-----------------------------------------------------------------------------
Statuses == {"idle", "acquire", "dial", "chain", "capture", "held", "close", "released", "abort"}

\* The values every variable ranges over: the one type invariant of the pool.
TypeOK ==
    /\ entryOf \in [Identities -> Entries \union {NoEntry}]
    /\ entryCount \in 0..MaxEntries
    /\ nextGeneration \in 0..MaxDials
    /\ client \in [Entries -> Clients \union {NoClient}]
    /\ dead \in [Entries -> BOOLEAN]
    /\ refs \in [Entries -> Nat]
    /\ owner \in [Clients -> Entries \union {NoEntry}]
    /\ conn \in [Clients -> {"none", "open", "lost", "closed"}]
    /\ monitor \in [Monitors -> [Clients -> {"off", "run", "close", "exit"}]]
    /\ pc \in [Leases -> Statuses]
    /\ ent \in [Leases -> Entries \union {NoEntry}]
    /\ cli \in [Leases -> Clients \union {NoClient}]
    /\ abortEnt \in [Leases -> Entries \union {NoEntry}]
    /\ abortCli \in [Leases -> Clients \union {NoClient}]
    /\ todo \in [Retirers -> SUBSET Entries]
    /\ closing \in [Retirers -> Clients \union {NoClient}]

\* The lease has referenced c and has not released it.
Holds(l, c) == pc[l] \in {"chain", "capture", "held"} /\ cli[l] = c
Holders(c) == {l \in Leases : Holds(l, c)}

\* Somebody has marked c's entry dead and is about to run c's closeAll.
CloseDue(c) ==
    \/ \E l \in Leases : pc[l] = "close" /\ cli[l] = c
    \/ \E l \in Leases : pc[l] = "abort" /\ abortCli[l] = c
    \/ \E m \in Monitors : monitor[m][c] = "close"
    \/ \E r \in Retirers : closing[r] = c

\* The reference count of an entry is the number of leases that hold its
\* current generation, whatever late releases, re-dials, retirements and aborts
\* came in between (poolEntry.refs; "the count belongs to the generation").
RefsCountHolders ==
    \A e \in Entries : client[e] # NoClient => refs[e] = Cardinality(Holders(client[e]))

\* A release that closes a transport closes one no other lease still uses: the
\* close runs after the unlock, and no acquire may slip in between.
ReleaseClosesUnshared ==
    \A l \in Leases : pc[l] = "close" => Holders(cli[l]) = {}

\* What acquire would hand out is in use and was not closed by this process: a
\* live entry always has a lease, and nobody is about to close its client.
LiveEntryIsSound ==
    \A e \in Entries : client[e] # NoClient /\ ~dead[e] =>
        /\ Holders(client[e]) # {}
        /\ conn[client[e]] # "closed"
        /\ ~CloseDue(client[e])

\* Only the current generation of an entry can have an unclosed transport, and
\* only while a lease holds it live or somebody is about to close it: neither a
\* re-dial nor an unlinked entry leaves a connection nobody will ever close.
NoStrayTransport ==
    \A c \in 1..nextGeneration : conn[c] # "closed" =>
        /\ client[owner[c]] = c
        /\ dead[owner[c]] => CloseDue(c)

\* A live generation is never replaced: a re-dial happens only on an entry
\* whose connection is gone, so leases of one identity share one transport.
ReplacesOnlyDead ==
    [][\A e \in Entries : client'[e] # client[e] => client[e] = NoClient \/ dead[e]]_vars

\* A transport that no lease references is eventually closed, even if its entry
\* was retired or its generation replaced meanwhile.
UnheldIsClosed ==
    \A c \in Clients : (conn[c] \in {"open", "lost"} /\ Holders(c) = {}) ~> conn[c] = "closed"

\* chain_lease.go:14-15 promises that the abort of a timed-out Stop terminates
\* exactly the first-hop generation the lease captured.
AbortTargetsOwnGeneration ==
    \A l \in Leases : pc[l] = "held" => abortEnt[l] = ent[l] /\ abortCli[l] = cli[l]

-----------------------------------------------------------------------------
\* The strengthening that makes the invariants above inductive: every client in
\* use was dialled, by the entry that owns it; a lease's client belongs to its
\* entry; entry.mu has one owner, and it dials only what needs a dial.
Dialled(c) == c \in 1..nextGeneration
IsReference(l) == pc[l] \in {"chain", "capture", "held", "close"}

OwnersKnown ==
    /\ \A c \in 1..nextGeneration : owner[c] \in Entries
    /\ \A e \in Entries : client[e] # NoClient => Dialled(client[e]) /\ owner[client[e]] = e
    /\ \A m \in Monitors, c \in Clients : monitor[m][c] # "off" => Dialled(c)
    /\ \A r \in Retirers : closing[r] # NoClient => Dialled(closing[r])

LeasesWellFormed ==
    /\ \A l \in Leases : pc[l] \in {"acquire", "dial"} => ent[l] \in Entries
    /\ \A l \in Leases : IsReference(l) =>
         Dialled(cli[l]) /\ ent[l] \in Entries /\ owner[cli[l]] = ent[l]
    /\ \A l \in Leases : abortCli[l] # NoClient => Dialled(abortCli[l])
    /\ \A l \in Leases : pc[l] = "capture" => abortEnt[l] \in Entries
    /\ \A l \in Leases : pc[l] = "abort" => abortCli[l] # NoClient

LockIsExclusive ==
    \A l, k \in Leases :
        pc[l] = "dial" => /\ NeedsDial(ent[l])
                          /\ pc[k] = "dial" /\ ent[k] = ent[l] => k = l

IInv ==
    /\ TypeOK
    /\ OwnersKnown
    /\ LeasesWellFormed
    /\ LockIsExclusive
    /\ RefsCountHolders
    /\ ReleaseClosesUnshared
    /\ LiveEntryIsSound
    /\ NoStrayTransport

=============================================================================
