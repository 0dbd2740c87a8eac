--------------------------- MODULE SSHConnPoolProofs ---------------------------
(***************************************************************************)
(* Safety of the connection pool for every number of leases, identities,   *)
(* hosts, retirers, entries and dials.                                     *)
(***************************************************************************)
EXTENDS SSHConnPool, FiniteSetTheorems, TLAPS

\* The holders of a client are leases, so they are finitely many.
LEMMA HoldersFinite ==
    ASSUME NEW c
    PROVE  IsFiniteSet(Holders(c)) /\ Cardinality(Holders(c)) \in Nat
  <1>1. Holders(c) \in SUBSET Leases
    BY DEF Holders
  <1>. QED
    BY <1>1, PoolAssumption, FS_Subset, FS_CardinalityType

\* A lease that is about to release the current generation is counted.
LEMMA ReleaserIsCounted ==
    ASSUME IInv, NEW l \in Leases, pc[l] \in {"chain", "held"}, client[ent[l]] = cli[l]
    PROVE  /\ ent[l] \in Entries
           /\ client[ent[l]] # NoClient
           /\ l \in Holders(cli[l])
           /\ refs[ent[l]] = Cardinality(Holders(cli[l]))
           /\ refs[ent[l]] \in Nat
           /\ refs[ent[l]] >= 1
           /\ refs[ent[l]] = 1 => Holders(cli[l]) = {l}
           /\ refs[ent[l]] # 1 => \E k \in Leases : k # l /\ Holds(k, cli[l])
  <1>1. ent[l] \in Entries /\ cli[l] \in 1..nextGeneration
    BY DEF IInv, LeasesWellFormed, IsReference, Dialled
  <1>2. cli[l] # NoClient
    BY <1>1 DEF NoClient, IInv, TypeOK
  <1>3. l \in Holders(cli[l])
    BY DEF Holders, Holds
  <1>4. refs[ent[l]] = Cardinality(Holders(cli[l]))
    BY <1>1, <1>2 DEF IInv, RefsCountHolders
  <1>5. IsFiniteSet(Holders(cli[l])) /\ Cardinality(Holders(cli[l])) \in Nat
    BY HoldersFinite
  <1>6. Cardinality(Holders(cli[l])) # 0
    BY <1>3, <1>5, FS_EmptySet
  <1>7. Cardinality(Holders(cli[l])) = 1 => Holders(cli[l]) = {l}
    BY <1>3, <1>5, FS_Singleton
  <1>8. Cardinality(Holders(cli[l])) # 1 => Holders(cli[l]) # {l}
    BY <1>5, FS_Singleton
  <1>9. Cardinality(Holders(cli[l])) # 1 => \E k \in Leases : k # l /\ Holds(k, cli[l])
    BY <1>3, <1>8 DEF Holders
  <1>. QED
    BY <1>1, <1>2, <1>3, <1>4, <1>5, <1>6, <1>7, <1>9

\* Typing is kept by every step; only release needs more than typing.
LEMMA TypeStep ==
    IInv /\ [Next]_vars => TypeOK'
  <1>. SUFFICES ASSUME IInv, [Next]_vars
                PROVE  TypeOK'
    OBVIOUS
  <1>. USE DEF TypeOK, Statuses, Monitors, Entries, Clients, NoEntry, NoClient
  <1>0. TypeOK
    BY DEF IInv
  <1>1. ASSUME NEW l \in Leases, Lookup(l) PROVE TypeOK'
    <2>1. entryOf[IdentityOf[l]] \in Entries \union {NoEntry}
      BY <1>0, PoolAssumption
    <2>2. CASE entryOf[IdentityOf[l]] # NoEntry
      BY <1>0, <1>1, <2>1, <2>2 DEF Lookup, poolVars, entryVars, adminVars
    <2>3. CASE entryOf[IdentityOf[l]] = NoEntry
      <3>1. entryCount + 1 \in Entries
        BY <1>0, <1>1, <2>3, PoolAssumption DEF Lookup
      <3>2. entryOf' \in [Identities -> Entries \union {NoEntry}]
        BY <1>0, <1>1, <2>3, <3>1 DEF Lookup
      <3>3. ent' \in [Leases -> Entries \union {NoEntry}]
        BY <1>0, <1>1, <2>3, <3>1 DEF Lookup
      <3>4. pc' \in [Leases -> Statuses] /\ entryCount' \in 0..MaxEntries
        BY <1>0, <1>1, <2>3, <3>1, PoolAssumption DEF Lookup
      <3>. HIDE DEF Entries, Statuses
      <3>. QED
        BY <1>0, <1>1, <3>2, <3>3, <3>4 DEF Lookup, entryVars, adminVars
    <2>. QED
      BY <2>2, <2>3
  <1>2. ASSUME NEW l \in Leases, TakeShared(l) PROVE TypeOK'
    BY <1>0, <1>2 DEF TakeShared, poolVars, adminVars, IInv, LeasesWellFormed
  <1>3. ASSUME NEW l \in Leases, BeginDial(l) PROVE TypeOK'
    BY <1>0, <1>3 DEF BeginDial, poolVars, entryVars, adminVars
  <1>4. ASSUME NEW l \in Leases, DialFails(l) PROVE TypeOK'
    BY <1>0, <1>4 DEF DialFails, poolVars, entryVars, adminVars
  <1>5. ASSUME NEW l \in Leases, DialSucceeds(l) PROVE TypeOK'
    <2>. DEFINE c == nextGeneration + 1
    <2>1. c \in Clients /\ nextGeneration' \in 0..MaxDials
      BY <1>0, <1>5, PoolAssumption DEF DialSucceeds
    <2>2. client' \in [Entries -> Clients \union {NoClient}] /\ refs' \in [Entries -> Nat]
      BY <1>0, <1>5, <2>1 DEF DialSucceeds, RefsAfterDial
    <2>3. conn' \in [Clients -> {"none", "open", "lost", "closed"}]
      BY <1>0, <1>5 DEF DialSucceeds, ConnAfterDial
    <2>4. monitor' \in [Monitors -> [Clients -> {"off", "run", "close", "exit"}]]
      BY <1>0, <1>5 DEF DialSucceeds
    <2>5. owner' \in [Clients -> Entries \union {NoEntry}] /\ cli' \in [Leases -> Clients \union {NoClient}]
      BY <1>0, <1>5, <2>1 DEF DialSucceeds
    <2>6. pc' \in [Leases -> Statuses] /\ dead' \in [Entries -> BOOLEAN]
      BY <1>0, <1>5 DEF DialSucceeds
    <2>. HIDE DEF Entries, Clients, Statuses
    <2>. QED
      BY <1>0, <1>5, <2>1, <2>2, <2>3, <2>4, <2>5, <2>6 DEF DialSucceeds, poolVars, adminVars
  <1>6. ASSUME NEW l \in Leases, CaptureLookup(l) PROVE TypeOK'
    BY <1>0, <1>6, PoolAssumption DEF CaptureLookup, poolVars, entryVars, adminVars
  <1>7. ASSUME NEW l \in Leases, CaptureRead(l) PROVE TypeOK'
    BY <1>0, <1>7 DEF CaptureRead, poolVars, entryVars, adminVars, IInv, LeasesWellFormed
  <1>8. ASSUME NEW l \in Leases, Release(l) PROVE TypeOK'
    <2>1. CASE SameGeneration(ent[l], cli[l])
      <3>1. refs[ent[l]] - 1 \in Nat
        BY <1>8, <2>1, ReleaserIsCounted DEF Release, SameGeneration
      <3>2. refs' \in [Entries -> Nat]
        BY <1>0, <1>8, <2>1, <3>1 DEF Release
      <3>. QED
        BY <1>0, <1>8, <2>1, <3>2 DEF Release, poolVars, adminVars
    <2>2. CASE ~SameGeneration(ent[l], cli[l])
      BY <1>0, <1>8, <2>2 DEF Release, poolVars, adminVars
    <2>. QED
      BY <2>1, <2>2
  <1>9. ASSUME NEW l \in Leases, ReleaseCloses(l) PROVE TypeOK'
    BY <1>0, <1>9 DEF ReleaseCloses, Close, poolVars, entryVars, adminVars
  <1>10. ASSUME NEW l \in Leases, AbortGeneration(l) PROVE TypeOK'
    BY <1>0, <1>10 DEF AbortGeneration, poolVars, adminVars
  <1>11. ASSUME NEW l \in Leases, AbortCloses(l) PROVE TypeOK'
    BY <1>0, <1>11 DEF AbortCloses, Close, poolVars, entryVars, adminVars
  <1>12. ASSUME NEW l \in Leases, Forget(l) PROVE TypeOK'
    BY <1>0, <1>12 DEF Forget, poolVars, entryVars, adminVars
  <1>13. ASSUME NEW c \in Clients, TransportLost(c) PROVE TypeOK'
    BY <1>0, <1>13 DEF TransportLost, poolVars, entryVars, leaseVars, adminVars
  <1>14. ASSUME NEW c \in Clients, NEW m \in Monitors, MonitorMarksDead(m, c) PROVE TypeOK'
    <2>0. PICK s \in {"close", "exit"} : monitor' = [monitor EXCEPT ![m][c] = s]
      BY <1>14 DEF MonitorMarksDead
    <2>1. monitor' \in [Monitors -> [Clients -> {"off", "run", "close", "exit"}]]
      BY <1>0, <2>0
    <2>2. dead' \in [Entries -> BOOLEAN]
      BY <1>0, <1>14 DEF MonitorMarksDead
    <2>. HIDE DEF Entries, Clients, Statuses
    <2>. QED
      BY <1>0, <1>14, <2>1, <2>2 DEF MonitorMarksDead, poolVars, leaseVars, adminVars
  <1>15. ASSUME NEW c \in Clients, NEW m \in Monitors, MonitorCloses(m, c) PROVE TypeOK'
    BY <1>0, <1>15 DEF MonitorCloses, Close, poolVars, entryVars, leaseVars, adminVars
  <1>16. ASSUME NEW c \in Clients, KeepAliveStops(c) PROVE TypeOK'
    BY <1>0, <1>16 DEF KeepAliveStops, poolVars, entryVars, leaseVars, adminVars
  <1>17. ASSUME NEW r \in Retirers, NEW h \in Hosts, RetireHost(r, h) PROVE TypeOK'
    BY <1>0, <1>17 DEF RetireHost, entryVars, leaseVars
  <1>18. ASSUME NEW r \in Retirers, CloseAll(r) PROVE TypeOK'
    BY <1>0, <1>18 DEF CloseAll, poolVars, entryVars, leaseVars
  <1>19. ASSUME NEW r \in Retirers, NEW e \in Entries, RetirerMarksDead(r, e) PROVE TypeOK'
    BY <1>0, <1>19 DEF RetirerMarksDead, poolVars, leaseVars
  <1>20. ASSUME NEW r \in Retirers, RetirerCloses(r) PROVE TypeOK'
    BY <1>0, <1>20 DEF RetirerCloses, Close, poolVars, entryVars, leaseVars
  <1>21. CASE UNCHANGED vars
    BY <1>0, <1>21 DEF vars, poolVars, entryVars, leaseVars, adminVars
  <1>. QED
    BY <1>1, <1>2, <1>3, <1>4, <1>5, <1>6, <1>7, <1>8, <1>9, <1>10, <1>11, <1>12, <1>13,
       <1>14, <1>15, <1>16, <1>17, <1>18, <1>19, <1>20, <1>21
    DEF Next, LeaseNext, ClientNext, RetirerNext

-----------------------------------------------------------------------------
\* Frames: which steps can touch the ownership of clients, and which the leases.
LEMMA OwnershipFrame ==
    ASSUME [Next]_vars
    PROVE  \/ UNCHANGED <<nextGeneration, client, owner, monitor, closing>>
           \/ \E l \in Leases : DialSucceeds(l)
           \/ \E c \in Clients, m \in Monitors : MonitorMarksDead(m, c) \/ MonitorCloses(m, c)
           \/ \E c \in Clients : KeepAliveStops(c)
           \/ \E r \in Retirers, e \in Entries : RetirerMarksDead(r, e)
           \/ \E r \in Retirers : RetirerCloses(r)
  <1>1. ASSUME NEW l \in Leases, LeaseNext(l)
        PROVE  UNCHANGED <<nextGeneration, client, owner, monitor, closing>> \/ DialSucceeds(l)
    BY <1>1 DEF LeaseNext, Lookup, TakeShared, BeginDial, DialFails, CaptureLookup, CaptureRead,
         Release, ReleaseCloses, AbortGeneration, AbortCloses, Forget, entryVars, adminVars
  <1>2. ASSUME NEW c \in Clients, ClientNext(c)
        PROVE  \/ UNCHANGED <<nextGeneration, client, owner, monitor, closing>>
               \/ \E m \in Monitors : MonitorMarksDead(m, c) \/ MonitorCloses(m, c)
               \/ KeepAliveStops(c)
    BY <1>2 DEF ClientNext, TransportLost, entryVars, adminVars
  <1>3. ASSUME NEW r \in Retirers, RetirerNext(r)
        PROVE  \/ UNCHANGED <<nextGeneration, client, owner, monitor, closing>>
               \/ \E e \in Entries : RetirerMarksDead(r, e)
               \/ RetirerCloses(r)
    BY <1>3 DEF RetirerNext, RetireHost, CloseAll, entryVars
  <1>4. CASE UNCHANGED vars
    BY <1>4 DEF vars, entryVars, adminVars
  <1>. QED
    BY <1>1, <1>2, <1>3, <1>4 DEF Next

LEMMA OwnersStep ==
    IInv /\ [Next]_vars => OwnersKnown'
  <1>. SUFFICES ASSUME IInv, [Next]_vars
                PROVE  OwnersKnown'
    OBVIOUS
  <1>. USE DEF OwnersKnown, Dialled
  <1>0. TypeOK /\ OwnersKnown
    BY DEF IInv
  <1>1. CASE UNCHANGED <<nextGeneration, client, owner, monitor, closing>>
    BY <1>0, <1>1
  <1>2. ASSUME NEW l \in Leases, DialSucceeds(l) PROVE OwnersKnown'
    <2>. DEFINE e == ent[l]
                c == nextGeneration + 1
    <2>1. e \in Entries /\ c \in Clients /\ nextGeneration \in Nat /\ c # NoClient
      BY <1>0, <1>2, PoolAssumption
      DEF DialSucceeds, IInv, LeasesWellFormed, TypeOK, Clients, NoClient
    <2>2. /\ nextGeneration' = c
          /\ client' = [client EXCEPT ![e] = c]
          /\ owner' = [owner EXCEPT ![c] = e]
          /\ monitor' = [m \in Monitors |-> [monitor[m] EXCEPT ![c] = "run"]]
          /\ UNCHANGED closing
      BY <1>2 DEF DialSucceeds, adminVars
    <2>3. \A x \in 1..c : owner'[x] \in Entries
      BY <1>0, <2>1, <2>2 DEF TypeOK, Clients
    <2>4. \A x \in Entries : client'[x] # NoClient => client'[x] \in 1..c /\ owner'[client'[x]] = x
      BY <1>0, <2>1, <2>2 DEF TypeOK, Clients, Entries
    <2>5. \A m \in Monitors, x \in Clients : monitor'[m][x] # "off" => x \in 1..c
      BY <1>0, <2>1, <2>2 DEF TypeOK, Clients
    <2>6. \A r \in Retirers : closing'[r] # NoClient => closing'[r] \in 1..c
      BY <1>0, <2>1, <2>2
    <2>. QED
      BY <2>2, <2>3, <2>4, <2>5, <2>6
  <1>3. ASSUME NEW c \in Clients, NEW m \in Monitors, MonitorMarksDead(m, c) \/ MonitorCloses(m, c)
        PROVE  OwnersKnown'
    <2>1. PICK s \in {"close", "exit"} : monitor' = [monitor EXCEPT ![m][c] = s]
      BY <1>3 DEF MonitorMarksDead, MonitorCloses
    <2>2. monitor[m][c] # "off" /\ UNCHANGED <<nextGeneration, client, owner, closing>>
      BY <1>3 DEF MonitorMarksDead, MonitorCloses, entryVars, adminVars
    <2>. QED
      BY <1>0, <2>1, <2>2 DEF TypeOK
  <1>4. ASSUME NEW c \in Clients, KeepAliveStops(c) PROVE OwnersKnown'
    BY <1>0, <1>4 DEF KeepAliveStops, entryVars, adminVars, TypeOK
  <1>5. ASSUME NEW r \in Retirers, NEW e \in Entries, RetirerMarksDead(r, e) PROVE OwnersKnown'
    BY <1>0, <1>5 DEF RetirerMarksDead, TypeOK
  <1>6. ASSUME NEW r \in Retirers, RetirerCloses(r) PROVE OwnersKnown'
    BY <1>0, <1>6 DEF RetirerCloses, entryVars, TypeOK
  <1>. QED
    BY <1>1, <1>2, <1>3, <1>4, <1>5, <1>6, OwnershipFrame

LEMMA LeaseFrame ==
    ASSUME [Next]_vars
    PROVE  \/ UNCHANGED <<nextGeneration, owner, leaseVars>>
           \/ \E l \in Leases : LeaseNext(l)
  BY DEF Next, vars, ClientNext, TransportLost, MonitorMarksDead, MonitorCloses, KeepAliveStops,
         RetirerNext, RetireHost, CloseAll, RetirerMarksDead, RetirerCloses

LEMMA LeasesStep ==
    IInv /\ [Next]_vars => LeasesWellFormed'
  <1>. SUFFICES ASSUME IInv, [Next]_vars
                PROVE  LeasesWellFormed'
    OBVIOUS
  <1>. USE DEF LeasesWellFormed, Dialled, IsReference
  <1>0. TypeOK /\ OwnersKnown /\ LeasesWellFormed
    BY DEF IInv
  <1>1. CASE UNCHANGED <<nextGeneration, owner, leaseVars>>
    BY <1>0, <1>1 DEF leaseVars
  <1>2. ASSUME NEW l \in Leases, Lookup(l) PROVE LeasesWellFormed'
    <2>1. entryOf[IdentityOf[l]] \in Entries \union {NoEntry}
      BY <1>0, PoolAssumption DEF TypeOK
    <2>2. CASE entryOf[IdentityOf[l]] # NoEntry
      BY <1>0, <1>2, <2>1, <2>2 DEF Lookup, TypeOK
    <2>3. CASE entryOf[IdentityOf[l]] = NoEntry
      <3>1. entryCount + 1 \in Entries
        BY <1>0, <1>2, <2>3, PoolAssumption DEF Lookup, TypeOK, Entries
      <3>2. ent' = [ent EXCEPT ![l] = entryCount + 1]
        BY <1>2, <2>3 DEF Lookup
      <3>3. pc' = [pc EXCEPT ![l] = "acquire"] /\ UNCHANGED <<nextGeneration, owner, cli, abortEnt, abortCli>>
        BY <1>2 DEF Lookup
      <3>. QED
        BY <1>0, <3>1, <3>2, <3>3 DEF TypeOK
    <2>. QED
      BY <2>2, <2>3
  <1>3. ASSUME NEW l \in Leases, TakeShared(l) PROVE LeasesWellFormed'
    <2>1. ent[l] \in Entries /\ client[ent[l]] # NoClient
      BY <1>0, <1>3 DEF TakeShared, NeedsDial
    <2>2. client[ent[l]] \in 1..nextGeneration /\ owner[client[ent[l]]] = ent[l]
      BY <1>0, <2>1 DEF OwnersKnown
    <2>. QED
      BY <1>0, <1>3, <2>1, <2>2 DEF TakeShared, TypeOK
  <1>4. ASSUME NEW l \in Leases, BeginDial(l) \/ DialFails(l) PROVE LeasesWellFormed'
    BY <1>0, <1>4 DEF BeginDial, DialFails, TypeOK
  <1>5. ASSUME NEW l \in Leases, DialSucceeds(l) PROVE LeasesWellFormed'
    <2>. DEFINE e == ent[l]
                c == nextGeneration + 1
    <2>1. e \in Entries /\ c \in Clients /\ nextGeneration \in Nat /\ c \in 1..c
      BY <1>0, <1>5, PoolAssumption DEF DialSucceeds, TypeOK, Clients
    <2>2. \A x \in 1..nextGeneration : x \in 1..c /\ owner'[x] = owner[x]
      BY <1>0, <1>5, <2>1 DEF DialSucceeds, TypeOK, Clients
    <2>3. owner'[c] = e
      BY <1>0, <1>5, <2>1 DEF DialSucceeds, TypeOK
    <2>4. /\ nextGeneration' = c
          /\ cli' = [cli EXCEPT ![l] = c]
          /\ pc' = [pc EXCEPT ![l] = "chain"]
          /\ UNCHANGED <<ent, abortEnt, abortCli>>
      BY <1>5 DEF DialSucceeds
    <2>. HIDE DEF c, IsReference
    <2>5. \A k \in Leases : IsReference(k)' =>
            cli'[k] \in 1..c /\ ent'[k] \in Entries /\ owner'[cli'[k]] = ent'[k]
      <3>. SUFFICES ASSUME NEW k \in Leases, IsReference(k)'
                    PROVE  cli'[k] \in 1..c /\ ent'[k] \in Entries /\ owner'[cli'[k]] = ent'[k]
        OBVIOUS
      <3>1. CASE k = l
        BY <1>0, <2>1, <2>3, <2>4, <3>1 DEF TypeOK
      <3>2. CASE k # l
        <4>1. cli'[k] = cli[k] /\ ent'[k] = ent[k] /\ IsReference(k)
          BY <1>0, <2>4, <3>2 DEF TypeOK, IsReference
        <4>. QED
          BY <1>0, <2>2, <4>1
      <3>. QED
        BY <3>1, <3>2
    <2>6. \A k \in Leases : abortCli'[k] # NoClient => abortCli'[k] \in 1..c
      BY <1>0, <2>2, <2>4
    <2>7. \A k \in Leases : pc'[k] # "chain" => pc'[k] = pc[k] /\ ent'[k] = ent[k]
      BY <1>0, <2>4 DEF TypeOK
    <2>8. \A k \in Leases : /\ pc'[k] \in {"acquire", "dial"} => ent'[k] \in Entries
                            /\ pc'[k] = "capture" => abortEnt'[k] \in Entries
                            /\ pc'[k] = "abort" => abortCli'[k] # NoClient
      BY <1>0, <2>4, <2>7
    <2>. QED
      BY <2>4, <2>5, <2>6, <2>8
  <1>6. ASSUME NEW l \in Leases, CaptureLookup(l) PROVE LeasesWellFormed'
    <2>1. entryOf[IdentityOf[l]] # NoEntry => entryOf[IdentityOf[l]] \in Entries
      BY <1>0, PoolAssumption DEF TypeOK
    <2>. QED
      BY <1>0, <1>6, <2>1 DEF CaptureLookup, TypeOK
  <1>7. ASSUME NEW l \in Leases, CaptureRead(l) PROVE LeasesWellFormed'
    BY <1>0, <1>7 DEF CaptureRead, TypeOK, OwnersKnown
  <1>8. ASSUME NEW l \in Leases, Release(l) PROVE LeasesWellFormed'
    <2>1. PICK s \in {"close", "released"} : pc' = [pc EXCEPT ![l] = s]
      BY <1>8 DEF Release
    <2>. QED
      BY <1>0, <1>8, <2>1 DEF Release, TypeOK
  <1>9. ASSUME NEW l \in Leases, ReleaseCloses(l) \/ AbortCloses(l) PROVE LeasesWellFormed'
    BY <1>0, <1>9 DEF ReleaseCloses, AbortCloses, TypeOK
  <1>10. ASSUME NEW l \in Leases, AbortGeneration(l) PROVE LeasesWellFormed'
    BY <1>0, <1>10 DEF AbortGeneration, TypeOK
  <1>11. ASSUME NEW l \in Leases, Forget(l) PROVE LeasesWellFormed'
    BY <1>0, <1>11 DEF Forget, TypeOK
  <1>. QED
    BY <1>1, <1>2, <1>3, <1>4, <1>5, <1>6, <1>7, <1>8, <1>9, <1>10, <1>11, LeaseFrame DEF LeaseNext

LEMMA LockStep ==
    IInv /\ [Next]_vars => LockIsExclusive'
  <1>. SUFFICES ASSUME IInv, [Next]_vars, NEW l \in Leases, NEW k \in Leases, pc'[l] = "dial"
                PROVE  NeedsDial(ent[l])' /\ (pc'[k] = "dial" /\ ent'[k] = ent'[l] => k = l)
    BY DEF LockIsExclusive
  <1>0. TypeOK /\ LeasesWellFormed /\ LockIsExclusive
    BY DEF IInv
  <1>1. ASSUME NEW x \in Leases, BeginDial(x)
        PROVE  NeedsDial(ent[l])' /\ (pc'[k] = "dial" /\ ent'[k] = ent'[l] => k = l)
    BY <1>0, <1>1 DEF BeginDial, Unlocked, NeedsDial, LockIsExclusive, TypeOK, entryVars
  <1>2. ASSUME NEW x \in Leases, DialSucceeds(x)
        PROVE  NeedsDial(ent[l])' /\ (pc'[k] = "dial" /\ ent'[k] = ent'[l] => k = l)
    <2>1. l # x /\ pc[l] = "dial" /\ ent[l] # ent[x] /\ ent[l] \in Entries /\ UNCHANGED ent
      BY <1>0, <1>2 DEF DialSucceeds, LockIsExclusive, TypeOK, LeasesWellFormed
    <2>2. client'[ent[l]] = client[ent[l]] /\ dead'[ent[l]] = dead[ent[l]]
      BY <1>0, <1>2, <2>1 DEF DialSucceeds, TypeOK
    <2>3. pc'[k] = "dial" => pc[k] = "dial"
      BY <1>0, <1>2 DEF DialSucceeds, TypeOK
    <2>. QED
      BY <1>0, <2>1, <2>2, <2>3 DEF LockIsExclusive, NeedsDial
  <1>3. ASSUME UNCHANGED client,
               \A e \in Entries : dead[e] => dead'[e],
               \A x \in Leases : pc'[x] = "dial" => pc[x] = "dial" /\ ent'[x] = ent[x]
        PROVE  NeedsDial(ent[l])' /\ (pc'[k] = "dial" /\ ent'[k] = ent'[l] => k = l)
    BY <1>0, <1>3 DEF LockIsExclusive, NeedsDial, LeasesWellFormed
  <1>4. ASSUME NEW x \in Leases, LeaseNext(x), ~BeginDial(x), ~DialSucceeds(x)
        PROVE  /\ UNCHANGED client
               /\ \A e \in Entries : dead[e] => dead'[e]
               /\ \A y \in Leases : pc'[y] = "dial" => pc[y] = "dial" /\ ent'[y] = ent[y]
    BY <1>0, <1>4 DEF LeaseNext, Lookup, TakeShared, DialFails, CaptureLookup, CaptureRead, Release,
         ReleaseCloses, AbortGeneration, AbortCloses, Forget, entryVars, TypeOK
  <1>5. ASSUME \/ UNCHANGED vars
               \/ \E c \in Clients : ClientNext(c)
               \/ \E r \in Retirers : RetirerNext(r)
        PROVE  UNCHANGED <<client, leaseVars>> /\ \A e \in Entries : dead[e] => dead'[e]
    BY <1>0, <1>5 DEF vars, ClientNext, TransportLost, MonitorMarksDead, MonitorCloses, KeepAliveStops,
         RetirerNext, RetireHost, CloseAll, RetirerMarksDead, RetirerCloses, entryVars, TypeOK
  <1>. QED
    BY <1>1, <1>2, <1>3, <1>4, <1>5 DEF Next, leaseVars

-----------------------------------------------------------------------------
\* Only sharing, a successful dial and a release change who holds what.
LEMMA HoldersFrame ==
    ASSUME TypeOK, [Next]_vars
    PROVE  \/ /\ UNCHANGED <<client, refs>>
              /\ \A l \in Leases : \A c : Holds(l, c)' <=> Holds(l, c)
           \/ \E l \in Leases : TakeShared(l) \/ DialSucceeds(l) \/ Release(l)
  <1>. USE DEF Holds
  <1>1. ASSUME NEW l \in Leases, LeaseNext(l), ~TakeShared(l), ~DialSucceeds(l), ~Release(l)
        PROVE  /\ UNCHANGED <<client, refs>>
               /\ \A k \in Leases : \A c : Holds(k, c)' <=> Holds(k, c)
    BY <1>1 DEF LeaseNext, Lookup, BeginDial, DialFails, CaptureLookup, CaptureRead,
         ReleaseCloses, AbortGeneration, AbortCloses, Forget, entryVars, TypeOK
  <1>2. ASSUME \/ UNCHANGED vars
               \/ \E c \in Clients : ClientNext(c)
               \/ \E r \in Retirers : RetirerNext(r)
        PROVE  UNCHANGED <<client, refs, pc, cli>>
    BY <1>2 DEF vars, ClientNext, TransportLost, MonitorMarksDead, MonitorCloses, KeepAliveStops,
         RetirerNext, RetireHost, CloseAll, RetirerMarksDead, RetirerCloses, entryVars, leaseVars
  <1>. QED
    BY <1>1, <1>2 DEF Next

\* No lease holds a generation that was not dialled yet.
LEMMA FreshIsUnheld ==
    ASSUME IInv
    PROVE  Holders(nextGeneration + 1) = {}
  <1>1. \A l \in Leases : Holds(l, nextGeneration + 1) => nextGeneration + 1 \in 1..nextGeneration
    BY DEF IInv, LeasesWellFormed, IsReference, Dialled, Holds
  <1>. QED
    BY <1>1 DEF Holders, IInv, TypeOK

LEMMA RefsStep ==
    IInv /\ [Next]_vars => RefsCountHolders'
  <1>. SUFFICES ASSUME IInv, [Next]_vars, NEW x \in Entries, client'[x] # NoClient
                PROVE  refs'[x] = Cardinality(Holders(client[x])')
    BY DEF RefsCountHolders, Holders, Holds
  <1>0. TypeOK /\ OwnersKnown /\ LeasesWellFormed /\ RefsCountHolders
    BY DEF IInv
  <1>1. CASE /\ UNCHANGED <<client, refs>>
             /\ \A l \in Leases : \A c : Holds(l, c)' <=> Holds(l, c)
    <2>1. Holders(client[x])' = Holders(client[x])
      BY <1>1 DEF Holders
    <2>. QED
      BY <1>0, <1>1, <2>1 DEF RefsCountHolders
  <1>2. ASSUME NEW l \in Leases, TakeShared(l)
        PROVE  refs'[x] = Cardinality(Holders(client[x])')
    <2>. DEFINE e == ent[l]
    <2>1. /\ e \in Entries
          /\ client[e] # NoClient
          /\ refs' = [refs EXCEPT ![e] = @ + 1]
          /\ cli' = [cli EXCEPT ![l] = client[e]]
          /\ pc' = [pc EXCEPT ![l] = "chain"]
          /\ pc[l] = "acquire"
          /\ UNCHANGED client
      BY <1>0, <1>2 DEF TakeShared, NeedsDial, LeasesWellFormed
    <2>. HIDE DEF e
    <2>2. CASE x = e
      <3>1. Holders(client[x])' = Holders(client[x]) \union {l} /\ l \notin Holders(client[x])
        BY <1>0, <2>1, <2>2 DEF Holders, Holds, TypeOK
      <3>2. IsFiniteSet(Holders(client[x]))
        BY HoldersFinite
      <3>3. Cardinality(Holders(client[x]) \union {l}) = Cardinality(Holders(client[x])) + 1
        BY <3>1, <3>2, FS_AddElement
      <3>. QED
        BY <1>0, <2>1, <2>2, <3>1, <3>3 DEF RefsCountHolders, TypeOK
    <2>3. CASE x # e
      <3>1. client[x] # client[e]
        BY <1>0, <2>1, <2>3 DEF OwnersKnown
      <3>2. Holders(client[x])' = Holders(client[x])
        BY <1>0, <2>1, <3>1 DEF Holders, Holds, TypeOK
      <3>. QED
        BY <1>0, <2>1, <2>3, <3>2 DEF RefsCountHolders, TypeOK
    <2>. QED
      BY <2>2, <2>3
  <1>3. ASSUME NEW l \in Leases, DialSucceeds(l)
        PROVE  refs'[x] = Cardinality(Holders(client[x])')
    <2>. DEFINE e == ent[l]
                c == nextGeneration + 1
    <2>1. /\ e \in Entries
          /\ c \notin 1..nextGeneration
          /\ client' = [client EXCEPT ![e] = c]
          /\ refs' = [refs EXCEPT ![e] = 1]
          /\ cli' = [cli EXCEPT ![l] = c]
          /\ pc' = [pc EXCEPT ![l] = "chain"]
          /\ pc[l] = "dial"
      BY <1>0, <1>3 DEF DialSucceeds, RefsAfterDial, LeasesWellFormed, TypeOK
    <2>2. Holders(c) = {}
      BY FreshIsUnheld
    <2>. HIDE DEF e, c
    <2>3. CASE x = e
      <3>1. Holders(client[x])' = {l}
        BY <1>0, <2>1, <2>2, <2>3 DEF Holders, Holds, TypeOK
      <3>. QED
        BY <1>0, <2>1, <2>3, <3>1, FS_Singleton DEF TypeOK
    <2>4. CASE x # e
      <3>1. client'[x] = client[x] /\ client[x] # c
        BY <1>0, <2>1, <2>4 DEF OwnersKnown, Dialled, TypeOK
      <3>2. Holders(client[x])' = Holders(client[x])
        BY <1>0, <2>1, <3>1 DEF Holders, Holds, TypeOK
      <3>. QED
        BY <1>0, <2>1, <2>4, <3>1, <3>2 DEF RefsCountHolders, TypeOK
    <2>. QED
      BY <2>3, <2>4
  <1>4. ASSUME NEW l \in Leases, Release(l)
        PROVE  refs'[x] = Cardinality(Holders(client[x])')
    <2>1. PICK s \in {"close", "released"} : pc' = [pc EXCEPT ![l] = s]
      BY <1>4 DEF Release
    <2>2. UNCHANGED <<client, cli>> /\ pc[l] \in {"chain", "held"} /\ ent[l] \in Entries
      BY <1>0, <1>4 DEF Release, LeasesWellFormed, IsReference
    <2>3. CASE x = ent[l] /\ client[x] = cli[l]
      <3>1. Holders(client[x])' = Holders(client[x]) \ {l} /\ l \in Holders(client[x])
        BY <1>0, <2>1, <2>2, <2>3 DEF Holders, Holds, TypeOK
      <3>2. Cardinality(Holders(client[x]) \ {l}) = Cardinality(Holders(client[x])) - 1
        BY <3>1, HoldersFinite, FS_RemoveElement
      <3>3. refs'[x] = refs[x] - 1
        BY <1>0, <1>4, <2>3 DEF Release, SameGeneration, TypeOK
      <3>. QED
        BY <1>0, <2>2, <3>1, <3>2, <3>3 DEF RefsCountHolders
    <2>4. CASE ~(x = ent[l] /\ client[x] = cli[l])
      <3>1. refs'[x] = refs[x]
        BY <1>0, <1>4, <2>4 DEF Release, SameGeneration, TypeOK
      <3>2. client[x] # cli[l]
        BY <1>0, <2>2, <2>4 DEF OwnersKnown, LeasesWellFormed, IsReference
      <3>3. Holders(client[x])' = Holders(client[x])
        BY <1>0, <2>1, <2>2, <3>2 DEF Holders, Holds, TypeOK
      <3>. QED
        BY <1>0, <2>2, <3>1, <3>3 DEF RefsCountHolders
    <2>. QED
      BY <2>3, <2>4
  <1>. QED
    BY <1>0, <1>1, <1>2, <1>3, <1>4, HoldersFrame

-----------------------------------------------------------------------------
\* What a step other than a successful dial does to an entry and the closing of
\* its client: nothing revives or reopens; who marks the entry owes the close,
\* and the close is owed until it has run.
CloseEffect(e, c) ==
    /\ dead[e] => dead'[e]
    /\ CloseDue(c)' => CloseDue(c) \/ dead'[e]
    /\ dead'[e] => dead[e] \/ CloseDue(c)'
    /\ conn[c] = "closed" => conn'[c] = "closed"
    /\ conn'[c] = "closed" => conn[c] = "closed" \/ CloseDue(c)
    /\ CloseDue(c) => CloseDue(c)' \/ conn'[c] = "closed"

LEMMA CloseStep ==
    ASSUME IInv, [Next]_vars, \A l \in Leases : ~DialSucceeds(l),
           NEW e \in Entries, NEW c, c = client[e], c # NoClient
    PROVE  CloseEffect(e, c)
  <1>. USE DEF CloseEffect, CloseDue
  <1>0. TypeOK /\ OwnersKnown /\ LeasesWellFormed /\ c \in Clients /\ owner[c] = e /\ c # NoClient
    BY DEF IInv, OwnersKnown, TypeOK
  <1>1. ASSUME NEW l \in Leases, Lookup(l) \/ TakeShared(l) \/ BeginDial(l) \/ DialFails(l)
        PROVE  CloseEffect(e, c)
    BY <1>0, <1>1 DEF Lookup, TakeShared, BeginDial, DialFails, entryVars, adminVars, TypeOK
  <1>2. ASSUME NEW l \in Leases, CaptureLookup(l) \/ CaptureRead(l) \/ Forget(l)
        PROVE  CloseEffect(e, c)
    <2>1. /\ pc[l] \notin {"close", "abort"}
          /\ pc'[l] \notin {"close", "abort"}
          /\ \A k \in Leases : k # l => pc'[k] = pc[k] /\ cli'[k] = cli[k] /\ abortCli'[k] = abortCli[k]
          /\ UNCHANGED <<dead, conn, monitor, closing>>
      BY <1>0, <1>2 DEF CaptureLookup, CaptureRead, Forget, entryVars, adminVars, TypeOK
    <2>. QED
      BY <2>1
  <1>3. ASSUME NEW l \in Leases, Release(l)
        PROVE  CloseEffect(e, c)
    <2>1. ent[l] \in Entries /\ owner[cli[l]] = ent[l] /\ pc[l] \notin {"close", "abort"}
      BY <1>0, <1>3 DEF Release, LeasesWellFormed, IsReference
    <2>2. CASE SameGeneration(ent[l], cli[l]) /\ refs[ent[l]] = 1
      <3>1. /\ pc' = [pc EXCEPT ![l] = "close"]
            /\ dead' = [dead EXCEPT ![ent[l]] = TRUE]
            /\ UNCHANGED <<conn, monitor, cli, abortCli, closing>>
        BY <1>0, <1>3, <2>1, <2>2 DEF Release, adminVars, TypeOK
      <3>2. client[ent[l]] = cli[l]
        BY <2>2 DEF SameGeneration
      <3>3. ent[l] # e => cli[l] # c
        BY <1>0, <2>1
      <3>. QED
        BY <1>0, <2>1, <3>1, <3>2, <3>3 DEF TypeOK
    <2>3. CASE ~(SameGeneration(ent[l], cli[l]) /\ refs[ent[l]] = 1)
      <3>1. /\ pc' = [pc EXCEPT ![l] = "released"]
            /\ dead' = dead
            /\ UNCHANGED <<conn, monitor, cli, abortCli, closing>>
        BY <1>0, <1>3, <2>1, <2>3 DEF Release, adminVars, TypeOK
      <3>. QED
        BY <1>0, <2>1, <3>1 DEF TypeOK
    <2>. QED
      BY <2>2, <2>3
  <1>4. ASSUME NEW l \in Leases, ReleaseCloses(l) \/ AbortCloses(l)
        PROVE  CloseEffect(e, c)
    <2>1. PICK d : /\ conn' = [conn EXCEPT ![d] = "closed"]
                   /\ \/ pc[l] = "close" /\ d = cli[l]
                      \/ pc[l] = "abort" /\ d = abortCli[l]
      BY <1>4 DEF ReleaseCloses, AbortCloses, Close
    <2>2. pc' = [pc EXCEPT ![l] = "released"] /\ UNCHANGED <<dead, monitor, cli, abortCli, closing>>
      BY <1>4 DEF ReleaseCloses, AbortCloses, entryVars, adminVars
    <2>. QED
      BY <1>0, <2>1, <2>2 DEF TypeOK
  <1>5. ASSUME NEW l \in Leases, AbortGeneration(l)
        PROVE  CloseEffect(e, c)
    <2>1. /\ abortEnt[l] \in Entries /\ pc[l] = "released"
          /\ client[abortEnt[l]] = abortCli[l]
          /\ dead' = [dead EXCEPT ![abortEnt[l]] = TRUE]
          /\ pc' = [pc EXCEPT ![l] = IF client[abortEnt[l]] = NoClient THEN "released" ELSE "abort"]
          /\ UNCHANGED <<conn, monitor, cli, abortCli, closing>>
      BY <1>0, <1>5 DEF AbortGeneration, adminVars, TypeOK
    <2>2. abortEnt[l] # e => abortCli[l] # c
      BY <1>0, <2>1 DEF OwnersKnown
    <2>. QED
      BY <1>0, <2>1, <2>2 DEF TypeOK
  <1>6. ASSUME NEW d \in Clients, TransportLost(d)
        PROVE  CloseEffect(e, c)
    BY <1>0, <1>6 DEF TransportLost, entryVars, leaseVars, adminVars, TypeOK
  <1>7. ASSUME NEW d \in Clients, NEW m \in Monitors, MonitorMarksDead(m, d)
        PROVE  CloseEffect(e, c)
    <2>1. monitor[m][d] = "run" /\ owner[d] \in Entries /\ UNCHANGED <<conn, pc, cli, abortCli, closing>>
      BY <1>0, <1>7 DEF MonitorMarksDead, OwnersKnown, Dialled, leaseVars, adminVars
    <2>2. CASE client[owner[d]] = d
      <3>1. /\ dead' = [dead EXCEPT ![owner[d]] = TRUE]
            /\ monitor' = [monitor EXCEPT ![m][d] = "close"]
        BY <1>7, <2>2 DEF MonitorMarksDead, SameGeneration
      <3>. QED
        BY <1>0, <2>1, <2>2, <3>1 DEF TypeOK
    <2>3. CASE client[owner[d]] # d
      <3>1. dead' = dead /\ monitor' = [monitor EXCEPT ![m][d] = "exit"]
        BY <1>7, <2>3 DEF MonitorMarksDead, SameGeneration
      <3>. QED
        BY <1>0, <2>1, <2>3, <3>1 DEF TypeOK
    <2>. QED
      BY <2>2, <2>3
  <1>8. ASSUME NEW d \in Clients, NEW m \in Monitors, MonitorCloses(m, d)
        PROVE  CloseEffect(e, c)
    <2>1. /\ monitor[m][d] = "close"
          /\ monitor' = [monitor EXCEPT ![m][d] = "exit"]
          /\ conn' = [conn EXCEPT ![d] = "closed"]
          /\ UNCHANGED <<dead, pc, cli, abortCli, closing>>
      BY <1>8 DEF MonitorCloses, Close, entryVars, leaseVars, adminVars
    <2>. QED
      BY <1>0, <2>1 DEF TypeOK
  <1>9. ASSUME NEW d \in Clients, KeepAliveStops(d)
        PROVE  CloseEffect(e, c)
    <2>1. /\ monitor["keepAlive"][d] = "run"
          /\ monitor' = [monitor EXCEPT !["keepAlive"][d] = "exit"]
          /\ UNCHANGED <<dead, conn, pc, cli, abortCli, closing>>
      BY <1>9 DEF KeepAliveStops, entryVars, leaseVars, adminVars
    <2>. QED
      BY <1>0, <2>1 DEF TypeOK
  <1>10. ASSUME NEW r \in Retirers, NEW x \in Entries, RetirerMarksDead(r, x)
         PROVE  CloseEffect(e, c)
    <2>1. /\ closing[r] = NoClient
          /\ dead' = [dead EXCEPT ![x] = TRUE]
          /\ closing' = [closing EXCEPT ![r] = client[x]]
          /\ UNCHANGED <<conn, monitor, pc, cli, abortCli>>
      BY <1>10 DEF RetirerMarksDead, leaseVars
    <2>2. x # e => client[x] # c
      BY <1>0 DEF OwnersKnown
    <2>. QED
      BY <1>0, <2>1, <2>2 DEF TypeOK
  <1>11. ASSUME NEW r \in Retirers, RetirerCloses(r)
         PROVE  CloseEffect(e, c)
    <2>1. /\ conn' = [conn EXCEPT ![closing[r]] = "closed"]
          /\ closing' = [closing EXCEPT ![r] = NoClient]
          /\ UNCHANGED <<dead, monitor, pc, cli, abortCli>>
      BY <1>11 DEF RetirerCloses, Close, entryVars, leaseVars
    <2>. QED
      BY <1>0, <2>1 DEF TypeOK
  <1>12. CASE \/ UNCHANGED vars
              \/ \E r \in Retirers : CloseAll(r) \/ \E h \in Hosts : RetireHost(r, h)
    <2>1. UNCHANGED <<dead, conn, monitor, pc, cli, abortCli, closing>>
      BY <1>12 DEF vars, CloseAll, RetireHost, entryVars, leaseVars, adminVars
    <2>. QED
      BY <2>1
  <1>. HIDE DEF CloseEffect
  <1>. QED
    BY <1>1, <1>2, <1>3, <1>4, <1>5, <1>6, <1>7, <1>8, <1>9, <1>10, <1>11, <1>12
    DEF Next, LeaseNext, ClientNext, RetirerNext

-----------------------------------------------------------------------------
\* What a successful dial does to the entry it belongs to and to all others.
LEMMA DialEffect ==
    ASSUME IInv, NEW l \in Leases, DialSucceeds(l),
           NEW e, e = ent[l], NEW c, c = nextGeneration + 1
    PROVE  /\ e \in Entries /\ c \in Clients /\ nextGeneration' = c
           /\ client' = [client EXCEPT ![e] = c]
           /\ dead' = [dead EXCEPT ![e] = FALSE]
           /\ owner' = [owner EXCEPT ![c] = e]
           /\ conn'[c] = "open"
           /\ client[e] # NoClient => conn'[client[e]] = "closed"
           /\ \A x \in Clients : x # c /\ x # client[e] => conn'[x] = conn[x]
           /\ \A k \in Leases : \A x : Holds(k, x)' <=> (Holds(k, x) \/ (k = l /\ x = c))
           /\ \A x \in Clients : CloseDue(x)' => CloseDue(x)
           /\ \A x \in Clients : x # c /\ CloseDue(x) => CloseDue(x)'
           /\ ~CloseDue(c)'
           /\ \A k \in Leases : pc'[k] = "close" => pc[k] = "close" /\ cli'[k] = cli[k]
  <1>0. TypeOK /\ OwnersKnown /\ LeasesWellFormed
    BY DEF IInv
  <1>1. /\ e \in Entries /\ c \in Clients /\ c \notin 1..nextGeneration /\ c # NoClient
        /\ nextGeneration' = c
        /\ client' = [client EXCEPT ![e] = c]
        /\ dead' = [dead EXCEPT ![e] = FALSE]
        /\ owner' = [owner EXCEPT ![c] = e]
    BY <1>0 DEF DialSucceeds, LeasesWellFormed, TypeOK, NoClient
  <1>2. /\ pc[l] = "dial"
        /\ cli' = [cli EXCEPT ![l] = c]
        /\ pc' = [pc EXCEPT ![l] = "chain"]
        /\ monitor' = [m \in Monitors |-> [monitor[m] EXCEPT ![c] = "run"]]
        /\ UNCHANGED <<abortCli, closing>>
    BY DEF DialSucceeds, adminVars
  <1>3. conn' = [x \in Clients |-> IF x = c THEN "open" ELSE IF x = client[e] THEN "closed" ELSE conn[x]]
    BY DEF DialSucceeds, ConnAfterDial
  <1>4. client[e] # NoClient => client[e] \in 1..nextGeneration /\ client[e] \in Clients
    BY <1>0, <1>1 DEF OwnersKnown, Dialled, TypeOK
  <1>5. \A x \in Clients : x # c /\ x # client[e] => conn'[x] = conn[x]
    BY <1>3
  <1>6. conn'[c] = "open" /\ (client[e] # NoClient => conn'[client[e]] = "closed")
    BY <1>1, <1>3, <1>4
  <1>7. \A k \in Leases : \A x : Holds(k, x)' <=> (Holds(k, x) \/ (k = l /\ x = c))
    BY <1>0, <1>2 DEF Holds, TypeOK
  <1>8. \A m \in Monitors, x \in Clients : monitor'[m][x] = IF x = c THEN "run" ELSE monitor[m][x]
    BY <1>0, <1>2 DEF TypeOK
  <1>9. \A k \in Leases : /\ pc'[k] = "close" <=> pc[k] = "close"
                          /\ pc'[k] = "abort" <=> pc[k] = "abort"
                          /\ pc'[k] = "close" => cli'[k] = cli[k]
    <2>. SUFFICES ASSUME NEW k \in Leases
                  PROVE  /\ pc'[k] = "close" <=> pc[k] = "close"
                         /\ pc'[k] = "abort" <=> pc[k] = "abort"
                         /\ pc'[k] = "close" => cli'[k] = cli[k]
      OBVIOUS
    <2>1. CASE k = l
      BY <1>0, <1>2, <2>1 DEF TypeOK
    <2>2. CASE k # l
      BY <1>0, <1>2, <2>2 DEF TypeOK
    <2>. QED
      BY <2>1, <2>2
  <1>10. \A x \in Clients : x # c => (CloseDue(x)' <=> CloseDue(x))
    BY <1>2, <1>8, <1>9 DEF CloseDue
  <1>11. ~CloseDue(c)'
    <2>1. \A k \in Leases : pc[k] = "close" => cli[k] # c
      BY <1>0, <1>1 DEF LeasesWellFormed, IsReference, Dialled
    <2>2. \A k \in Leases : pc[k] = "abort" => abortCli[k] # c
      BY <1>0, <1>1 DEF LeasesWellFormed, Dialled
    <2>3. \A r \in Retirers : closing[r] # c
      BY <1>0, <1>1 DEF OwnersKnown, Dialled
    <2>. QED
      BY <1>1, <1>2, <1>8, <1>9, <2>1, <2>2, <2>3 DEF CloseDue
  <1>12. \A x \in Clients : CloseDue(x)' => CloseDue(x)
    <2>. SUFFICES ASSUME NEW x \in Clients, CloseDue(x)'
                  PROVE  CloseDue(x)
      OBVIOUS
    <2>1. CASE x = c
      BY <1>11, <2>1 DEF CloseDue
    <2>2. CASE x # c
      BY <1>10, <2>2
    <2>. QED
      BY <2>1, <2>2
  <1>. QED
    BY <1>1, <1>5, <1>6, <1>7, <1>9, <1>10, <1>11, <1>12

\* Outside dials, a lease starts to hold only the live client of its entry, and
\* only its own release ends a hold or begins a closing release.
LEMMA HoldEffect ==
    ASSUME IInv, [Next]_vars, \A l \in Leases : ~DialSucceeds(l)
    PROVE  /\ UNCHANGED <<client, nextGeneration, owner>>
           /\ \A k \in Leases : \A c : Holds(k, c)' =>
                 \/ Holds(k, c)
                 \/ /\ TakeShared(k) /\ ent[k] \in Entries
                    /\ c = client[ent[k]] /\ c # NoClient /\ ~dead[ent[k]]
           /\ \A k \in Leases : \A c : Holds(k, c) => Holds(k, c)' \/ (Release(k) /\ c = cli[k])
           /\ \A k \in Leases : pc'[k] = "close" =>
                 /\ cli'[k] = cli[k]
                 /\ pc[k] = "close" \/ (Release(k) /\ client[ent[k]] = cli[k] /\ refs[ent[k]] = 1)
  <1>0. TypeOK /\ LeasesWellFormed
    BY DEF IInv
  <1>1. ASSUME NEW l \in Leases, TakeShared(l)
        PROVE  /\ \A k \in Leases : \A c : Holds(k, c)' <=> (Holds(k, c) \/ (k = l /\ c = client[ent[l]]))
               /\ \A k \in Leases : pc'[k] = "close" => pc[k] = "close" /\ cli'[k] = cli[k]
               /\ ent[l] \in Entries /\ client[ent[l]] # NoClient /\ ~dead[ent[l]]
    BY <1>0, <1>1 DEF TakeShared, NeedsDial, Holds, LeasesWellFormed, TypeOK
  <1>2. ASSUME NEW l \in Leases, Release(l)
        PROVE  /\ \A k \in Leases : \A c : Holds(k, c)' <=> (Holds(k, c) /\ k # l)
               /\ \A k \in Leases : pc'[k] = "close" =>
                    /\ cli'[k] = cli[k]
                    /\ pc[k] = "close" \/ (k = l /\ client[ent[l]] = cli[l] /\ refs[ent[l]] = 1)
    <2>1. PICK s \in {"close", "released"} :
              /\ pc' = [pc EXCEPT ![l] = s]
              /\ s = "close" => client[ent[l]] = cli[l] /\ refs[ent[l]] = 1
      BY <1>2 DEF Release, SameGeneration
    <2>2. UNCHANGED cli
      BY <1>2 DEF Release
    <2>. QED
      BY <1>0, <2>1, <2>2 DEF Holds, TypeOK
  <1>3. ASSUME NEW l \in Leases, LeaseNext(l), ~TakeShared(l), ~DialSucceeds(l), ~Release(l)
        PROVE  \A k \in Leases : /\ \A c : Holds(k, c)' <=> Holds(k, c)
                                 /\ pc'[k] = "close" => pc[k] = "close" /\ cli'[k] = cli[k]
    BY <1>0, <1>3 DEF LeaseNext, Lookup, BeginDial, DialFails, CaptureLookup, CaptureRead,
         ReleaseCloses, AbortGeneration, AbortCloses, Forget, Holds, TypeOK
  <1>4. ASSUME \/ UNCHANGED vars
               \/ \E c \in Clients : ClientNext(c)
               \/ \E r \in Retirers : RetirerNext(r)
        PROVE  UNCHANGED <<pc, cli>>
    BY <1>4 DEF vars, ClientNext, TransportLost, MonitorMarksDead, MonitorCloses, KeepAliveStops,
         RetirerNext, RetireHost, CloseAll, RetirerMarksDead, RetirerCloses, leaseVars
  <1>5. UNCHANGED <<client, nextGeneration, owner>>
    BY DEF Next, LeaseNext, Lookup, TakeShared, BeginDial, DialFails, CaptureLookup, CaptureRead,
         Release, ReleaseCloses, AbortGeneration, AbortCloses, Forget, vars, entryVars,
         ClientNext, TransportLost, MonitorMarksDead, MonitorCloses, KeepAliveStops,
         RetirerNext, RetireHost, CloseAll, RetirerMarksDead, RetirerCloses
  <1>6. \A k \in Leases : \A c : Holds(k, c) => c = cli[k]
    BY DEF Holds
  <1>7. CASE \E l \in Leases : TakeShared(l)
    BY <1>1, <1>5, <1>7
  <1>8. CASE \E l \in Leases : Release(l)
    BY <1>2, <1>5, <1>6, <1>8
  <1>9. CASE \A k \in Leases : /\ \A c : Holds(k, c)' <=> Holds(k, c)
                               /\ pc'[k] = "close" => pc[k] = "close" /\ cli'[k] = cli[k]
    BY <1>5, <1>9
  <1>10. CASE UNCHANGED <<pc, cli>>
    BY <1>5, <1>10 DEF Holds
  <1>. QED
    BY <1>3, <1>4, <1>7, <1>8, <1>9, <1>10 DEF Next

-----------------------------------------------------------------------------
\* Outside dials a closed transport stays closed.
LEMMA ClosedStays ==
    ASSUME IInv, [Next]_vars, \A l \in Leases : ~DialSucceeds(l),
           NEW c \in 1..nextGeneration, conn[c] = "closed"
    PROVE  conn'[c] = "closed"
  <1>0. TypeOK
    BY DEF IInv
  <1>1. c \in Clients
    BY <1>0, PoolAssumption DEF TypeOK, Clients
  <1>2. \/ UNCHANGED conn
        \/ \E d : Close(d)
        \/ \E d \in Clients : TransportLost(d)
    BY DEF Next, LeaseNext, Lookup, TakeShared, BeginDial, DialFails, CaptureLookup, CaptureRead,
         Release, ReleaseCloses, AbortGeneration, AbortCloses, Forget, vars,
         ClientNext, MonitorMarksDead, MonitorCloses, KeepAliveStops,
         RetirerNext, RetireHost, CloseAll, RetirerMarksDead, RetirerCloses
  <1>. QED
    BY <1>0, <1>1, <1>2 DEF Close, TransportLost, TypeOK

LEMMA ReleaseStep ==
    IInv /\ [Next]_vars => ReleaseClosesUnshared'
  <1>. SUFFICES ASSUME IInv, [Next]_vars, NEW l \in Leases, pc'[l] = "close",
                       NEW c, c = cli'[l], NEW k \in Leases, Holds(k, c)'
                PROVE  FALSE
    BY DEF ReleaseClosesUnshared, Holders, Holds
  <1>0. /\ ReleaseClosesUnshared /\ LiveEntryIsSound /\ LeasesWellFormed
        /\ RefsCountHolders /\ OwnersKnown /\ TypeOK
    BY DEF IInv
  <1>1. ASSUME NEW d \in Leases, DialSucceeds(d) PROVE FALSE
    <2>1. pc[l] = "close" /\ cli[l] = c
      BY <1>1, DialEffect
    <2>2. c \in 1..nextGeneration
      BY <1>0, <2>1 DEF LeasesWellFormed, IsReference, Dialled
    <2>3. Holds(k, c)
      <3>1. Holds(k, c) \/ c = nextGeneration + 1
        BY <1>1, DialEffect
      <3>2. nextGeneration \in Nat
        BY <1>0 DEF TypeOK
      <3>. QED
        BY <2>2, <3>1, <3>2
    <2>. QED
      BY <1>0, <2>1, <2>3 DEF ReleaseClosesUnshared, Holders
  <1>2. CASE \A d \in Leases : ~DialSucceeds(d)
    <2>1. /\ cli[l] = c
          /\ pc[l] = "close" \/ (Release(l) /\ client[ent[l]] = c /\ refs[ent[l]] = 1)
      BY <1>2, HoldEffect
    <2>2. CASE Holds(k, c)
      <3>1. pc[l] # "close"
        BY <1>0, <2>1, <2>2 DEF ReleaseClosesUnshared, Holders
      <3>2. Release(l) /\ client[ent[l]] = c /\ refs[ent[l]] = 1 /\ pc[l] \in {"chain", "held"}
        BY <2>1, <3>1 DEF Release
      <3>3. Holders(c) = {l}
        BY <2>1, <3>2, ReleaserIsCounted
      <3>4. k = l
        BY <2>2, <3>3 DEF Holders
      <3>. QED
        BY <3>4 DEF Holds
    <2>3. CASE ~Holds(k, c)
      <3>1. /\ TakeShared(k) /\ ent[k] \in Entries
            /\ c = client[ent[k]] /\ c # NoClient /\ ~dead[ent[k]]
        BY <1>2, <2>1, <2>3, HoldEffect DEF Holds
      <3>2. ~CloseDue(c)
        BY <1>0, <3>1 DEF LiveEntryIsSound
      <3>3. pc[l] # "close"
        BY <2>1, <3>2 DEF CloseDue
      <3>4. Release(l) /\ TakeShared(k)
        BY <2>1, <3>1, <3>3
      <3>5. pc' = [pc EXCEPT ![k] = "chain"]
        BY <3>1 DEF TakeShared
      <3>6. pc[k] = "acquire" /\ pc[l] \in {"chain", "held"} /\ k # l
        BY <3>4 DEF Release, TakeShared
      <3>. QED
        BY <1>0, <3>5, <3>6 DEF TypeOK
    <2>. QED
      BY <2>2, <2>3
  <1>. QED
    BY <1>1, <1>2

LEMMA LiveStep ==
    IInv /\ [Next]_vars => LiveEntryIsSound'
  <1>. SUFFICES ASSUME IInv, [Next]_vars, NEW e \in Entries,
                       NEW c, c = client'[e], c # NoClient, ~dead'[e]
                PROVE  (\E k \in Leases : Holds(k, c)') /\ conn'[c] # "closed" /\ ~CloseDue(c)'
    BY DEF LiveEntryIsSound, Holders, Holds, CloseDue
  <1>0. TypeOK /\ OwnersKnown /\ LeasesWellFormed /\ LiveEntryIsSound
    BY DEF IInv
  <1>1. ASSUME NEW l \in Leases, DialSucceeds(l)
        PROVE  (\E k \in Leases : Holds(k, c)') /\ conn'[c] # "closed" /\ ~CloseDue(c)'
    <2>. DEFINE n == nextGeneration + 1
    <2>1. CASE e = ent[l]
      <3>1. c = n
        BY <1>0, <1>1, <2>1, DialEffect DEF TypeOK
      <3>. QED
        BY <1>1, <3>1, DialEffect
    <2>2. CASE e # ent[l]
      <3>1. c = client[e] /\ ~dead[e] /\ c \in 1..nextGeneration /\ c \in Clients
        BY <1>0, <1>1, <2>2, DialEffect DEF TypeOK, OwnersKnown, Dialled, Clients
      <3>2. (\E k \in Leases : Holds(k, c)) /\ conn[c] # "closed" /\ ~CloseDue(c)
        BY <1>0, <3>1 DEF LiveEntryIsSound, Holders
      <3>3. c # n /\ c # client[ent[l]]
        BY <1>0, <1>1, <2>2, <3>1, DialEffect DEF OwnersKnown, TypeOK
      <3>4. conn'[c] = conn[c]
        BY <1>1, <3>1, <3>3, DialEffect
      <3>5. \A k \in Leases : Holds(k, c) => Holds(k, c)'
        BY <1>1, DialEffect
      <3>6. ~CloseDue(c)'
        BY <1>1, <3>1, <3>2, DialEffect
      <3>. QED
        BY <3>2, <3>4, <3>5, <3>6
    <2>. QED
      BY <2>1, <2>2
  <1>2. CASE \A l \in Leases : ~DialSucceeds(l)
    <2>1. c = client[e]
      BY <1>2, HoldEffect
    <2>2. CloseEffect(e, c)
      BY <1>2, <2>1, CloseStep
    <2>3. ~dead[e]
      BY <2>2 DEF CloseEffect
    <2>4. (\E k \in Leases : Holds(k, c)) /\ conn[c] # "closed" /\ ~CloseDue(c)
      BY <1>0, <2>1, <2>3 DEF LiveEntryIsSound, Holders
    <2>5. conn'[c] # "closed" /\ ~CloseDue(c)'
      BY <2>2, <2>4 DEF CloseEffect
    <2>6. \E k \in Leases : Holds(k, c)'
      <3>1. PICK k \in Leases : Holds(k, c)
        BY <2>4
      <3>2. CASE Release(k) /\ c = cli[k]
        <4>1. ent[k] \in Entries /\ owner[cli[k]] = ent[k]
          BY <1>0, <3>2 DEF Release, LeasesWellFormed, IsReference
        <4>2. ent[k] = e
          BY <1>0, <2>1, <3>2, <4>1 DEF OwnersKnown
        <4>3. refs[e] # 1
          <5>1. SameGeneration(e, cli[k])
            BY <2>1, <3>2 DEF SameGeneration
          <5>2. dead' = [dead EXCEPT ![e] = @ \/ refs[e] = 1]
            BY <3>2, <4>2, <5>1 DEF Release
          <5>. QED
            BY <1>0, <5>2 DEF TypeOK
        <4>4. \E j \in Leases : j # k /\ Holds(j, cli[k])
          BY <2>1, <3>2, <4>2, <4>3, ReleaserIsCounted DEF Release
        <4>5. PICK j \in Leases : j # k /\ Holds(j, c)
          BY <3>2, <4>4
        <4>6. pc'[j] = pc[j] /\ cli'[j] = cli[j]
          BY <1>0, <3>2, <4>5 DEF Release, TypeOK
        <4>. QED
          BY <4>5, <4>6 DEF Holds
      <3>3. CASE ~(Release(k) /\ c = cli[k])
        BY <1>2, <3>1, <3>3, HoldEffect
      <3>. QED
        BY <3>2, <3>3
    <2>. QED
      BY <2>5, <2>6
  <1>. QED
    BY <1>1, <1>2

LEMMA StrayStep ==
    IInv /\ [Next]_vars => NoStrayTransport'
  <1>. SUFFICES ASSUME IInv, [Next]_vars, NEW c \in 1..nextGeneration', conn'[c] # "closed"
                PROVE  client'[owner'[c]] = c /\ (dead'[owner'[c]] => CloseDue(c)')
    BY DEF NoStrayTransport, CloseDue
  <1>0. TypeOK /\ OwnersKnown /\ NoStrayTransport
    BY DEF IInv
  <1>1. ASSUME NEW l \in Leases, DialSucceeds(l)
        PROVE  client'[owner'[c]] = c /\ (dead'[owner'[c]] => CloseDue(c)')
    <2>. DEFINE n == nextGeneration + 1
                e == ent[l]
    <2>1. /\ e \in Entries /\ n \in Clients /\ c \in 1..n
          /\ client' = [client EXCEPT ![e] = n]
          /\ dead' = [dead EXCEPT ![e] = FALSE]
          /\ owner' = [owner EXCEPT ![n] = e]
      BY <1>1, DialEffect
    <2>2. CASE c = n
      BY <1>0, <2>1, <2>2 DEF TypeOK
    <2>3. CASE c # n
      <3>1. c \in 1..nextGeneration /\ c \in Clients
        <4>1. nextGeneration \in 0..MaxDials /\ MaxDials \in Nat
          BY <1>0, PoolAssumption DEF TypeOK
        <4>. QED
          BY <2>1, <2>3, <4>1 DEF Clients
      <3>2. c # client[e]
        <4>1. c # NoClient
          BY <3>1 DEF Clients, NoClient
        <4>. QED
          BY <1>1, <4>1, DialEffect
      <3>3. conn[c] # "closed"
        BY <1>1, <2>3, <3>1, <3>2, DialEffect
      <3>4. client[owner[c]] = c /\ (dead[owner[c]] => CloseDue(c)) /\ owner[c] \in Entries
        BY <1>0, <3>1, <3>3 DEF NoStrayTransport, OwnersKnown
      <3>5. owner'[c] = owner[c] /\ owner[c] # e
        BY <1>0, <2>1, <2>3, <3>1, <3>2, <3>4 DEF TypeOK
      <3>6. client'[owner[c]] = client[owner[c]] /\ dead'[owner[c]] = dead[owner[c]]
        BY <1>0, <2>1, <3>4, <3>5 DEF TypeOK
      <3>7. CloseDue(c) => CloseDue(c)'
        BY <1>1, <2>3, <3>1, DialEffect
      <3>. QED
        BY <3>4, <3>5, <3>6, <3>7
    <2>. QED
      BY <2>2, <2>3
  <1>2. CASE \A l \in Leases : ~DialSucceeds(l)
    <2>1. UNCHANGED <<client, nextGeneration, owner>>
      BY <1>2, HoldEffect
    <2>2. c \in 1..nextGeneration /\ owner[c] \in Entries /\ c # NoClient
      BY <1>0, <2>1 DEF OwnersKnown, TypeOK, NoClient
    <2>3. conn[c] # "closed" /\ client[owner[c]] = c
      <3>1. conn[c] # "closed"
        <4>1. CASE client[owner[c]] = c
          <5>1. CloseEffect(owner[c], c)
            BY <1>2, <2>2, <4>1, CloseStep
          <5>. QED
            BY <5>1 DEF CloseEffect
        <4>2. CASE client[owner[c]] # c
          BY <1>0, <1>2, <2>2, <4>2, ClosedStays
        <4>. QED
          BY <4>1, <4>2
      <3>. QED
        BY <1>0, <2>2, <3>1 DEF NoStrayTransport
    <2>4. CloseEffect(owner[c], c)
      BY <1>2, <2>2, <2>3, CloseStep
    <2>5. dead[owner[c]] => CloseDue(c)
      BY <1>0, <2>2, <2>3 DEF NoStrayTransport
    <2>. QED
      BY <2>1, <2>3, <2>4, <2>5 DEF CloseEffect
  <1>. QED
    BY <1>1, <1>2

-----------------------------------------------------------------------------
LEMMA InitIInv == Init => IInv
  <1>. SUFFICES ASSUME Init PROVE IInv
    OBVIOUS
  <1>. USE DEF Init
  <1>1. TypeOK
    BY PoolAssumption DEF TypeOK, Statuses, Entries, Clients, NoEntry, NoClient, Monitors
  <1>2. OwnersKnown
    BY DEF OwnersKnown, Dialled
  <1>3. LeasesWellFormed /\ LockIsExclusive
    BY DEF LeasesWellFormed, IsReference, LockIsExclusive
  <1>4. RefsCountHolders /\ ReleaseClosesUnshared /\ LiveEntryIsSound /\ NoStrayTransport
    BY DEF RefsCountHolders, ReleaseClosesUnshared, LiveEntryIsSound, NoStrayTransport
  <1>. QED
    BY <1>1, <1>2, <1>3, <1>4 DEF IInv

LEMMA StepIInv == IInv /\ [Next]_vars => IInv'
  BY TypeStep, OwnersStep, LeasesStep, LockStep, RefsStep, ReleaseStep, LiveStep, StrayStep DEF IInv

LEMMA PoolInvariant == Spec => []IInv
  BY InitIInv, StepIInv, PTL DEF Spec

\* Every reachable pool state is well typed.
THEOREM PoolTypeCorrect == Spec => []TypeOK
  <1>1. IInv => TypeOK
    BY DEF IInv
  <1>. QED
    BY <1>1, PoolInvariant, PTL

\* The reference count is exactly the leases of the current generation.
THEOREM RefsAreExact == Spec => []RefsCountHolders
  <1>1. IInv => RefsCountHolders
    BY DEF IInv
  <1>. QED
    BY <1>1, PoolInvariant, PTL

\* The last release never closes a transport that another lease uses.
THEOREM LastReleaseIsAlone == Spec => []ReleaseClosesUnshared
  <1>1. IInv => ReleaseClosesUnshared
    BY DEF IInv
  <1>. QED
    BY <1>1, PoolInvariant, PTL

\* What acquire hands out is in use, open on this side and due for no close.
THEOREM SharedClientIsSound == Spec => []LiveEntryIsSound
  <1>1. IInv => LiveEntryIsSound
    BY DEF IInv
  <1>. QED
    BY <1>1, PoolInvariant, PTL

\* No transport is left open without a lease or a pending close.
THEOREM NoTransportIsLost == Spec => []NoStrayTransport
  <1>1. IInv => NoStrayTransport
    BY DEF IInv
  <1>. QED
    BY <1>1, PoolInvariant, PTL

\* Only a dead generation is ever replaced.
THEOREM DialsAreSingleFlight == Spec => ReplacesOnlyDead
  <1>1. IInv /\ [Next]_vars =>
          [\A e \in Entries : client'[e] # client[e] => client[e] = NoClient \/ dead[e]]_vars
    <2>. SUFFICES ASSUME IInv, [Next]_vars, NEW e \in Entries, client'[e] # client[e]
                  PROVE  client[e] = NoClient \/ dead[e]
      OBVIOUS
    <2>1. PICK l \in Leases : DialSucceeds(l)
      BY HoldEffect
    <2>2. e = ent[l] /\ pc[l] = "dial"
      BY <2>1, DialEffect DEF DialSucceeds, IInv, TypeOK
    <2>. QED
      BY <2>2 DEF IInv, LockIsExclusive, NeedsDial
  <1>. QED
    BY <1>1, PoolInvariant, PTL DEF Spec, ReplacesOnlyDead

=============================================================================
