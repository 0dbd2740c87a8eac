--------------------------- MODULE LocalForwardProofs ---------------------------
(***************************************************************************)
(* The inductive invariant of LocalForward holds for any number of          *)
(* connections and leases and any buffer, and a forward implements the run  *)
(* that ForwardRuntime relies on.                                           *)
(***************************************************************************)
EXTENDS LocalForward, TLAPS

\* Until Start has returned nil nothing but Start runs: it has no lease, or the
\* one it dialled, and that lease is the last one.
StartIsAlone ==
    /\ starter # "serving" =>
         /\ serve = "off" /\ monitor = "off" /\ stopper = "idle" /\ done = FALSE
         /\ lease = NoLease /\ stopLease = NoLease /\ open = {} /\ releasing = {}
         /\ \A c \in Conns : handler[c] = "none"
         /\ \A l \in Leases : held[l] => starter = "probe" /\ l = leases
    /\ starter = "probe" => leases # NoLease /\ held[leases]
    /\ starter = "serving" => serve # "off" /\ monitor # "off"

\* How far Stop is, and what the others know of it.
StopIsOrdered ==
    /\ stopping = (stopper # "idle")
    /\ stopDone = (stopper = "over")
    /\ cancelled => stopping
    /\ monitor = "close" => stopping
    /\ done => serve = "exit"

\* Leases are never named twice: the next one is new, the forward's own is not
\* about to be released, by Stop or by the goroutine of setLease.
LeasesAreDistinct ==
    /\ {lease, nextLease, stopLease} \union releasing \subseteq 0..leases
    /\ (nextLease # NoLease) = (monitor \in {"bind", "announce", "set"})
    /\ nextLease # NoLease =>
         held[nextLease] /\ nextLease \notin {lease, stopLease} \union releasing
    /\ lease # NoLease => lease # stopLease /\ lease \notin releasing

\* A lease that was not released is in a variable, and so is an open listener;
\* whether the one who keeps it there will ever look at it is a matter of
\* StrayIsOneChain.
LeasesAreNamed ==
    \A l \in Leases : held[l] =>
        \/ starter = "probe"
        \/ l \in {lease, nextLease} \union releasing
        \/ l = stopLease /\ stopper \in {"cancel", "release"}

ListenersAreNamed ==
    \A l \in open : l = listener \/ (l = stopListener /\ stopper \in {"cancel", "release", "close"})

\* Only a remote forward binds again.
LocalNeverRebinds == mode = "local" => monitor # "bind"

\* What a handler did so far is what its two sides and f.activeConns show.
ConnOrdered(c) ==
    /\ handler[c] \in {"none", "gone"} => \A s \in Sides : sock[c][s] # "open"
    /\ handler[c] \notin {"none", "gone"} => sock[c]["near"] # "none"
    /\ handler[c] \in {"dialled", "bridge"} => sock[c]["far"] # "none"
    /\ <<c, "near">> \in tracked => handler[c] \in {"tracked", "dial", "dialled", "bridge"}
    /\ <<c, "far">> \in tracked => handler[c] = "bridge"

ConnsAreOrdered == \A c \in Conns : ConnOrdered(c)

\* Stop's snapshot holds every connection that is still tracked, and closes it;
\* when Stop is done there is none.
StopIsComplete ==
    /\ stopper \in {"cancel", "release", "close"} => tracked \subseteq stopConns
    /\ StopClosesConns
    /\ stopDone => done /\ \A c \in Conns : handler[c] \in {"none", "gone"}

\* The inductive invariant.
IInv ==
    /\ TypeOK
    /\ StartIsAlone
    /\ StopIsOrdered
    /\ LeasesAreDistinct
    /\ LeasesAreNamed
    /\ TerminalIsHeld
    /\ ListenersAreNamed
    /\ StrayIsOneChain
    /\ LocalNeverRebinds
    /\ ConnsAreOrdered
    /\ StopIsComplete

-----------------------------------------------------------------------------
(* What the accept loop, *)
LEMMA ServeLeaves ==
    ASSUME ServeNext
    PROVE  UNCHANGED <<mode, starter, lease, terminal, listener, leases, held, alive, open,
                       monitor, monLease, nextLease, releasing, events, lost, via, tracked,
                       stopping, stopper, cancelled, stopLease, stopListener, stopConns, stopDone>>
  BY DEF ServeNext, ServeChecks, ServeReads, AcceptFails, Accepts, Serves, fieldVars, chainVars,
         monitorVars, eventVars, connVars, stopVars

(* ... the handlers, *)
LEMMA HandlerLeavesRest ==
    ASSUME HandlerNext
    PROVE  UNCHANGED <<mode, starter, lease, terminal, listener, leases, held, alive, open,
                       serve, serveLn, done, monitor, monLease, nextLease, releasing, events, lost,
                       stopping, stopper, cancelled, stopLease, stopListener, stopConns, stopDone>>
  BY DEF HandlerNext, HandlerTracks, HandlerReads, HandlerDials, HandlerEnds, fieldVars, chainVars,
         serveVars, monitorVars, eventVars, stopVars

(* ... and the monitor leave alone. *)
LEMMA MonitorLeaves ==
    ASSUME MonitorStep
    PROVE  UNCHANGED <<mode, starter, serve, serveLn, done, handler, via, sock, tracked,
                       stopping, stopper, cancelled, stopLease, stopListener, stopConns, stopDone>>
  BY DEF MonitorStep, WaitLossReturns, EmitsDisconnected, ClearsTerminal, BackoffEnds, RebuildFails,
         Rebuilds, RebindFails, Rebinds, EmitsReconnected, SetsLease, GivesUp, ClosesEvents,
         serveVars, connVars, stopVars

(* Stop changes fields of the forward only when it begins, sockets and the *)
(* listener only when it closes them. *)
LEMMA StopLeaves ==
    ASSUME StopNext
    PROVE  UNCHANGED <<mode, starter, leases, serve, serveLn, done, monitor, monLease, nextLease,
                       releasing, events, lost, handler, via, tracked>>
  BY DEF StopNext, StopStep, StopMarks, StopCancels, StopReleases, StopCloses, StopIsDone,
         StopTimesOut, fieldVars, chainVars, serveVars, monitorVars, eventVars, connVars, stopVars

(* Whatever else happens, a chain breaks or an event is taken. *)
LEMMA RestLeaves ==
    ASSUME TakesEvent \/ \E l \in Leases : ChainBreaks(l)
    PROVE  UNCHANGED <<mode, starter, lease, terminal, listener, leases, held, open,
                       serve, serveLn, done, monitor, monLease, nextLease, releasing,
                       handler, via, sock, tracked,
                       stopping, stopper, cancelled, stopLease, stopListener, stopConns, stopDone>>
  BY DEF TakesEvent, ChainBreaks, fieldVars, chainVars, serveVars, monitorVars, connVars, stopVars

-----------------------------------------------------------------------------
(* The type invariant in four parts, for provers that see one at a time. *)
PhasesTyped ==
    /\ mode \in Modes
    /\ starter \in {"idle", "dial", "probe", "serving", "failed"}
    /\ serve \in {"off", "check", "read", "accept", "exit"}
    /\ monitor \in {"off", "wait", "lost", "clear", "backoff", "rebuild", "bind", "announce", "set", "giveUp", "close", "leave", "exit"}
    /\ stopper \in {"idle", "cancel", "release", "close", "wait", "over"}
    /\ {done, stopping, cancelled, stopDone, lost} \subseteq BOOLEAN

NamesTyped ==
    {lease, terminal, listener, serveLn, monLease, nextLease, stopLease, stopListener, leases}
        \subseteq Leases \union {NoLease}

HoldingsTyped ==
    /\ held \in [Leases -> BOOLEAN] /\ alive \in [Leases -> BOOLEAN]
    /\ open \subseteq Leases /\ releasing \subseteq Leases

EventsTyped == events \in Seq({"disconnected", "reconnected"}) /\ Len(events) <= EventCapacity

HandlersTyped ==
    /\ handler \in [Conns -> {"none", "new", "tracked", "dial", "dialled", "bridge", "gone"}]
    /\ via \in [Conns -> Leases \union {NoLease}]
    /\ tracked \subseteq Conns \X Sides /\ stopConns \subseteq Conns \X Sides

SocketsTyped == sock \in [Conns -> [Sides -> {"none", "open", "closed"}]]

LEMMA TypeParts ==
    TypeOK <=> PhasesTyped /\ NamesTyped /\ HoldingsTyped /\ EventsTyped /\ HandlersTyped /\ SocketsTyped
  BY DEF TypeOK, PhasesTyped, NamesTyped, HoldingsTyped, EventsTyped, HandlersTyped, SocketsTyped

(* Emitting keeps the channel within its buffer. *)
LEMMA EmitsKeeps ==
    ASSUME EventsTyped, NEW e \in {"disconnected", "reconnected"}, Emits(e), lost \in BOOLEAN
    PROVE  EventsTyped' /\ lost' \in BOOLEAN
  <1>1. CASE Len(events) < EventCapacity
    <2>1. events' = Append(events, e) /\ lost' = lost
      BY <1>1 DEF Emits
    <2>. QED
      BY <1>1, <2>1, ForwardAssumption DEF EventsTyped
  <1>2. CASE ~(Len(events) < EventCapacity)
    BY <1>2 DEF EventsTyped, Emits
  <1>. QED
    BY <1>1, <1>2

(* The initial states satisfy the invariant. *)
LEMMA InitHolds == Init => IInv
  <1>. SUFFICES ASSUME Init PROVE IInv
    OBVIOUS
  <1>. USE ForwardAssumption DEF Init
  <1>1. TypeOK
    <2>1. PhasesTyped
      BY DEF PhasesTyped
    <2>2. NamesTyped
      BY DEF NamesTyped, NoLease
    <2>3. HoldingsTyped
      BY DEF HoldingsTyped
    <2>4. EventsTyped
      BY DEF EventsTyped
    <2>5. HandlersTyped
      BY DEF HandlersTyped, NoLease
    <2>6. SocketsTyped
      BY DEF SocketsTyped
    <2>. QED
      BY <2>1, <2>2, <2>3, <2>4, <2>5, <2>6, TypeParts
  <1>2. StartIsAlone
    BY DEF StartIsAlone
  <1>3. StopIsOrdered /\ StopIsComplete
    BY DEF StopIsOrdered, StopIsComplete, StopClosesConns
  <1>4. LeasesAreDistinct
    <2>1. /\ lease = 0 /\ nextLease = 0 /\ stopLease = 0 /\ releasing = {} /\ leases = 0
          /\ monitor = "off"
      BY DEF NoLease
    <2>. QED
      BY ONLY <2>1 DEF LeasesAreDistinct, NoLease
  <1>5. LeasesAreNamed /\ TerminalIsHeld /\ ListenersAreNamed
    BY DEF LeasesAreNamed, TerminalIsHeld, ListenersAreNamed, NoLease
  <1>7. StrayIsOneChain /\ LocalNeverRebinds
    BY DEF StrayIsOneChain, LocalNeverRebinds, Stray, NoLease
  <1>6. ConnsAreOrdered
    BY DEF ConnsAreOrdered, ConnOrdered, Sides
  <1>. QED
    BY <1>1, <1>2, <1>3, <1>4, <1>5, <1>6, <1>7 DEF IInv

(* A step keeps every phase in its range, *)
LEMMA PhasesKeep ==
    ASSUME IInv, Next
    PROVE  PhasesTyped'
  <1>. PhasesTyped /\ EventsTyped
    BY TypeParts DEF IInv
  <1>. USE DEF PhasesTyped
  <1>1. CASE StartNext
    BY <1>1 DEF StartNext, StartBegins, StartDials, StartDialFails, StartFails, StartServes,
       LoopHead, serveVars, monitorVars, eventVars, stopVars
  <1>2. CASE ServeNext
    <2>1. serve' \in {"off", "check", "read", "accept", "exit"} /\ done' \in BOOLEAN
      BY <1>2 DEF ServeNext, ServeChecks, ServeReads, AcceptFails, Accepts, Serves, LoopHead
    <2>. QED
      BY <1>2, <2>1, ServeLeaves
  <1>3. CASE HandlerNext
    BY <1>3, HandlerLeavesRest
  <1>4. CASE MonitorStep
    <2>1. monitor' \in {"off", "wait", "lost", "clear", "backoff", "rebuild", "bind", "announce", "set", "giveUp", "close", "leave", "exit"}
      BY <1>4 DEF MonitorStep, WaitLossReturns, EmitsDisconnected, ClearsTerminal, BackoffEnds,
           RebuildFails, Rebuilds, RebindFails, Rebinds, EmitsReconnected, SetsLease, GivesUp,
           ClosesEvents, Monitors
    <2>2. lost' \in BOOLEAN
      BY <1>4, EmitsKeeps
      DEF MonitorStep, WaitLossReturns, EmitsDisconnected, ClearsTerminal, BackoffEnds,
          RebuildFails, Rebuilds, RebindFails, Rebinds, EmitsReconnected, SetsLease, GivesUp,
          ClosesEvents, eventVars
    <2>. QED
      BY <1>4, <2>1, <2>2, MonitorLeaves
  <1>5. CASE StopNext
    <2>1. /\ stopping' \in BOOLEAN /\ cancelled' \in BOOLEAN /\ stopDone' \in BOOLEAN
          /\ stopper' \in {"idle", "cancel", "release", "close", "wait", "over"}
      BY <1>5 DEF StopNext, StopStep, StopMarks, StopCancels, StopReleases, StopCloses, StopIsDone,
           StopTimesOut, stopVars
    <2>. QED
      BY <1>5, <2>1, StopLeaves
  <1>6. CASE \E l \in Leases : OldLeaseReleased(l)
    BY <1>6 DEF OldLeaseReleased, serveVars, eventVars, stopVars
  <1>7. CASE TakesEvent
    BY <1>7 DEF TakesEvent, serveVars, monitorVars, stopVars
  <1>8. CASE \E l \in Leases : ChainBreaks(l)
    BY <1>8 DEF ChainBreaks, serveVars, monitorVars, eventVars, stopVars
  <1>. QED
    BY <1>1, <1>2, <1>3, <1>4, <1>5, <1>6, <1>7, <1>8 DEF Next

(* ... every name of a lease and what is held under it, *)
LEMMA HoldingsKeep ==
    ASSUME IInv, Next
    PROVE  NamesTyped' /\ HoldingsTyped'
  <1>. NamesTyped /\ HoldingsTyped
    BY TypeParts DEF IInv
  <1>. USE DEF NamesTyped, HoldingsTyped
  <1>1. CASE StartNext
    <2>1. CASE \E l \in Leases : StartDials(l)
      BY <2>1 DEF StartDials, Lease, fieldVars, serveVars, monitorVars, stopVars
    <2>2. CASE StartServes
      BY <2>2 DEF StartServes, IInv, StartIsAlone, chainVars, stopVars
    <2>3. CASE StartFails
      BY <2>3 DEF StartFails, Release, fieldVars, serveVars, monitorVars, stopVars
    <2>4. CASE StartBegins \/ StartDialFails
      BY <2>4 DEF StartBegins, StartDialFails, fieldVars, chainVars, serveVars, monitorVars, stopVars
    <2>. QED
      BY <1>1, <2>1, <2>2, <2>3, <2>4 DEF StartNext
  <1>2. CASE ServeNext
    <2>1. serveLn' \in Leases \union {NoLease}
      BY <1>2 DEF ServeNext, ServeChecks, ServeReads, AcceptFails, Accepts
    <2>. QED
      BY <1>2, <2>1, ServeLeaves
  <1>3. CASE HandlerNext
    BY <1>3, HandlerLeavesRest
  <1>4. CASE MonitorStep
    <2>1. CASE \E l \in Leases : Rebuilds(l)
      BY <2>1 DEF Rebuilds, Lease, fieldVars, serveVars, stopVars
    <2>2. CASE RebindFails
      BY <2>2 DEF RebindFails, Release, fieldVars, serveVars, stopVars
    <2>3. CASE Rebinds
      <3>1. nextLease \in Leases
        BY <2>3 DEF Rebinds, Monitors, IInv, LeasesAreDistinct
      <3>. QED
        BY <2>3, <3>1 DEF Rebinds, OpenInsteadOfOld, chainVars, serveVars, stopVars
    <2>4. CASE SetsLease
      BY <2>4 DEF SetsLease, ToRelease, chainVars, serveVars, stopVars
    <2>5. CASE GivesUp \/ ClearsTerminal
      BY <2>5 DEF GivesUp, ClearsTerminal, chainVars, serveVars, stopVars
    <2>6. CASE WaitLossReturns \/ EmitsDisconnected \/ BackoffEnds \/ RebuildFails \/ EmitsReconnected
      BY <2>6 DEF WaitLossReturns, EmitsDisconnected, BackoffEnds, RebuildFails, EmitsReconnected,
           fieldVars, chainVars, serveVars, stopVars
    <2>7. CASE ClosesEvents
      BY <2>7 DEF ClosesEvents, fieldVars, chainVars, serveVars, stopVars
    <2>. QED
      BY <1>4, <2>1, <2>2, <2>3, <2>4, <2>5, <2>6, <2>7 DEF MonitorStep
  <1>5. CASE StopNext
    <2>1. CASE StopMarks
      BY <2>1 DEF StopMarks, FieldsTaken, chainVars, serveVars, monitorVars
    <2>2. CASE StopReleases \/ StopTimesOut
      BY <2>2 DEF StopReleases, StopTimesOut, Release, Abort, fieldVars, serveVars, monitorVars, stopVars
    <2>3. CASE StopCancels \/ StopCloses \/ StopIsDone
      BY <2>3 DEF StopCancels, StopCloses, StopIsDone, fieldVars, chainVars, serveVars, monitorVars
    <2>. QED
      BY <1>5, <2>1, <2>2, <2>3 DEF StopNext, StopStep
  <1>6. CASE \E l \in Leases : OldLeaseReleased(l)
    BY <1>6 DEF OldLeaseReleased, Release, fieldVars, serveVars, stopVars
  <1>7. CASE TakesEvent
    BY <1>7 DEF TakesEvent, fieldVars, chainVars, serveVars, monitorVars, stopVars
  <1>8. CASE \E l \in Leases : ChainBreaks(l)
    BY <1>8 DEF ChainBreaks, fieldVars, serveVars, monitorVars, stopVars
  <1>. QED
    BY <1>1, <1>2, <1>3, <1>4, <1>5, <1>6, <1>7, <1>8 DEF Next

(* ... what the channel holds, *)
LEMMA EventsKeep ==
    ASSUME IInv, Next
    PROVE  EventsTyped'
  <1>. EventsTyped /\ lost \in BOOLEAN
    BY TypeParts DEF IInv, PhasesTyped
  <1>1. CASE EmitsDisconnected \/ EmitsReconnected
    BY <1>1, EmitsKeeps DEF EmitsDisconnected, EmitsReconnected
  <1>2. CASE TakesEvent
    <2>1. events # <<>> /\ events' = Tail(events)
      BY <1>2 DEF TakesEvent
    <2>. QED
      BY <2>1, ForwardAssumption DEF EventsTyped
  <1>3. CASE UNCHANGED events
    BY <1>3 DEF EventsTyped
  <1>4. ServeNext \/ HandlerNext \/ StopNext => UNCHANGED events
    BY ServeLeaves, HandlerLeavesRest, StopLeaves
  <1>5. StartNext => UNCHANGED events
    BY DEF StartNext, StartBegins, StartDials, StartDialFails, StartFails, StartServes, eventVars
  <1>6. MonitorStep => EmitsDisconnected \/ EmitsReconnected \/ UNCHANGED events
    BY DEF MonitorStep, WaitLossReturns, ClearsTerminal, BackoffEnds, RebuildFails, Rebuilds,
       RebindFails, Rebinds, SetsLease, GivesUp, ClosesEvents, eventVars
  <1>7. (\E l \in Leases : ChainBreaks(l) \/ OldLeaseReleased(l)) => UNCHANGED events
    BY DEF ChainBreaks, OldLeaseReleased, eventVars
  <1>. QED
    BY <1>1, <1>2, <1>3, <1>4, <1>5, <1>6, <1>7 DEF Next

(* ... the handlers' clients and what f.activeConns lists, *)
LEMMA HandlersKeep ==
    ASSUME IInv, Next
    PROVE  HandlersTyped'
  <1>. HandlersTyped /\ NamesTyped
    BY TypeParts DEF IInv
  <1>1. CASE StartNext
    BY <1>1 DEF HandlersTyped, StartNext, StartBegins, StartDials, StartDialFails, StartFails,
       StartServes, connVars, stopVars
  <1>2. CASE ServeNext
    BY <1>2, ServeLeaves DEF HandlersTyped, ServeNext, ServeChecks, ServeReads, AcceptFails, Accepts, connVars
  <1>3. CASE HandlerNext
    <2>1. PICK c \in Conns : HandlerTracks(c) \/ HandlerReads(c) \/ HandlerDials(c) \/ HandlerEnds(c)
      BY <1>3 DEF HandlerNext
    <2>2. handler' \in [Conns -> {"none", "new", "tracked", "dial", "dialled", "bridge", "gone"}]
      BY <2>1 DEF HandlersTyped, HandlerTracks, Tracks, HandlerReads, HandlerDials, HandlerEnds, Handles
    <2>3. via' \in [Conns -> Leases \union {NoLease}]
      BY <2>1 DEF HandlersTyped, NamesTyped, HandlerTracks, HandlerReads, HandlerDials, HandlerEnds
    <2>4. tracked' \subseteq Conns \X Sides
      BY <2>1 DEF HandlersTyped, HandlerTracks, Tracks, HandlerReads, HandlerDials, HandlerEnds,
                  HandlerLeaves, Sides
    <2>. QED
      BY <1>3, <2>2, <2>3, <2>4, HandlerLeavesRest DEF HandlersTyped
  <1>4. CASE MonitorStep
    BY <1>4, MonitorLeaves DEF HandlersTyped
  <1>5. CASE StopNext
    <2>1. stopConns' \in {stopConns, tracked, {}}
      BY <1>5 DEF StopNext, StopStep, StopMarks, StopCancels, StopReleases, StopCloses, StopIsDone,
           StopTimesOut, stopVars
    <2>. QED
      BY <1>5, <2>1, StopLeaves DEF HandlersTyped
  <1>6. CASE \E l \in Leases : OldLeaseReleased(l)
    BY <1>6 DEF HandlersTyped, OldLeaseReleased, connVars, stopVars
  <1>7. CASE TakesEvent \/ \E l \in Leases : ChainBreaks(l)
    BY <1>7, RestLeaves DEF HandlersTyped
  <1>. QED
    BY <1>1, <1>2, <1>3, <1>4, <1>5, <1>6, <1>7 DEF Next

(* ... and both sides of every connection. *)
LEMMA SocketsKeep ==
    ASSUME IInv, Next
    PROVE  SocketsTyped'
  <1>. SocketsTyped
    BY TypeParts DEF IInv
  <1>. USE DEF SocketsTyped
  <1>1. CASE StartNext
    BY <1>1 DEF StartNext, StartBegins, StartDials, StartDialFails, StartFails, StartServes, connVars
  <1>2. CASE ServeNext
    BY <1>2 DEF ServeNext, ServeChecks, ServeReads, AcceptFails, Accepts, connVars, Sides
  <1>3. CASE HandlerNext
    <2>1. PICK c \in Conns : HandlerTracks(c) \/ HandlerReads(c) \/ HandlerDials(c) \/ HandlerEnds(c)
      BY <1>3 DEF HandlerNext
    <2>2. CloseBoth(c) \in [Sides -> {"none", "open", "closed"}]
      BY DEF CloseBoth
    <2>3. sock' = sock \/ sock' = [sock EXCEPT ![c] = CloseBoth(c)] \/ sock' = [sock EXCEPT ![c]["far"] = "open"]
      BY <2>1 DEF HandlerTracks, Tracks, HandlerReads, HandlerDials, HandlerEnds, HandlerLeaves
    <2>. QED
      BY <2>2, <2>3 DEF Sides
  <1>4. CASE MonitorStep
    BY <1>4, MonitorLeaves
  <1>5. CASE StopNext
    <2>1. CASE StopCloses
      BY <2>1 DEF StopCloses
    <2>2. CASE ~StopCloses
      BY <1>5, <2>2 DEF StopNext, StopStep, StopMarks, StopCancels, StopReleases, StopIsDone,
         StopTimesOut, connVars
    <2>. QED
      BY <2>1, <2>2
  <1>6. CASE \E l \in Leases : OldLeaseReleased(l)
    BY <1>6 DEF OldLeaseReleased, connVars
  <1>7. CASE TakesEvent \/ \E l \in Leases : ChainBreaks(l)
    BY <1>7, RestLeaves
  <1>. QED
    BY <1>1, <1>2, <1>3, <1>4, <1>5, <1>6, <1>7 DEF Next

-----------------------------------------------------------------------------
(* Start stays alone until it serves. *)
LEMMA StartKeeps ==
    ASSUME IInv, Next
    PROVE  StartIsAlone'
  <1>. StartIsAlone /\ PhasesTyped /\ NamesTyped /\ HoldingsTyped /\ HandlersTyped
    BY TypeParts DEF IInv
  <1>1. CASE StartNext
    <2>1. CASE \E l \in Leases : StartDials(l)
      <3>1. PICK l \in Leases : StartDials(l)
        BY <2>1
      <3>2. held' = [held EXCEPT ![l] = TRUE] /\ leases' = l /\ l # NoLease
        BY <3>1, ForwardAssumption DEF StartDials, Lease, Leases, NoLease
      <3>3. held'[leases'] /\ \A m \in Leases : held'[m] => m = leases'
        BY <3>1, <3>2 DEF StartDials, StartIsAlone, HoldingsTyped
      <3>. QED
        BY <3>1, <3>2, <3>3 DEF StartDials, StartIsAlone, fieldVars, serveVars, monitorVars, connVars, stopVars
    <2>2. CASE StartFails
      BY <2>2 DEF StartFails, StartIsAlone, Release, fieldVars, serveVars, monitorVars, connVars, stopVars
    <2>3. CASE StartServes
      BY <2>3 DEF StartServes, StartIsAlone, LoopHead
    <2>4. CASE StartBegins \/ StartDialFails
      BY <2>4 DEF StartBegins, StartDialFails, StartIsAlone, fieldVars, chainVars, serveVars,
                  monitorVars, connVars, stopVars
    <2>. QED
      BY <1>1, <2>1, <2>2, <2>3, <2>4 DEF StartNext
  <1>2. CASE starter = "serving" /\ ~StartNext
    <2>1. starter' = "serving"
      BY <1>2, ServeLeaves, HandlerLeavesRest, MonitorLeaves, StopLeaves, RestLeaves
      DEF Next, OldLeaseReleased
    <2>2. serve' # "off"
      <3>1. ServeNext => serve' # "off"
        BY DEF ServeNext, ServeChecks, ServeReads, AcceptFails, Accepts, Serves, LoopHead
      <3>. QED
        BY <1>2, <3>1, HandlerLeavesRest, MonitorLeaves, StopLeaves, RestLeaves
        DEF Next, OldLeaseReleased, serveVars, StartIsAlone
    <2>3. monitor' # "off"
      <3>1. MonitorStep => monitor' # "off"
        BY DEF MonitorStep, WaitLossReturns, EmitsDisconnected, ClearsTerminal, BackoffEnds,
           RebuildFails, Rebuilds, RebindFails, Rebinds, EmitsReconnected, SetsLease, GivesUp,
           ClosesEvents, Monitors
      <3>. QED
        BY <1>2, <3>1, ServeLeaves, HandlerLeavesRest, StopLeaves, RestLeaves
        DEF Next, OldLeaseReleased, StartIsAlone
    <2>. QED
      BY <2>1, <2>2, <2>3 DEF StartIsAlone
  <1>3. CASE starter # "serving" /\ ~StartNext
    <2>1. ~ServeNext
      BY <1>3 DEF ServeNext, ServeChecks, ServeReads, AcceptFails, Accepts, Serves, StartIsAlone
    <2>2. ~HandlerNext
      BY <1>3 DEF HandlerNext, HandlerTracks, Tracks, HandlerReads, HandlerDials, HandlerEnds, Handles,
         StartIsAlone
    <2>3. ~MonitorStep
      BY <1>3 DEF MonitorStep, WaitLossReturns, EmitsDisconnected, ClearsTerminal, BackoffEnds,
         RebuildFails, Rebuilds, RebindFails, Rebinds, EmitsReconnected, SetsLease, GivesUp,
         ClosesEvents, Monitors, StartIsAlone
    <2>4. ~StopNext
      BY <1>3 DEF StopNext, StopMarks, StopStep, StopCancels, StopReleases, StopCloses, StopIsDone,
         StopTimesOut, StartIsAlone
    <2>5. \A l \in Leases : ~OldLeaseReleased(l)
      BY <1>3 DEF OldLeaseReleased, StartIsAlone
    <2>. QED
      BY <1>3, <2>1, <2>2, <2>3, <2>4, <2>5, RestLeaves DEF Next, StartIsAlone
  <1>. QED
    BY <1>1, <1>2, <1>3

(* Stop goes through its phases in order. *)
LEMMA StopOrderKeeps ==
    ASSUME IInv, Next
    PROVE  StopIsOrdered'
  <1>. StopIsOrdered /\ StartIsAlone /\ PhasesTyped
    BY TypeParts DEF IInv
  <1>1. CASE StartNext
    BY <1>1 DEF StartNext, StartBegins, StartDials, StartDialFails, StartFails, StartServes,
       serveVars, monitorVars, stopVars, StopIsOrdered, StartIsAlone
  <1>2. CASE ServeNext
    <2>1. serve # "exit" /\ done = FALSE
      BY <1>2 DEF ServeNext, ServeChecks, ServeReads, AcceptFails, Accepts, Serves, StopIsOrdered, PhasesTyped
    <2>2. done' => serve' = "exit"
      BY <1>2, <2>1 DEF ServeNext, ServeChecks, ServeReads, AcceptFails, Accepts, Serves
    <2>. QED
      BY <1>2, <2>2, ServeLeaves DEF StopIsOrdered
  <1>3. CASE HandlerNext
    BY <1>3, HandlerLeavesRest DEF StopIsOrdered
  <1>4. CASE MonitorStep
    <2>1. monitor' = "close" => stopping
      BY <1>4 DEF MonitorStep, WaitLossReturns, EmitsDisconnected, ClearsTerminal, BackoffEnds,
           RebuildFails, Rebuilds, RebindFails, Rebinds, EmitsReconnected, SetsLease, GivesUp,
           ClosesEvents, Monitors, StopIsOrdered
    <2>. QED
      BY <1>4, <2>1, MonitorLeaves DEF StopIsOrdered
  <1>5. CASE StopNext
    BY <1>5, StopLeaves DEF StopNext, StopStep, StopMarks, StopCancels, StopReleases, StopCloses,
       StopIsDone, StopTimesOut, stopVars, StopIsOrdered, PhasesTyped
  <1>6. CASE \E l \in Leases : OldLeaseReleased(l)
    BY <1>6 DEF OldLeaseReleased, serveVars, stopVars, StopIsOrdered
  <1>7. CASE TakesEvent \/ \E l \in Leases : ChainBreaks(l)
    BY <1>7, RestLeaves DEF StopIsOrdered
  <1>. QED
    BY <1>1, <1>2, <1>3, <1>4, <1>5, <1>6, <1>7 DEF Next

-----------------------------------------------------------------------------
\* What the clauses about leases read.
leaseView == <<starter, lease, terminal, leases, held, monitor, nextLease, releasing, stopLease, stopper>>

(* A step that touches no lease keeps what is known of them, *)
LEMMA LeasesUntouched ==
    ASSUME IInv, UNCHANGED leaseView
    PROVE  LeasesAreDistinct' /\ LeasesAreNamed' /\ TerminalIsHeld'
  BY DEF IInv, leaseView, LeasesAreDistinct, LeasesAreNamed, TerminalIsHeld

(* ... a step of the monitor that only goes on does, *)
LEMMA LeasesPassed ==
    ASSUME IInv,
           UNCHANGED <<starter, lease, terminal, leases, held, nextLease, releasing, stopLease, stopper>>,
           (monitor' \in {"bind", "announce", "set"}) = (monitor \in {"bind", "announce", "set"})
    PROVE  LeasesAreDistinct' /\ LeasesAreNamed' /\ TerminalIsHeld'
  BY DEF IInv, LeasesAreDistinct, LeasesAreNamed, TerminalIsHeld

(* ... and so does one that releases a lease nobody counts on. *)
LEMMA LeaseReleased ==
    ASSUME IInv, NEW l, Release(l), l # lease, l # nextLease \/ nextLease = NoLease,
           UNCHANGED <<starter, lease, terminal, leases, monitor, nextLease, stopLease>>,
           releasing' \subseteq releasing,
           \A m \in releasing : m \in releasing' \/ m = l,
           stopper' = stopper \/ (l = stopLease /\ stopper' \notin {"cancel", "release"})
    PROVE  LeasesAreDistinct' /\ LeasesAreNamed' /\ TerminalIsHeld'
  <1>1. \A m \in Leases : held'[m] = (m # l /\ held[m])
    BY TypeParts DEF Release, IInv, HoldingsTyped
  <1>2. /\ lease \in Leases \union {NoLease} /\ nextLease \in Leases \union {NoLease}
    BY TypeParts DEF IInv, NamesTyped
  <1>3. LeasesAreDistinct'
    BY <1>1, <1>2 DEF IInv, LeasesAreDistinct
  <1>4. LeasesAreNamed'
    BY <1>1 DEF IInv, LeasesAreNamed
  <1>5. TerminalIsHeld'
    BY <1>1, <1>2 DEF IInv, TerminalIsHeld
  <1>. QED
    BY <1>3, <1>4, <1>5

(* Every step keeps the leases distinct, owned and, as long as they are used, held. *)
LEMMA LeasesKeep ==
    ASSUME IInv, Next
    PROVE  LeasesAreDistinct' /\ LeasesAreNamed' /\ TerminalIsHeld'
  <1>. PhasesTyped /\ NamesTyped /\ HoldingsTyped /\ StartIsAlone /\ LeasesAreDistinct /\ LeasesAreNamed /\ TerminalIsHeld
    BY TypeParts DEF IInv
  <1>1. CASE StartNext
    <2>1. CASE StartBegins
      BY <2>1 DEF StartBegins, StartIsAlone, fieldVars, chainVars, monitorVars, stopVars,
                  LeasesAreDistinct, LeasesAreNamed, TerminalIsHeld
    <2>2. CASE StartDialFails
      BY <2>2 DEF StartDialFails, StartIsAlone, fieldVars, chainVars, monitorVars, stopVars,
                  LeasesAreDistinct, LeasesAreNamed, TerminalIsHeld
    <2>3. CASE \E l \in Leases : StartDials(l)
      <3>1. PICK l \in Leases : StartDials(l)
        BY <2>3
      <3>2. /\ UNCHANGED <<lease, terminal, monitor, nextLease, releasing, stopLease, stopper>>
            /\ lease = NoLease /\ nextLease = NoLease /\ starter' = "probe"
        BY <3>1 DEF StartDials, StartIsAlone, LeasesAreDistinct, fieldVars, monitorVars, stopVars
      <3>3. 0..leases \subseteq 0..leases'
        BY <3>1, ForwardAssumption DEF StartDials, Lease, NamesTyped, Leases, NoLease
      <3>4. LeasesAreDistinct'
        BY <3>2, <3>3 DEF LeasesAreDistinct
      <3>. QED
        BY <3>2, <3>4 DEF LeasesAreNamed, TerminalIsHeld
    <2>4. CASE StartFails
      <3>1. \A m \in Leases : ~held'[m]
        BY <2>4 DEF StartFails, Release, StartIsAlone
      <3>2. UNCHANGED <<lease, terminal, leases, monitor, nextLease, releasing, stopLease, stopper>>
        BY <2>4 DEF StartFails, fieldVars, monitorVars, stopVars
      <3>3. lease = NoLease /\ nextLease = NoLease
        BY <2>4 DEF StartFails, StartIsAlone, LeasesAreDistinct
      <3>. QED
        BY <3>1, <3>2, <3>3 DEF LeasesAreDistinct, LeasesAreNamed, TerminalIsHeld
    <2>5. CASE StartServes
      <3>1. /\ UNCHANGED <<leases, held, nextLease, releasing, stopLease, stopper>>
            /\ lease' = leases /\ terminal' = leases /\ monitor' = "wait" /\ nextLease = NoLease
            /\ stopLease = NoLease /\ releasing = {}
        BY <2>5 DEF StartServes, StartIsAlone, LeasesAreDistinct, chainVars, stopVars
      <3>2. leases # NoLease /\ held[leases] /\ \A l \in Leases : held[l] => l = leases
        BY <2>5 DEF StartServes, StartIsAlone
      <3>3. leases \in 0..leases /\ NoLease \in 0..leases
        BY ForwardAssumption DEF NamesTyped, Leases, NoLease
      <3>. QED
        BY <3>1, <3>2, <3>3 DEF LeasesAreDistinct, LeasesAreNamed, TerminalIsHeld
    <2>. QED
      BY <1>1, <2>1, <2>2, <2>3, <2>4, <2>5 DEF StartNext
  <1>2. CASE ServeNext
    BY <1>2, ServeLeaves, LeasesUntouched DEF leaseView
  <1>3. CASE HandlerNext
    BY <1>3, HandlerLeavesRest, LeasesUntouched DEF leaseView
  <1>4. CASE MonitorStep
    <2>. UNCHANGED <<starter, stopLease, stopper>>
      BY <1>4, MonitorLeaves
    <2>1. CASE \E l \in Leases : Rebuilds(l)
      <3>1. PICK l \in Leases : Rebuilds(l)
        BY <2>1
      <3>2. /\ UNCHANGED <<lease, terminal, releasing>>
            /\ nextLease = NoLease /\ nextLease' = l /\ monitor' \in {"bind", "announce", "set"}
            /\ leases' = l /\ l = leases + 1
        BY <3>1 DEF Rebuilds, Monitors, Lease, LeasesAreDistinct, fieldVars
      <3>3. \A m \in Leases : held'[m] = (m = l \/ held[m])
        BY <3>1 DEF Rebuilds, Lease, HoldingsTyped
      <3>4. /\ 0..leases \subseteq 0..l /\ l \notin 0..leases /\ l \in 0..l /\ l # NoLease
        BY <3>2, ForwardAssumption DEF NamesTyped, Leases, NoLease
      <3>5. LeasesAreDistinct'
        BY <3>2, <3>3, <3>4 DEF LeasesAreDistinct
      <3>6. LeasesAreNamed'
        <4>1. \A m \in Leases : m # NoLease
          BY ForwardAssumption DEF Leases, NoLease
        <4>. QED
          BY <3>2, <3>3, <4>1 DEF LeasesAreNamed
      <3>7. TerminalIsHeld'
        BY <3>2, <3>3 DEF TerminalIsHeld, NamesTyped
      <3>. QED
        BY <3>5, <3>6, <3>7
    <2>2. CASE RebindFails
      <3>1. /\ UNCHANGED <<lease, terminal, leases, releasing>>
            /\ nextLease' = NoLease /\ monitor' = "backoff" /\ nextLease # lease
            /\ nextLease \in Leases
        BY <2>2 DEF RebindFails, Monitors, LeasesAreDistinct, NamesTyped, fieldVars
      <3>2. \A m \in Leases : held'[m] = (m # nextLease /\ held[m])
        BY <2>2 DEF RebindFails, Release, HoldingsTyped
      <3>3. LeasesAreDistinct'
        <4>1. NoLease \in 0..leases
          BY ForwardAssumption DEF NamesTyped, Leases, NoLease
        <4>. QED
          BY <3>1, <3>2, <4>1 DEF LeasesAreDistinct
      <3>4. LeasesAreNamed'
        BY <3>1, <3>2 DEF LeasesAreNamed
      <3>5. TerminalIsHeld'
        BY <3>1, <3>2 DEF TerminalIsHeld, NamesTyped
      <3>. QED
        BY <3>3, <3>4, <3>5
    <2>3. CASE SetsLease
      <3>1. /\ UNCHANGED <<leases, held>>
            /\ lease' = nextLease /\ terminal' = nextLease /\ nextLease' = NoLease
            /\ monitor' = "wait" /\ nextLease # NoLease /\ held[nextLease]
            /\ releasing' = releasing \union ({lease} \ {NoLease})
        BY <2>3 DEF SetsLease, Monitors, ToRelease, LeasesAreDistinct, chainVars
      <3>2. LeasesAreDistinct'
        <4>1. NoLease \in 0..leases
          BY ForwardAssumption DEF NamesTyped, Leases, NoLease
        <4>. QED
          BY <3>1, <4>1 DEF LeasesAreDistinct
      <3>3. LeasesAreNamed'
        <4>1. \A l \in Leases : l # NoLease
          BY ForwardAssumption DEF Leases, NoLease
        <4>. QED
          BY <3>1, <4>1 DEF LeasesAreNamed
      <3>. QED
        BY <3>1, <3>2, <3>3 DEF TerminalIsHeld
    <2>4. CASE ClearsTerminal
      <3>1. /\ UNCHANGED <<lease, leases, held, nextLease, releasing>>
            /\ monitor = "clear" /\ monitor' = "backoff" /\ terminal' \in {NoLease, terminal}
        BY <2>4 DEF ClearsTerminal, Monitors, chainVars
      <3>. QED
        BY <3>1 DEF LeasesAreDistinct, LeasesAreNamed, TerminalIsHeld
    <2>5. CASE WaitLossReturns \/ EmitsDisconnected \/ BackoffEnds \/ RebuildFails \/ Rebinds
               \/ EmitsReconnected \/ GivesUp \/ ClosesEvents
      <3>1. UNCHANGED <<starter, lease, terminal, leases, held, nextLease, releasing, stopLease, stopper>>
        BY <2>5 DEF WaitLossReturns, EmitsDisconnected, BackoffEnds, RebuildFails, Rebinds,
               EmitsReconnected, GivesUp, ClosesEvents, fieldVars, chainVars
      <3>2. (monitor' \in {"bind", "announce", "set"}) = (monitor \in {"bind", "announce", "set"})
        BY <2>5 DEF WaitLossReturns, EmitsDisconnected, BackoffEnds, RebuildFails, Rebinds,
               EmitsReconnected, GivesUp, ClosesEvents, Monitors
      <3>. QED
        BY <3>1, <3>2, LeasesPassed
    <2>. QED
      BY <1>4, <2>1, <2>2, <2>3, <2>4, <2>5 DEF MonitorStep
  <1>5. CASE StopNext
    <2>1. CASE StopMarks
      <3>1. /\ UNCHANGED <<starter, leases, held, monitor, nextLease, releasing>>
            /\ stopLease' = lease /\ lease' = NoLease /\ terminal' = NoLease /\ stopper' = "cancel"
            /\ stopper = "idle"
        BY <2>1 DEF StopMarks, FieldsTaken, chainVars, monitorVars
      <3>2. LeasesAreDistinct'
        <4>1. NoLease \in 0..leases
          BY ForwardAssumption DEF NamesTyped, Leases, NoLease
        <4>. QED
          BY <3>1, <4>1 DEF LeasesAreDistinct
      <3>3. LeasesAreNamed'
        BY <3>1 DEF LeasesAreNamed
      <3>. QED
        BY <3>1, <3>2, <3>3 DEF TerminalIsHeld
    <2>2. CASE StopReleases
      <3>1. stopLease # lease \/ lease = NoLease
        BY DEF LeasesAreDistinct
      <3>2. stopLease # nextLease \/ nextLease = NoLease
        BY DEF LeasesAreDistinct
      <3>3. CASE stopLease # lease
        BY <2>2, <3>2, <3>3, LeaseReleased DEF StopReleases, fieldVars, monitorVars
      <3>4. CASE stopLease = lease
        <4>1. \A m \in Leases : m # NoLease /\ (held'[m] <=> held[m])
          BY <2>2, <3>1, <3>4, ForwardAssumption DEF StopReleases, Release, Leases, NoLease
        <4>2. /\ UNCHANGED <<starter, lease, terminal, leases, monitor, nextLease, releasing, stopLease>>
              /\ stopLease = NoLease
          BY <2>2, <3>1, <3>4 DEF StopReleases, fieldVars, monitorVars
        <4>. QED
          BY <3>1, <3>4, <4>1, <4>2 DEF LeasesAreDistinct, LeasesAreNamed, TerminalIsHeld, NamesTyped
      <3>. QED
        BY <3>3, <3>4
    <2>3. CASE StopCancels \/ StopCloses \/ StopIsDone
      <3>1. /\ UNCHANGED <<starter, lease, terminal, leases, held, monitor, nextLease, releasing, stopLease>>
            /\ stopper' \in {"cancel", "release"} \/ stopper \notin {"cancel", "release"}
        BY <2>3 DEF StopCancels, StopCloses, StopIsDone, fieldVars, chainVars, monitorVars
      <3>. QED
        BY <3>1 DEF LeasesAreDistinct, LeasesAreNamed, TerminalIsHeld
    <2>4. CASE StopTimesOut
      BY <2>4, LeasesUntouched DEF StopTimesOut, leaseView, fieldVars, monitorVars, stopVars
    <2>. QED
      BY <1>5, <2>1, <2>2, <2>3, <2>4 DEF StopNext, StopStep
  <1>6. CASE \E l \in Leases : OldLeaseReleased(l)
    <2>1. PICK l \in Leases : OldLeaseReleased(l)
      BY <1>6
    <2>2. l # lease /\ l # nextLease
      BY <2>1, ForwardAssumption DEF OldLeaseReleased, LeasesAreDistinct, Leases, NoLease
    <2>. QED
      BY <2>1, <2>2, LeaseReleased DEF OldLeaseReleased, fieldVars, stopVars
  <1>7. CASE TakesEvent \/ \E l \in Leases : ChainBreaks(l)
    BY <1>7, RestLeaves, LeasesUntouched DEF leaseView
  <1>. QED
    BY <1>1, <1>2, <1>3, <1>4, <1>5, <1>6, <1>7 DEF Next

-----------------------------------------------------------------------------
(* Every step keeps open listeners the forward's, or Stop's. *)
LEMMA ListenersKeep ==
    ASSUME IInv, Next
    PROVE  ListenersAreNamed'
  <1>. ListenersAreNamed /\ StartIsAlone /\ HoldingsTyped
    BY TypeParts DEF IInv
  <1>. USE DEF ListenersAreNamed
  <1>1. CASE StartNext
    BY <1>1 DEF StartNext, StartBegins, StartDials, StartDialFails, StartFails, StartServes,
       fieldVars, stopVars
  <1>2. CASE ServeNext \/ HandlerNext
    BY <1>2, ServeLeaves, HandlerLeavesRest
  <1>3. CASE MonitorStep
    <2>1. CASE Rebinds
      BY <1>3, <2>1, MonitorLeaves DEF Rebinds, OpenInsteadOfOld
    <2>2. CASE GivesUp
      BY <1>3, <2>2, MonitorLeaves DEF GivesUp
    <2>3. CASE ~Rebinds /\ ~GivesUp
      <3>1. UNCHANGED <<open, listener>>
        BY <1>3, <2>3 DEF MonitorStep, WaitLossReturns, EmitsDisconnected, ClearsTerminal, BackoffEnds,
           RebuildFails, Rebuilds, RebindFails, EmitsReconnected, SetsLease, ClosesEvents, fieldVars
      <3>. QED
        BY <1>3, <3>1, MonitorLeaves
    <2>. QED
      BY <2>1, <2>2, <2>3
  <1>4. CASE StopNext
    <2>1. CASE StopMarks
      BY <2>1, StopLeaves DEF StopMarks, FieldsTaken, IInv, StopIsOrdered
    <2>2. CASE StopCloses
      BY <2>2 DEF StopCloses, fieldVars
    <2>3. CASE StopCancels \/ StopReleases \/ StopIsDone \/ StopTimesOut
      BY <2>3 DEF StopCancels, StopReleases, StopIsDone, StopTimesOut, fieldVars, stopVars
    <2>. QED
      BY <1>4, <2>1, <2>2, <2>3 DEF StopNext, StopStep
  <1>5. CASE \E l \in Leases : OldLeaseReleased(l)
    BY <1>5 DEF OldLeaseReleased, fieldVars, stopVars
  <1>6. CASE TakesEvent \/ \E l \in Leases : ChainBreaks(l)
    BY <1>6, RestLeaves
  <1>. QED
    BY <1>1, <1>2, <1>3, <1>4, <1>5, <1>6 DEF Next

-----------------------------------------------------------------------------
strayView == <<mode, stopping, lease, listener, stopLease, nextLease, monitor>>

LEMMA StrayUntouched ==
    ASSUME IInv, UNCHANGED strayView
    PROVE  StrayIsOneChain' /\ LocalNeverRebinds'
  BY DEF IInv, strayView, StrayIsOneChain, LocalNeverRebinds, Stray

(* What a Stop leaves behind stays one chain: until Stop takes the fields there is *)
(* nothing stray, and who fills them afterwards ends.                              *)
LEMMA StrayKeeps ==
    ASSUME IInv, Next
    PROVE  StrayIsOneChain' /\ LocalNeverRebinds'
  <1>. StrayIsOneChain /\ LocalNeverRebinds /\ LeasesAreDistinct /\ StartIsAlone /\ StopIsOrdered /\ PhasesTyped
    BY TypeParts DEF IInv
  <1>1. CASE StartNext
    <2>1. stopping' = FALSE
      BY <1>1 DEF StartNext, StartBegins, StartDials, StartDialFails, StartFails, StartServes,
         stopVars, StartIsAlone, StopIsOrdered
    <2>2. mode' = mode /\ monitor' \in {monitor, "wait"}
      BY <1>1 DEF StartNext, StartBegins, StartDials, StartDialFails, StartFails, StartServes, monitorVars
    <2>. QED
      BY <2>1, <2>2 DEF StrayIsOneChain, LocalNeverRebinds, Stray
  <1>2. CASE ServeNext
    BY <1>2, ServeLeaves, StrayUntouched DEF strayView
  <1>3. CASE HandlerNext
    BY <1>3, HandlerLeavesRest, StrayUntouched DEF strayView
  <1>4. CASE MonitorStep
    <2>. UNCHANGED <<mode, stopping, stopLease>>
      BY <1>4, MonitorLeaves
    <2>1. CASE \E l \in Leases : Rebuilds(l)
      <3>1. PICK l \in Leases : Rebuilds(l)
        BY <2>1
      <3>2. UNCHANGED <<lease, listener>> /\ monitor = "rebuild"
            /\ monitor' = IF mode = "remote" THEN "bind" ELSE "announce"
        BY <3>1 DEF Rebuilds, Monitors, fieldVars
      <3>. QED
        BY <3>2 DEF StrayIsOneChain, LocalNeverRebinds, Stray
    <2>2. CASE Rebinds
      <3>1. /\ listener' = nextLease /\ monitor = "bind" /\ monitor' = "announce"
            /\ UNCHANGED <<lease, nextLease>>
        BY <2>2 DEF Rebinds, Monitors
      <3>2. mode = "remote"
        BY <3>1, ForwardAssumption DEF LocalNeverRebinds, PhasesTyped
      <3>. QED
        BY <3>1, <3>2 DEF StrayIsOneChain, LocalNeverRebinds, Stray
    <2>3. CASE SetsLease
      <3>1. /\ lease' = nextLease /\ monitor = "set" /\ monitor' = "wait" /\ listener' = listener
            /\ nextLease # NoLease
        BY <2>3 DEF SetsLease, Monitors, LeasesAreDistinct
      <3>2. nextLease # stopLease
        BY <3>1 DEF LeasesAreDistinct
      <3>. QED
        BY <3>1, <3>2 DEF StrayIsOneChain, LocalNeverRebinds, Stray
    <2>4. CASE GivesUp
      <3>1. /\ lease' = lease /\ monitor = "giveUp" /\ monitor' = "leave" /\ listener' = NoLease
        BY <2>4 DEF GivesUp, Monitors
      <3>. QED
        BY <3>1 DEF StrayIsOneChain, LocalNeverRebinds, Stray
    <2>5. CASE WaitLossReturns
      <3>1. /\ UNCHANGED <<lease, listener, nextLease>> /\ monitor = "wait"
            /\ monitor' \in {"lost", "close"} /\ (stopping => monitor' = "close")
        BY <2>5 DEF WaitLossReturns, Monitors, fieldVars, StopIsOrdered
      <3>. QED
        BY <3>1 DEF StrayIsOneChain, LocalNeverRebinds, Stray
    <2>6. CASE EmitsReconnected
      <3>1. /\ UNCHANGED <<lease, listener, nextLease>> /\ monitor = "announce" /\ monitor' = "set"
        BY <2>6 DEF EmitsReconnected, Monitors, fieldVars
      <3>. QED
        BY <3>1 DEF StrayIsOneChain, LocalNeverRebinds, Stray
    <2>7. CASE ClosesEvents
      <3>1. /\ UNCHANGED <<lease, listener, nextLease>> /\ monitor \in {"close", "leave"} /\ monitor' = "exit"
        BY <2>7 DEF ClosesEvents, Monitors, fieldVars
      <3>. QED
        BY <3>1 DEF StrayIsOneChain, LocalNeverRebinds, Stray
    <2>8. CASE EmitsDisconnected \/ ClearsTerminal \/ BackoffEnds \/ RebuildFails \/ RebindFails
      <3>1. /\ UNCHANGED <<lease, listener>> /\ monitor \in {"lost", "clear", "backoff", "rebuild", "bind"}
            /\ monitor' \in {"clear", "backoff", "rebuild", "leave", "giveUp"}
        BY <2>8 DEF EmitsDisconnected, ClearsTerminal, BackoffEnds, RebuildFails, RebindFails, Monitors, fieldVars
      <3>. QED
        BY <3>1 DEF StrayIsOneChain, LocalNeverRebinds, Stray
    <2>. QED
      BY <1>4, <2>1, <2>2, <2>3, <2>4, <2>5, <2>6, <2>7, <2>8 DEF MonitorStep
  <1>5. CASE StopNext
    <2>1. CASE StopMarks
      BY <2>1, StopLeaves, <1>5 DEF StopMarks, FieldsTaken, StrayIsOneChain, LocalNeverRebinds, Stray
    <2>2. CASE StopCancels \/ StopReleases \/ StopCloses \/ StopIsDone \/ StopTimesOut
      BY <2>2, StrayUntouched
      DEF StopCancels, StopReleases, StopCloses, StopIsDone, StopTimesOut, strayView, fieldVars, monitorVars, stopVars
    <2>. QED
      BY <1>5, <2>1, <2>2 DEF StopNext, StopStep
  <1>6. CASE \E l \in Leases : OldLeaseReleased(l)
    BY <1>6, StrayUntouched DEF OldLeaseReleased, strayView, fieldVars, stopVars
  <1>7. CASE TakesEvent \/ \E l \in Leases : ChainBreaks(l)
    BY <1>7, RestLeaves, StrayUntouched DEF strayView
  <1>. QED
    BY <1>1, <1>2, <1>3, <1>4, <1>5, <1>6, <1>7 DEF Next

-----------------------------------------------------------------------------
(* A step of one connection's handler says nothing of the others. *)
LEMMA OthersKeep ==
    ASSUME IInv, NEW c \in Conns,
           \A d \in Conns \ {c} : /\ handler'[d] = handler[d] /\ sock'[d] = sock[d]
                                 /\ \A s \in Sides : <<d, s>> \in tracked' => <<d, s>> \in tracked,
           ConnOrdered(c)'
    PROVE  ConnsAreOrdered'
  BY DEF IInv, ConnsAreOrdered, ConnOrdered, Sides

(* Every step keeps handlers, sides and f.activeConns in line. *)
LEMMA ConnsKeep ==
    ASSUME IInv, Next
    PROVE  ConnsAreOrdered'
  <1>. ConnsAreOrdered /\ HandlersTyped /\ SocketsTyped /\ PhasesTyped
    BY TypeParts DEF IInv
  <1>1. CASE UNCHANGED <<handler, sock, tracked>>
    BY <1>1 DEF ConnsAreOrdered, ConnOrdered
  <1>2. CASE ServeNext
    <2>1. CASE \E c \in Conns : Accepts(c)
      <3>1. PICK c \in Conns : Accepts(c)
        BY <2>1
      <3>2. /\ tracked' = tracked /\ handler[c] = "none" /\ handler'[c] = "new"
            /\ sock'[c]["near"] = "open"
        BY <3>1 DEF Accepts, HandlersTyped, SocketsTyped, Sides
      <3>3. \A d \in Conns \ {c} : handler'[d] = handler[d] /\ sock'[d] = sock[d]
        BY <3>1 DEF Accepts, HandlersTyped, SocketsTyped
      <3>4. ConnOrdered(c)'
        BY <3>2 DEF ConnsAreOrdered, ConnOrdered
      <3>. QED
        BY <3>2, <3>3, <3>4, OthersKeep
    <2>. QED
      BY <1>1, <1>2, <2>1 DEF ServeNext, ServeChecks, ServeReads, AcceptFails, connVars
  <1>3. CASE HandlerNext
    <2>1. PICK c \in Conns : HandlerTracks(c) \/ HandlerReads(c) \/ HandlerDials(c) \/ HandlerEnds(c)
      BY <1>3 DEF HandlerNext
    <2>2. \A d \in Conns \ {c} : handler'[d] = handler[d] /\ sock'[d] = sock[d]
      BY <2>1 DEF HandlerTracks, Tracks, HandlerReads, HandlerDials, HandlerEnds, HandlerLeaves, Handles,
         HandlersTyped, SocketsTyped
    <2>3. \A d \in Conns \ {c} : \A s \in Sides : <<d, s>> \in tracked' => <<d, s>> \in tracked
      BY <2>1 DEF HandlerTracks, Tracks, HandlerReads, HandlerDials, HandlerEnds, HandlerLeaves
    <2>4. ConnOrdered(c)'
      <3>1. CASE HandlerLeaves(c) /\ handler'[c] = "gone"
        <4>1. \A s \in Sides : sock'[c][s] # "open" /\ <<c, s>> \notin tracked'
          BY <3>1 DEF HandlerLeaves, CloseBoth, SocketsTyped
        <4>. QED
          BY <3>1, <4>1 DEF ConnOrdered, Sides
      <3>2. CASE UNCHANGED sock /\ Handles(c, "new", "tracked") /\ tracked' = tracked \union {<<c, "near">>}
        BY <3>2 DEF Handles, ConnsAreOrdered, ConnOrdered, HandlersTyped
      <3>3. CASE UNCHANGED sock /\ Handles(c, "dialled", "bridge") /\ tracked' = tracked \union {<<c, "far">>}
        BY <3>3 DEF Handles, ConnsAreOrdered, ConnOrdered, HandlersTyped
      <3>4. CASE UNCHANGED <<sock, tracked>> /\ Handles(c, "tracked", "dial")
        BY <3>4 DEF Handles, ConnsAreOrdered, ConnOrdered, HandlersTyped
      <3>5. CASE HandlerDials(c)
        <4>1. /\ tracked' = tracked /\ handler[c] = "dial" /\ handler'[c] = "dialled"
              /\ sock'[c]["far"] = "open" /\ sock'[c]["near"] = sock[c]["near"]
          BY <3>5 DEF HandlerDials, Handles, HandlersTyped, SocketsTyped, Sides
        <4>. QED
          BY <4>1 DEF ConnsAreOrdered, ConnOrdered
      <3>6. handler'[c] = "gone" \/ ~(Handles(c, "tracked", "gone") \/ Handles(c, "new", "gone")
              \/ Handles(c, "dialled", "gone") \/ Handles(c, "dial", "gone") \/ Handles(c, "bridge", "gone"))
        BY DEF Handles, HandlersTyped
      <3>. QED
        BY <2>1, <3>1, <3>2, <3>3, <3>4, <3>5, <3>6
        DEF HandlerTracks, Tracks, HandlerReads, HandlerEnds
    <2>. QED
      BY <2>2, <2>3, <2>4, OthersKeep
  <1>4. CASE StopNext
    <2>1. CASE StopCloses
      <3>1. UNCHANGED <<handler, tracked>>
        BY <2>1 DEF StopCloses
      <3>2. \A c \in Conns, s \in Sides :
              sock'[c][s] = sock[c][s] \/ (sock[c][s] = "open" /\ sock'[c][s] = "closed")
        BY <2>1 DEF StopCloses
      <3>. QED
        BY <3>1, <3>2 DEF ConnsAreOrdered, ConnOrdered, Sides
    <2>2. CASE ~StopCloses
      <3>1. UNCHANGED connVars
        BY <1>4, <2>2 DEF StopNext, StopStep, StopMarks, StopCancels, StopReleases, StopIsDone, StopTimesOut
      <3>. QED
        BY <1>1, <3>1 DEF connVars
    <2>. QED
      BY <2>1, <2>2
  <1>5. StartNext \/ (\E l \in Leases : OldLeaseReleased(l)) => UNCHANGED <<handler, sock, tracked>>
    BY DEF StartNext, StartBegins, StartDials, StartDialFails, StartFails, StartServes, OldLeaseReleased,
       connVars
  <1>. QED
    BY <1>1, <1>2, <1>3, <1>4, <1>5, MonitorLeaves, RestLeaves DEF Next

(* Every step keeps Stop's snapshot complete and, once closed, closed. *)
LEMMA StopCompleteKeeps ==
    ASSUME IInv, Next
    PROVE  StopIsComplete'
  <1>. StopIsComplete /\ ConnsAreOrdered /\ StopIsOrdered /\ HandlersTyped /\ SocketsTyped /\ PhasesTyped
    BY TypeParts DEF IInv
  <1>1. CASE ServeNext
    <2>1. ~stopDone
      BY <1>1 DEF ServeNext, ServeChecks, ServeReads, AcceptFails, Accepts, Serves, StopIsComplete, StopIsOrdered
    <2>2. \A c \in Conns, s \in Sides : <<c, s>> \in tracked => sock'[c][s] = sock[c][s]
      BY <1>1 DEF ServeNext, ServeChecks, ServeReads, AcceptFails, Accepts, ConnsAreOrdered, ConnOrdered, connVars,
         SocketsTyped, Sides
    <2>. QED
      BY <1>1, <2>1, <2>2, ServeLeaves DEF StopIsComplete, StopClosesConns, HandlersTyped
  <1>2. CASE HandlerNext
    <2>1. PICK c \in Conns : HandlerTracks(c) \/ HandlerReads(c) \/ HandlerDials(c) \/ HandlerEnds(c)
      BY <1>2 DEF HandlerNext
    <2>2. ~stopDone
      BY <2>1 DEF HandlerTracks, Tracks, HandlerReads, HandlerDials, HandlerEnds, Handles, StopIsComplete
    <2>3. stopping => tracked' \subseteq tracked
      BY <2>1 DEF HandlerTracks, Tracks, HandlerReads, HandlerDials, HandlerEnds, HandlerLeaves
    <2>4. stopping => \A d \in Conns, s \in Sides : <<d, s>> \in tracked' => sock'[d][s] = sock[d][s]
      <3>1. CASE HandlerDials(c)
        <4>1. \A d \in Conns, s \in Sides : <<d, s>> # <<c, "far">> => sock'[d][s] = sock[d][s]
          BY <3>1 DEF HandlerDials, SocketsTyped, Sides
        <4>2. <<c, "far">> \notin tracked /\ tracked' = tracked
          BY <3>1 DEF HandlerDials, Handles, ConnsAreOrdered, ConnOrdered
        <4>. QED
          BY <4>1, <4>2
      <3>2. CASE HandlerLeaves(c)
        <4>1. \A d \in Conns \ {c} : sock'[d] = sock[d]
          BY <3>2 DEF HandlerLeaves, SocketsTyped
        <4>2. \A s \in Sides : <<c, s>> \notin tracked'
          BY <3>2 DEF HandlerLeaves
        <4>. QED
          BY <4>1, <4>2
      <3>3. CASE UNCHANGED sock
        BY <3>3
      <3>. QED
        BY <2>1, <3>1, <3>2, <3>3 DEF HandlerTracks, Tracks, HandlerReads, HandlerEnds
    <2>5. stopping => \A cs \in tracked' : cs \in tracked /\ sock'[cs[1]][cs[2]] = sock[cs[1]][cs[2]]
      BY <2>3, <2>4 DEF HandlersTyped
    <2>6. UNCHANGED <<stopping, stopper, stopConns, stopDone>>
      BY <1>2, HandlerLeavesRest
    <2>. QED
      BY <2>2, <2>3, <2>5, <2>6 DEF StopIsComplete, StopClosesConns, StopIsOrdered
  <1>3. CASE StopNext
    <2>1. CASE StopMarks
      BY <2>1 DEF StopMarks, StopIsComplete, StopClosesConns, StopIsOrdered, connVars, serveVars
    <2>2. CASE StopCloses
      <3>1. \A cs \in tracked : sock'[cs[1]][cs[2]] = "closed"
        BY <2>2 DEF StopCloses, StopIsComplete, HandlersTyped, SocketsTyped, ConnsAreOrdered, ConnOrdered, Sides
      <3>. QED
        BY <2>2, <3>1 DEF StopCloses, StopIsComplete, StopClosesConns, StopIsOrdered
    <2>3. CASE StopIsDone
      BY <2>3 DEF StopIsDone, CleanUpIsOver, StopIsComplete, StopClosesConns, connVars, serveVars
    <2>4. CASE StopCancels \/ StopReleases \/ StopTimesOut
      BY <2>4 DEF StopCancels, StopReleases, StopTimesOut, StopIsComplete, StopClosesConns, connVars,
         serveVars, stopVars
    <2>. QED
      BY <1>3, <2>1, <2>2, <2>3, <2>4 DEF StopNext, StopStep
  <1>4. CASE UNCHANGED <<handler, sock, tracked, done, stopper, stopConns, stopDone>>
    BY <1>4 DEF StopIsComplete, StopClosesConns
  <1>5. CASE StartNext
    BY <1>5 DEF StartNext, StartBegins, StartDials, StartDialFails, StartFails, StartServes, connVars,
       serveVars, stopVars, StopIsComplete, StopClosesConns
  <1>6. (\E l \in Leases : OldLeaseReleased(l)) => UNCHANGED <<handler, sock, tracked, done, stopper, stopConns, stopDone>>
    BY DEF OldLeaseReleased, connVars, serveVars, stopVars
  <1>. QED
    BY <1>1, <1>2, <1>3, <1>4, <1>5, <1>6, MonitorLeaves, RestLeaves DEF Next

-----------------------------------------------------------------------------
(* Every step keeps the invariant, *)
LEMMA NextKeeps == IInv /\ [Next]_vars => IInv'
  <1>. SUFFICES ASSUME IInv, [Next]_vars PROVE IInv'
    OBVIOUS
  <1>1. CASE Next
    <2>1. TypeOK'
      BY <1>1, PhasesKeep, HoldingsKeep, EventsKeep, HandlersKeep, SocketsKeep
      DEF TypeOK, PhasesTyped, NamesTyped, HoldingsTyped, EventsTyped, HandlersTyped, SocketsTyped
    <2>. QED
      BY <1>1, <2>1, StartKeeps, StopOrderKeeps, LeasesKeep, ListenersKeep, StrayKeeps, ConnsKeep,
         StopCompleteKeeps
      DEF IInv
  <1>2. CASE UNCHANGED vars
    <2>. USE <1>2 DEF vars, fieldVars, chainVars, serveVars, monitorVars, eventVars, connVars, stopVars
    <2>1. TypeOK'
      BY DEF IInv, TypeOK
    <2>2. StartIsAlone' /\ StopIsOrdered'
      BY DEF IInv, StartIsAlone, StopIsOrdered
    <2>3. LeasesAreDistinct' /\ LeasesAreNamed' /\ TerminalIsHeld'
      BY LeasesUntouched DEF leaseView
    <2>4. ListenersAreNamed' /\ ConnsAreOrdered'
      BY DEF IInv, ListenersAreNamed, ConnsAreOrdered, ConnOrdered
    <2>5. StopIsComplete'
      BY DEF IInv, StopIsComplete, StopClosesConns
    <2>6. StrayIsOneChain' /\ LocalNeverRebinds'
      BY StrayUntouched DEF strayView
    <2>. QED
      BY <2>1, <2>2, <2>3, <2>4, <2>5, <2>6 DEF IInv
  <1>. QED
    BY <1>1, <1>2

(* ... so it always holds. *)
LEMMA InvariantHolds == Spec => []IInv
  BY InitHolds, NextKeeps, PTL DEF Spec

(* Over any number of reconnections, and with Stop at any moment, a lease or a    *)
(* listener that is nobody's to release or close is the stray one: the  *)
(* one chain that a reconnection which had it when Stop came puts into the        *)
(* stopped forward (port_forward.go:531), never the chain Stop took, with a       *)
(* listener only if the forward is remote, and no second one after it.  Handlers  *)
(* dial with a lease that is held.  For any number of connections and leases.     *)
THEOREM HoldingsOwned == Spec => []HoldingsAreOwned
  <1>1. IInv => LeasesAreOwned
    <2>. SUFFICES ASSUME IInv, NEW l \in Leases, held[l]
                  PROVE  \/ starter = "probe"
                         \/ ~stopping /\ l = lease
                         \/ l = nextLease \/ l \in releasing
                         \/ l = stopLease /\ stopper \in {"cancel", "release"}
                         \/ l = Stray(lease)
      BY DEF LeasesAreOwned
    <2>1. \/ starter = "probe"
          \/ l \in {lease, nextLease} \union releasing
          \/ l = stopLease /\ stopper \in {"cancel", "release"}
      BY DEF IInv, LeasesAreNamed
    <2>2. l = lease => (~stopping /\ l = lease) \/ l = Stray(lease)
      BY DEF IInv, TypeOK, Stray
    <2>. QED
      BY <2>1, <2>2
  <1>2. IInv => ListenersAreOwned
    BY DEF IInv, ListenersAreNamed, ListenersAreOwned, Stray
  <1>3. IInv => HoldingsAreOwned
    BY <1>1, <1>2 DEF IInv, HoldingsAreOwned
  <1>. QED
    BY <1>3, InvariantHolds, PTL

(* A caller of Stop that is told "stopped" finds no handler, no open connection   *)
(* and no accept loop: handlers that track, dial or bridge while Stop takes its   *)
(* snapshot cannot slip past it.  A local forward does not listen any more        *)
(* either; a remote one listens at most with the listener that its reconnection   *)
(* bound past Stop (port_forward.go:524).                                         *)
THEOREM StoppedQuiet == Spec => []StoppedIsQuiet
  <1>1. IInv => StopClosesListeners
    <2>. SUFFICES ASSUME IInv, stopper \in {"wait", "over"}, NEW l \in open
                  PROVE  mode # "local" /\ l = listener
      BY DEF StopClosesListeners
    <2>1. l \in Leases /\ l # NoLease
      BY TypeParts DEF IInv, HoldingsTyped, Leases, NoLease
    <2>2. l = listener
      BY DEF IInv, ListenersAreNamed
    <2>3. stopping
      BY DEF IInv, StopIsOrdered
    <2>4. Stray(listener) # NoLease
      BY <2>1, <2>2, <2>3 DEF Stray
    <2>. QED
      BY <2>2, <2>4 DEF IInv, StrayIsOneChain
  <1>2. IInv => StoppedIsQuiet
    <2>1. IInv => (stopDone => serve = "exit")
      BY DEF IInv, StopIsComplete, StopIsOrdered
    <2>2. IInv /\ stopDone => \A c \in Conns : handler[c] \in {"none", "gone"} /\ \A s \in Sides : sock[c][s] # "open"
      BY DEF IInv, StopIsComplete, ConnsAreOrdered, ConnOrdered
    <2>. QED
      BY <1>1, <2>1, <2>2 DEF IInv, StopIsComplete, StoppedIsQuiet
  <1>. QED
    BY <1>2, InvariantHolds, PTL

-----------------------------------------------------------------------------
\* The two phases of the run that the mapping computes.
Life == IF starter = "idle" THEN "none"
        ELSE IF starter \in {"dial", "probe"} THEN "starting"
        ELSE IF starter = "failed" THEN "failed"
        ELSE IF stopDone THEN "stopped"
        ELSE IF stopping THEN "stopping"
        ELSE IF done THEN "ended" ELSE "serving"

Link == IF monitor \in {"off", "exit"} THEN "off"
        ELSE IF monitor \in {"wait", "lost", "set", "close"} THEN "up" ELSE "down"

(* The run, in these terms, before and after a step. *)
LEMMA HandleIs ==
    /\ Handle  = [life |-> Life,  link |-> Link,  events |-> events,  lost |-> lost]
    /\ Handle' = [life |-> Life', link |-> Link', events |-> events', lost |-> lost']
  BY DEF Handle, Life, Link

(* A change of life alone is a step of RunHandleSpec when the code's order of   *)
(* phases allows it. *)
LEMMA LifeSteps ==
    ASSUME UNCHANGED <<events, lost>>, Link' = Link,
           \/ Life = "none" /\ Life' = "starting"
           \/ Life = "starting" /\ Life' = "failed"
           \/ Life = "serving" /\ Life' = "ended"
           \/ Life \in {"serving", "ended"} /\ Life' = "stopping"
           \/ Life = "stopping" /\ Life' = "stopped"
    PROVE  Promise!Next
  <1>1. Handle' = [Handle EXCEPT !.life = Life'] /\ Handle.life = Life
    BY HandleIs
  <1>. QED
    BY <1>1 DEF Promise!Next, Promise!CanBegin, Promise!Begin, Promise!CanReturn, Promise!ReturnError,
       Promise!CanEnd, Promise!End, Promise!CanStop, Promise!Stop, Promise!CanClean, Promise!Clean

(* Start returns nil with the chain up, *)
LEMMA ServingStep ==
    ASSUME UNCHANGED <<events, lost>>, Life = "starting", Life' = "serving", Link' = "up"
    PROVE  Promise!Next
  <1>1. Handle' = [Handle EXCEPT !.life = "serving", !.link = "up"] /\ Handle.life = "starting"
    <2>. DEFINE begun == [Handle EXCEPT !.life = "serving"]
    <2>1. begun = [life |-> "serving", link |-> Link, events |-> events, lost |-> lost]
      BY HandleIs
    <2>2. Handle' = [life |-> "serving", link |-> "up", events |-> events, lost |-> lost]
      BY HandleIs
    <2>3. Handle.life = "starting"
      BY HandleIs
    <2>4. Handle' = [begun EXCEPT !.link = "up"]
      <3>. HIDE DEF begun
      <3>. QED
        BY <2>1, <2>2
    <2>. QED
      BY <2>3, <2>4, Zenon
  <1>. QED
    BY <1>1 DEF Promise!Next, Promise!CanReturn, Promise!ReturnServing

(* ... the monitor leaves, *)
LEMMA LeavingStep ==
    ASSUME UNCHANGED <<events, lost>>, Life' = Life, Link' = "off",
           Link = "down" \/ (Link = "up" /\ Life \in {"stopping", "stopped"})
    PROVE  Promise!Next
  <1>1. Handle' = [Handle EXCEPT !.link = "off"] /\ Handle.link = Link /\ Handle.life = Life
    BY HandleIs
  <1>. QED
    BY <1>1 DEF Promise!Next, Promise!CanLeave, Promise!Leave

(* ... reports a loss or a reconnection, *)
LEMMA ReportingStep ==
    ASSUME Life' = Life,
           \/ Link = "up" /\ Link' = "down" /\ Emits("disconnected")
           \/ Link = "down" /\ Link' = "up" /\ Emits("reconnected")
    PROVE  Promise!Next
  <1>1. ASSUME NEW k, NEW e, Link' = k, Emits(e)
        PROVE  Handle' = Promise!Emit([Handle EXCEPT !.link = k], e)
    <2>1. [Handle EXCEPT !.link = k] = [life |-> Life, link |-> k, events |-> events, lost |-> lost]
      BY HandleIs
    <2>2. Handle' = [life |-> Life, link |-> k, events |-> events', lost |-> lost']
      BY <1>1, HandleIs
    <2>3. CASE Len(events) < EventCapacity
      <3>1. events' = Append(events, e) /\ lost' = lost
        BY <1>1, <2>3 DEF Emits
      <3>. QED
        BY <2>1, <2>2, <2>3, <3>1 DEF Promise!Emit
    <2>4. CASE ~(Len(events) < EventCapacity)
      <3>1. events' = events /\ lost' = TRUE
        BY <1>1, <2>4 DEF Emits
      <3>. QED
        BY <2>1, <2>2, <2>4, <3>1 DEF Promise!Emit
    <2>. QED
      BY <2>3, <2>4
  <1>2. Handle.link = Link
    BY HandleIs
  <1>. QED
    BY <1>1, <1>2 DEF Promise!Next, Promise!CanLose, Promise!Lose, Promise!CanRestore, Promise!Restore

(* ... and the reader takes an event. *)
LEMMA TakingStep ==
    ASSUME events # <<>>, events' = Tail(events), UNCHANGED lost, Life' = Life, Link' = Link
    PROVE  Promise!Next
  <1>1. Handle' = [Handle EXCEPT !.events = Tail(events)] /\ Handle.events = events
    <2>1. \A t : [Handle EXCEPT !.events = t] = [life |-> Life, link |-> Link, events |-> t, lost |-> lost]
      BY HandleIs
    <2>2. Handle' = [life |-> Life, link |-> Link, events |-> Tail(events), lost |-> lost]
      BY HandleIs
    <2>3. Handle.events = events
      BY HandleIs
    <2>. QED
      BY <2>1, <2>2, <2>3
  <1>. QED
    BY <1>1 DEF Promise!Next, Promise!CanTake, Promise!Take

(* Every step of a forward is one of these, or none of RuntimeBiz's business. *)
LEMMA StepsMap ==
    ASSUME IInv, Next
    PROVE  Promise!Next \/ UNCHANGED Handle
  <1>. PhasesTyped /\ StartIsAlone /\ StopIsOrdered
    BY TypeParts DEF IInv
  <1>1. UNCHANGED <<events, lost>> /\ Life' = Life /\ Link' = Link => UNCHANGED Handle
    BY HandleIs
  <1>2. UNCHANGED <<starter, stopDone, stopping, done>> => Life' = Life
    BY DEF Life
  <1>3. UNCHANGED monitor => Link' = Link
    BY DEF Link
  <1>4. CASE StartNext
    <2>1. CASE StartServes
      <3>1. /\ starter = "probe" /\ starter' = "serving" /\ done' = done /\ ~done
            /\ stopDone' = stopDone /\ stopping' = stopping /\ ~stopping /\ ~stopDone
            /\ UNCHANGED <<events, lost>> /\ monitor' = "wait"
        BY <2>1 DEF StartServes, StartIsAlone, StopIsOrdered, serveVars, eventVars, stopVars
      <3>2. Life = "starting" /\ Life' = "serving" /\ Link' = "up"
        BY <3>1 DEF Life, Link
      <3>. QED
        BY <3>1, <3>2, ServingStep
    <2>2. CASE StartBegins
      BY <2>2, <1>3, LifeSteps DEF StartBegins, Life, monitorVars, eventVars
    <2>3. CASE StartDialFails \/ StartFails
      BY <2>3, <1>3, LifeSteps DEF StartDialFails, StartFails, Life, monitorVars, eventVars
    <2>4. CASE \E l \in Leases : StartDials(l)
      BY <2>4, <1>1, <1>3 DEF StartDials, Life, monitorVars, eventVars
    <2>. QED
      BY <1>4, <2>1, <2>2, <2>3, <2>4 DEF StartNext
  <1>5. CASE ServeNext
    <2>1. starter = "serving"
      BY <1>5 DEF ServeNext, ServeChecks, ServeReads, AcceptFails, Accepts, Serves, StartIsAlone
    <2>2. done' = done \/ done' = TRUE
      BY <1>5 DEF ServeNext, ServeChecks, ServeReads, AcceptFails, Accepts
    <2>3. UNCHANGED <<starter, stopDone, stopping, monitor, events, lost>>
      BY <1>5, ServeLeaves
    <2>4. Life' = Life \/ (Life = "serving" /\ Life' = "ended")
      BY <2>1, <2>2, <2>3 DEF Life
    <2>. QED
      BY <2>3, <2>4, <1>1, <1>3, LifeSteps
  <1>6. CASE HandlerNext
    BY <1>6, <1>1, <1>2, <1>3, HandlerLeavesRest
  <1>7. CASE MonitorStep
    <2>1. Life' = Life
      BY <1>7, <1>2, MonitorLeaves
    <2>2. CASE EmitsDisconnected
      BY <2>1, <2>2, ReportingStep DEF EmitsDisconnected, Monitors, Link
    <2>3. CASE EmitsReconnected
      BY <2>1, <2>3, ReportingStep DEF EmitsReconnected, Monitors, Link
    <2>4. CASE ClosesEvents
      <3>1. Link' = "off" /\ (Link = "down" \/ (Link = "up" /\ monitor = "close"))
        BY <2>4 DEF ClosesEvents, Monitors, Link
      <3>2. monitor = "close" => Life \in {"stopping", "stopped"}
        BY DEF Life, StopIsOrdered, StartIsAlone
      <3>. QED
        BY <2>1, <2>4, <3>1, <3>2, LeavingStep DEF ClosesEvents, eventVars
    <2>5. CASE WaitLossReturns \/ ClearsTerminal \/ BackoffEnds \/ RebuildFails \/ RebindFails
               \/ Rebinds \/ SetsLease \/ GivesUp \/ \E l \in Leases : Rebuilds(l)
      <3>1. UNCHANGED <<events, lost>>
        BY <2>5 DEF WaitLossReturns, ClearsTerminal, BackoffEnds, RebuildFails, RebindFails, Rebinds,
           SetsLease, GivesUp, Rebuilds, eventVars
      <3>2. Link' = Link
        BY <2>5 DEF WaitLossReturns, ClearsTerminal, BackoffEnds, RebuildFails, RebindFails, Rebinds,
           SetsLease, GivesUp, Rebuilds, Monitors, Link
      <3>. QED
        BY <2>1, <3>1, <3>2, <1>1
    <2>. QED
      BY <1>7, <2>2, <2>3, <2>4, <2>5 DEF MonitorStep
  <1>8. CASE StopNext
    <2>1. UNCHANGED <<starter, done, monitor, events, lost>>
      BY <1>8, StopLeaves
    <2>2. CASE StopMarks
      <3>1. Life \in {"serving", "ended"} /\ Life' = "stopping"
        BY <2>1, <2>2 DEF StopMarks, StopIsOrdered, Life
      <3>. QED
        BY <2>1, <3>1, <1>3, LifeSteps
    <2>3. CASE StopIsDone
      <3>1. Life = "stopping" /\ Life' = "stopped"
        BY <2>1, <2>3 DEF StopIsDone, StopIsOrdered, StartIsAlone, Life
      <3>. QED
        BY <2>1, <3>1, <1>3, LifeSteps
    <2>4. CASE StopCancels \/ StopReleases \/ StopCloses \/ StopTimesOut
      <3>1. UNCHANGED <<stopDone, stopping>>
        BY <2>4 DEF StopCancels, StopReleases, StopCloses, StopTimesOut, stopVars
      <3>. QED
        BY <2>1, <3>1, <1>1, <1>2, <1>3
    <2>. QED
      BY <1>8, <2>2, <2>3, <2>4 DEF StopNext, StopStep
  <1>9. CASE TakesEvent
    BY <1>9, <1>2, <1>3, RestLeaves, TakingStep DEF TakesEvent
  <1>10. CASE \E l \in Leases : ChainBreaks(l) \/ OldLeaseReleased(l)
    BY <1>10, <1>1, <1>2, <1>3 DEF ChainBreaks, OldLeaseReleased, serveVars, monitorVars, eventVars, stopVars
  <1>. QED
    BY <1>4, <1>5, <1>6, <1>7, <1>8, <1>9, <1>10 DEF Next

(* A running forward keeps every promise ForwardRuntime is built on: the order  *)
(* of its life, of its link and of the events it reports (port_forward.go       *)
(* against the runHandle interface of runtime.go).                              *)
THEOREM ForwardImplementsRunHandle == Spec => ImplementsRunHandle
  <1>1. Init => Promise!Init
    BY HandleIs DEF Init, Promise!Init, Promise!NewRun, Life, Link
  <1>2. IInv /\ [Next]_vars => [Promise!Next]_Handle
    <2>1. UNCHANGED vars => UNCHANGED Handle
      BY DEF vars, serveVars, monitorVars, eventVars, stopVars, Handle
    <2>. QED
      BY <2>1, StepsMap
  <1>. QED
    BY <1>1, <1>2, InvariantHolds, PTL DEF Spec, ImplementsRunHandle, Promise!Spec

=============================================================================
