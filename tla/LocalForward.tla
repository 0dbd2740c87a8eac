------------------------------ MODULE LocalForward ------------------------------
(***************************************************************************)
(* One running forward (internal/forward/port_forward.go): Start, the      *)
(* accept loop, the connection handlers, the lifecycle monitor with its    *)
(* reconnect loop, and Stop.                                               *)
(*                                                                         *)
(* f.mu protects the fields; every critical section is one action and      *)
(* every blocking call (dial, Accept, bind, WaitLoss, back-off) lies       *)
(* between two.  A chain lease is named by a number, and so is the         *)
(* listener that was bound with it.  A dynamic forward behaves like a      *)
(* local one here.  RuntimeBiz calls Stop only after Start returned nil    *)
(* (runtime.go, Start), so nothing overlaps Start.                         *)
(***************************************************************************)
EXTENDS Naturals, Sequences

CONSTANTS
    Modes,         \* forward modes: "local" (and dynamic), "remote"
    Conns,         \* connections ever accepted
    EventCapacity, \* the buffer of the Events channel
    MaxLeases      \* bound: chains ever leased

ASSUME ForwardAssumption ==
    /\ Modes \subseteq {"local", "remote"}
    /\ EventCapacity \in Nat \ {0}
    /\ MaxLeases \in Nat \ {0}

Leases   == 1..MaxLeases
NoLease  == 0
Sides    == {"near", "far"}    \* the accepted connection and the dialled one

VARIABLES
    mode, starter,
    stopping, lease, terminal, listener, done,  \* fields of LocalForward
    events, lost,                                       \* the channel; an event was dropped
    leases, held, alive,    \* leases so far; not released; the chain works
    open,                   \* listeners that were not closed
    serve, serveLn,         \* the accept loop and the listener it uses
    monitor, monLease, nextLease,
    handler, via,           \* each connection's goroutine and the client it dials with
    sock, tracked,          \* both sides of a connection; f.activeConns
    stopper, cancelled, stopLease, stopListener, stopConns, stopDone,
    releasing               \* leases in "go old.Release()"

fieldVars   == <<lease, terminal, listener>>
chainVars   == <<leases, held, alive>>
serveVars   == <<serve, serveLn, done>>
monitorVars == <<monitor, monLease, nextLease, releasing>>
eventVars   == <<events, lost>>
connVars    == <<handler, via, sock, tracked>>
stopVars    == <<stopping, stopper, cancelled, stopLease, stopListener, stopConns, stopDone>>
vars == <<mode, starter, fieldVars, chainVars, open, serveVars, monitorVars, eventVars, connVars, stopVars>>

Init ==
    /\ mode \in Modes
    /\ starter = "idle"
    /\ done = FALSE
    /\ lease = NoLease /\ terminal = NoLease /\ listener = NoLease
    /\ events = <<>> /\ lost = FALSE
    /\ leases = 0 /\ held = [l \in Leases |-> FALSE] /\ alive = [l \in Leases |-> FALSE]
    /\ open = {}
    /\ serve = "off" /\ serveLn = NoLease
    /\ monitor = "off" /\ monLease = NoLease /\ nextLease = NoLease /\ releasing = {}
    /\ handler = [c \in Conns |-> "none"] /\ via = [c \in Conns |-> NoLease]
    /\ sock = [c \in Conns |-> [s \in Sides |-> "none"]] /\ tracked = {}
    /\ stopping = FALSE /\ stopper = "idle" /\ cancelled = FALSE /\ stopDone = FALSE
    /\ stopLease = NoLease /\ stopListener = NoLease /\ stopConns = {}

-----------------------------------------------------------------------------
\* The dialer hands out a new lease.
Lease(l) ==
    /\ l = leases + 1 /\ l \in Leases
    /\ leases' = l
    /\ held' = [held EXCEPT ![l] = TRUE]
    /\ alive' = [alive EXCEPT ![l] = TRUE]

\* lease.Release, which sync.Once makes idempotent.
Release(l) == held' = [m \in Leases |-> IF m = l THEN FALSE ELSE held[m]]

\* Where the accept loop begins a round.
LoopHead == IF mode = "remote" THEN "check" ELSE "read"

\* Start, once: everything else waits for the dial.
StartBegins ==
    /\ starter = "idle"
    /\ starter' = "dial"
    /\ UNCHANGED <<mode, fieldVars, chainVars, open, serveVars, monitorVars, eventVars, connVars, stopVars>>

StartDials(l) ==
    /\ starter = "dial"
    /\ Lease(l)
    /\ starter' = "probe"
    /\ UNCHANGED <<mode, fieldVars, open, serveVars, monitorVars, eventVars, connVars, stopVars>>

StartDialFails ==
    /\ starter = "dial"
    /\ starter' = "failed"
    /\ UNCHANGED <<mode, fieldVars, chainVars, open, serveVars, monitorVars, eventVars, connVars, stopVars>>

\* Start: the target cannot be probed or the listener cannot be bound.
StartFails ==
    /\ starter = "probe"
    /\ starter' = "failed"
    /\ Release(leases)
    /\ UNCHANGED <<mode, fieldVars, leases, alive, open, serveVars, monitorVars, eventVars, connVars, stopVars>>

\* Start: bind, install lease and listener, start the two goroutines, return.
StartServes ==
    /\ starter = "probe"
    /\ starter' = "serving"
    /\ lease' = leases /\ terminal' = leases /\ listener' = leases
    /\ open' = {leases}
    /\ serve' = LoopHead
    /\ monitor' = "wait" /\ monLease' = leases
    /\ UNCHANGED <<mode, chainVars, serveLn, done, nextLease, releasing, eventVars, connVars, stopVars>>

\* The network: a chain that somebody still uses breaks.
ChainBreaks(l) ==
    /\ alive[l]
    /\ held[l] \/ \E c \in Conns : via[c] = l
    /\ alive' = [alive EXCEPT ![l] = FALSE]
    /\ UNCHANGED <<mode, starter, fieldVars, leases, held, open, serveVars, monitorVars, eventVars, connVars, stopVars>>

-----------------------------------------------------------------------------
Serves(from, to) == serve = from /\ serve' = to

\* A remote loop looks at stopping first ...
ServeChecks ==
    /\ \/ ~stopping /\ Serves("check", "read") /\ UNCHANGED done
       \/ stopping /\ Serves("check", "exit") /\ done' = TRUE
    /\ UNCHANGED <<mode, starter, fieldVars, chainVars, open, serveLn, monitorVars, eventVars, connVars, stopVars>>

\* ... and then at f.listener.  Without one a remote loop sleeps and begins
\* again, a local one ends.
ServeReads ==
    /\ \/ listener # NoLease /\ Serves("read", "accept") /\ UNCHANGED done
       \/ listener = NoLease /\ mode = "remote" /\ Serves("read", "check") /\ UNCHANGED done
       \/ listener = NoLease /\ mode = "local" /\ Serves("read", "exit") /\ done' = TRUE
    /\ serveLn' = listener
    /\ UNCHANGED <<mode, starter, fieldVars, chainVars, open, monitorVars, eventVars, connVars, stopVars>>

Accepts(c) ==
    /\ serve = "accept"
    /\ serveLn \in open
    /\ mode = "remote" => alive[serveLn]
    /\ handler[c] = "none"
    /\ handler' = [handler EXCEPT ![c] = "new"]
    /\ sock' = [sock EXCEPT ![c]["near"] = "open"]
    /\ serve' = LoopHead /\ serveLn' = NoLease
    /\ UNCHANGED <<mode, starter, fieldVars, chainVars, open, done, monitorVars, eventVars, via, tracked, stopVars>>

\* Accept fails: the end of a local forward, a retry for a remote one.
AcceptFails ==
    /\ serve = "accept"
    /\ IF stopping \/ mode = "local"
       THEN serve' = "exit" /\ done' = TRUE
       ELSE serve' = "check" /\ UNCHANGED done
    /\ serveLn' = NoLease
    /\ UNCHANGED <<mode, starter, fieldVars, chainVars, open, monitorVars, eventVars, connVars, stopVars>>

-----------------------------------------------------------------------------
Handles(c, from, to) == handler[c] = from /\ handler' = [handler EXCEPT ![c] = to]
CloseBoth(c) == [s \in Sides |-> IF sock[c][s] = "open" THEN "closed" ELSE sock[c][s]]

\* A handler gives up or its bridge ends: both sides are closed and forgotten.
HandlerLeaves(c) ==
    /\ sock' = [sock EXCEPT ![c] = CloseBoth(c)]
    /\ tracked' = tracked \ ({c} \X Sides)

\* trackConn: refused once Stop has taken its snapshot.
Tracks(c, side, from, to) ==
    \/ /\ ~stopping
       /\ Handles(c, from, to)
       /\ tracked' = tracked \union {<<c, side>>}
       /\ UNCHANGED sock
    \/ stopping /\ Handles(c, from, "gone") /\ HandlerLeaves(c)

HandlerTracks(c) ==
    /\ Tracks(c, "near", "new", "tracked") \/ Tracks(c, "far", "dialled", "bridge")
    /\ UNCHANGED <<mode, starter, fieldVars, chainVars, open, serveVars, monitorVars, eventVars, via, stopVars>>

\* handleConn reads f.client: nil while the chain is being rebuilt.
HandlerReads(c) ==
    /\ \/ terminal # NoLease /\ Handles(c, "tracked", "dial") /\ UNCHANGED <<sock, tracked>>
       \/ terminal = NoLease /\ Handles(c, "tracked", "gone") /\ HandlerLeaves(c)
    /\ via' = [via EXCEPT ![c] = terminal]
    /\ UNCHANGED <<mode, starter, fieldVars, chainVars, open, serveVars, monitorVars, eventVars, stopVars>>

HandlerDials(c) ==
    /\ Handles(c, "dial", "dialled")
    /\ mode = "local" => alive[via[c]]
    /\ sock' = [sock EXCEPT ![c]["far"] = "open"]
    /\ via' = [via EXCEPT ![c] = NoLease]
    /\ UNCHANGED <<mode, starter, fieldVars, chainVars, open, serveVars, monitorVars, eventVars, tracked, stopVars>>

HandlerEnds(c) ==
    /\ Handles(c, "dial", "gone") \/ Handles(c, "bridge", "gone")
    /\ HandlerLeaves(c)
    /\ via' = [via EXCEPT ![c] = NoLease]
    /\ UNCHANGED <<mode, starter, fieldVars, chainVars, open, serveVars, monitorVars, eventVars, stopVars>>

\* What makes a handler leave for certain: its client or one of its sides failed.
MustEnd(c) ==
    \/ handler[c] = "dial" /\ (mode = "local" => ~alive[via[c]])
    \/ handler[c] = "bridge" /\ \E s \in Sides : sock[c][s] = "closed"

-----------------------------------------------------------------------------
\* emitEvent: a full channel drops the event.
Emits(event) ==
    IF Len(events) < EventCapacity
    THEN events' = Append(events, event) /\ UNCHANGED lost
    ELSE lost' = TRUE /\ UNCHANGED events

\* The reader of the channel: RuntimeBiz.watch.
TakesEvent ==
    /\ events # <<>>
    /\ events' = Tail(events)
    /\ UNCHANGED <<mode, starter, fieldVars, chainVars, open, serveVars, monitorVars, lost, connVars, stopVars>>

Monitors(from, to) == monitor = from /\ monitor' = to

\* WaitLoss: the chain failed; Stop's cancellation ends the wait as well.
WaitLossReturns ==
    /\ \/ Monitors("wait", IF stopping THEN "close" ELSE "lost") /\ ~alive[monLease]
       \/ cancelled /\ Monitors("wait", "close")
    /\ UNCHANGED <<mode, starter, fieldVars, chainVars, open, serveVars, monLease, nextLease, releasing, eventVars, connVars, stopVars>>

EmitsDisconnected ==
    /\ Monitors("lost", "clear")
    /\ Emits("disconnected")
    /\ UNCHANGED <<mode, starter, fieldVars, chainVars, open, serveVars, monLease, nextLease, releasing, connVars, stopVars>>

\* clearTerminal: connections are refused until the chain is back.
ClearsTerminal ==
    /\ Monitors("clear", "backoff")
    /\ terminal' = IF lease = monLease THEN NoLease ELSE terminal
    /\ UNCHANGED <<mode, starter, lease, listener, chainVars, open, serveVars, monLease, nextLease, releasing, eventVars, connVars, stopVars>>

\* waitOrStop, and the deadline of the whole reconnection.
BackoffEnds ==
    /\ \/ Monitors("backoff", "rebuild")
       \/ cancelled /\ Monitors("backoff", "leave")
       \/ Monitors("backoff", "giveUp")
    /\ UNCHANGED <<mode, starter, fieldVars, chainVars, open, serveVars, monLease, nextLease, releasing, eventVars, connVars, stopVars>>

\* Rebuild fails, for now or for good; once the run is cancelled it always does.
RebuildFails ==
    /\ Monitors("rebuild", "backoff") \/ Monitors("rebuild", "giveUp")
    /\ UNCHANGED <<mode, starter, fieldVars, chainVars, open, serveVars, monLease, nextLease, releasing, eventVars, connVars, stopVars>>

Rebuilds(l) ==
    /\ ~cancelled
    /\ Monitors("rebuild", IF mode = "remote" THEN "bind" ELSE "announce")
    /\ Lease(l)
    /\ nextLease' = l
    /\ UNCHANGED <<mode, starter, fieldVars, open, serveVars, monLease, releasing, eventVars, connVars, stopVars>>

RebindFails ==
    /\ Monitors("bind", "backoff")
    /\ Release(nextLease)
    /\ nextLease' = NoLease
    /\ UNCHANGED <<mode, starter, fieldVars, leases, alive, open, serveVars, monLease, releasing, eventVars, connVars, stopVars>>

OpenInsteadOfOld(new) == (open \ {listener}) \union {new}

\* bindRemoteListener and replaceListener.
Rebinds ==
    /\ Monitors("bind", "announce")
    /\ open' = OpenInsteadOfOld(nextLease)
    /\ listener' = nextLease
    /\ UNCHANGED <<mode, starter, lease, terminal, chainVars, serveVars, monLease, nextLease, releasing, eventVars, connVars, stopVars>>

\* A mutation: a reconnection is not announced.
ReconnectsSilently ==
    /\ Monitors("announce", "set")
    /\ UNCHANGED <<mode, starter, fieldVars, chainVars, open, serveVars, monLease, nextLease, releasing, eventVars, connVars, stopVars>>

EmitsReconnected ==
    /\ Monitors("announce", "set")
    /\ Emits("reconnected")
    /\ UNCHANGED <<mode, starter, fieldVars, chainVars, open, serveVars, monLease, nextLease, releasing, connVars, stopVars>>

\* A mutation: the lease that was replaced is not released.
ToReleaseNothing(old) == {}
ToRelease(old) == {old} \ {NoLease}

\* setLease: the old lease is released by a goroutine of its own.
SetsLease ==
    /\ Monitors("set", "wait")
    /\ lease' = nextLease /\ terminal' = nextLease
    /\ releasing' = releasing \union ToRelease(lease)
    /\ monLease' = nextLease /\ nextLease' = NoLease
    /\ UNCHANGED <<mode, starter, listener, chainVars, open, serveVars, eventVars, connVars, stopVars>>

OldLeaseReleased(l) ==
    /\ l \in releasing
    /\ releasing' = releasing \ {l}
    /\ Release(l)
    /\ UNCHANGED <<mode, starter, fieldVars, leases, alive, open, serveVars, monitor, monLease, nextLease, eventVars, connVars, stopVars>>

\* The monitor gives up: the error is kept and the listener closed.
GivesUp ==
    /\ Monitors("giveUp", "leave")
    /\ open' = open \ {listener}
    /\ listener' = NoLease
    /\ UNCHANGED <<mode, starter, lease, terminal, chainVars, serveVars, monLease, nextLease, releasing, eventVars, connVars, stopVars>>

ClosesEvents ==
    /\ Monitors("close", "exit") \/ Monitors("leave", "exit")
    /\ monLease' = NoLease
    /\ UNCHANGED <<mode, starter, fieldVars, chainVars, open, serveVars, nextLease, releasing, eventVars, connVars, stopVars>>

-----------------------------------------------------------------------------
FieldsTaken == lease' = NoLease /\ listener' = NoLease /\ terminal' = NoLease

\* Stop, under f.mu: take over the lease, the listener and the connections.
StopMarks ==
    /\ starter = "serving"
    /\ stopper = "idle"
    /\ stopping' = TRUE
    /\ stopLease' = lease /\ stopListener' = listener /\ stopConns' = tracked
    /\ FieldsTaken
    /\ stopper' = "cancel"
    /\ UNCHANGED <<mode, starter, chainVars, open, serveVars, monitorVars, eventVars, connVars, cancelled, stopDone>>

\* close(keepStop) and runCancel.
StopCancels ==
    /\ stopper = "cancel" /\ stopper' = "release"
    /\ cancelled' = TRUE
    /\ UNCHANGED <<mode, starter, fieldVars, chainVars, open, serveVars, monitorVars, eventVars, connVars, stopping, stopLease, stopListener, stopConns, stopDone>>

StopReleases ==
    /\ stopper = "release" /\ stopper' = "close"
    /\ Release(stopLease)
    /\ UNCHANGED <<mode, starter, fieldVars, leases, alive, open, serveVars, monitorVars, eventVars, connVars, stopping, cancelled, stopLease, stopListener, stopConns, stopDone>>

\* Close the listener and the connections of the snapshot; the others may wait.
StopCloses ==
    /\ stopper = "close" /\ stopper' = "wait"
    /\ open' = open \ {stopListener}
    /\ sock' = [c \in Conns |-> [s \in Sides |->
                  IF <<c, s>> \in stopConns /\ sock[c][s] = "open" THEN "closed" ELSE sock[c][s]]]
    /\ stopListener' = NoLease /\ stopConns' = {}
    /\ UNCHANGED <<mode, starter, fieldVars, chainVars, serveVars, monitorVars, eventVars, handler, via, tracked, stopping, cancelled, stopLease, stopDone>>

\* A mutation: the clean-up waits for the accept loop only.
CleanUpIsOverEarly == done
\* done is closed and the wait group is empty.
CleanUpIsOver == done /\ \A c \in Conns : handler[c] \in {"none", "gone"}

StopIsDone ==
    /\ stopper = "wait" /\ stopper' = "over"
    /\ CleanUpIsOver
    /\ stopDone' = TRUE
    /\ UNCHANGED <<mode, starter, fieldVars, chainVars, open, serveVars, monitorVars, eventVars, connVars, stopping, cancelled, stopLease, stopListener, stopConns>>

\* A mutation: the deadline returns and leaves the connection alone.
AbortNothing(l) == UNCHANGED alive
\* stopAbort: terminate the generation behind the lease, and with it every dial.
Abort(l) == alive' = [m \in Leases |-> IF m = l THEN FALSE ELSE alive[m]]

\* A caller of Stop (the first, or one that found sync.Once used) meets its
\* deadline; one that finds stopDone closed returns and changes nothing.
StopTimesOut ==
    /\ stopper = "wait"
    /\ Abort(stopLease)
    /\ UNCHANGED <<mode, starter, fieldVars, leases, held, open, serveVars, monitorVars, eventVars, connVars, stopVars>>

-----------------------------------------------------------------------------
StartNext   == StartBegins \/ (\E l \in Leases : StartDials(l)) \/ StartDialFails \/ StartFails \/ StartServes
ServeNext   == ServeChecks \/ ServeReads \/ AcceptFails \/ \E c \in Conns : Accepts(c)
HandlerNext == \E c \in Conns : HandlerTracks(c) \/ HandlerReads(c) \/ HandlerDials(c) \/ HandlerEnds(c)

MonitorStep ==
    \/ WaitLossReturns \/ EmitsDisconnected \/ ClearsTerminal \/ BackoffEnds
    \/ RebuildFails \/ (\E l \in Leases : Rebuilds(l)) \/ RebindFails \/ Rebinds
    \/ EmitsReconnected \/ SetsLease \/ GivesUp \/ ClosesEvents

StopStep == StopCancels \/ StopReleases \/ StopCloses \/ StopIsDone
StopNext == StopMarks \/ StopStep \/ StopTimesOut

Next ==
    \/ StartNext \/ ServeNext \/ HandlerNext \/ MonitorStep \/ StopNext \/ TakesEvent
    \/ \E l \in Leases : ChainBreaks(l) \/ OldLeaseReleased(l)

Spec == Init /\ [][Next]_vars

\* Goroutines that are not blocked run on, and so do releases and aborts, which
\* wait for entry.mu: no other forward is taken to hang in a dial of this first
\* hop.  Back-off and rebind end, reconnectTimeout bounds the loop, a Stop that
\* waits meets its deadline.  A re-dial of this forward need not end, for nothing
\* bounds the SSH handshake, and nothing makes a peer connect, a chain break or a
\* dial of a working chain return.
FairSpec ==
    /\ Spec
    /\ WF_vars(ServeChecks \/ ServeReads)
    /\ WF_vars(serveLn \notin open /\ AcceptFails)
    /\ WF_vars(monitor # "rebuild" /\ MonitorStep)
    /\ SF_vars(Monitors("backoff", "giveUp") /\ BackoffEnds)
    /\ WF_vars(StopStep)
    /\ \A l \in Leases : WF_vars(OldLeaseReleased(l))
    /\ WF_vars(StopTimesOut)
    /\ \A c \in Conns : WF_vars(HandlerTracks(c) \/ HandlerReads(c)) /\ WF_vars(MustEnd(c) /\ HandlerEnds(c))

-----------------------------------------------------------------------------
\* The values every variable ranges over: the one type invariant of a forward.
TypeOK ==
    /\ mode \in Modes
    /\ starter \in {"idle", "dial", "probe", "serving", "failed"}
    /\ {done, stopping, cancelled, stopDone, lost} \subseteq BOOLEAN
    /\ {lease, terminal, listener, serveLn, monLease, nextLease, stopLease, stopListener, leases}
         \subseteq Leases \union {NoLease}
    /\ events \in Seq({"disconnected", "reconnected"}) /\ Len(events) <= EventCapacity
    /\ held \in [Leases -> BOOLEAN] /\ alive \in [Leases -> BOOLEAN]
    /\ open \subseteq Leases /\ releasing \subseteq Leases
    /\ serve \in {"off", "check", "read", "accept", "exit"}
    /\ monitor \in {"off", "wait", "lost", "clear", "backoff", "rebuild", "bind", "announce", "set", "giveUp", "close", "leave", "exit"}
    /\ handler \in [Conns -> {"none", "new", "tracked", "dial", "dialled", "bridge", "gone"}]
    /\ via \in [Conns -> Leases \union {NoLease}]
    /\ sock \in [Conns -> [Sides -> {"none", "open", "closed"}]]
    /\ tracked \subseteq Conns \X Sides /\ stopConns \subseteq Conns \X Sides
    /\ stopper \in {"idle", "cancel", "release", "close", "wait", "over"}

\* What a reconnection that had its chain when Stop came has put into the stopped
\* forward: Stop took the fields before, and nobody looks at them again.
Stray(field) == IF stopping THEN field ELSE NoLease

\* A lease that was not released yet has somebody who will release it: Start,
\* the forward until Stop takes its fields, the monitor, Stop or the goroutine of
\* setLease.  Any other lease would keep its SSH connection referenced for ever,
\* as the stray one does.
LeasesAreOwned ==
    \A l \in Leases : held[l] =>
        \/ starter = "probe"
        \/ ~stopping /\ l = lease
        \/ l = nextLease \/ l \in releasing
        \/ l = stopLease /\ stopper \in {"cancel", "release"}
        \/ l = Stray(lease)

\* The other way round: what handlers dial with is the forward's lease, and it
\* is not released under them.
TerminalIsHeld ==
    /\ lease # NoLease => held[lease]
    /\ terminal # NoLease => terminal = lease

\* An open listener is the forward's, or Stop is about to close it, or it is the
\* stray one: a reconnected remote forward never listens twice.
ListenersAreOwned ==
    \A l \in open :
        \/ ~stopping /\ l = listener
        \/ l = stopListener /\ stopper \in {"cancel", "release", "close"}
        \/ l = Stray(listener)

\* What a Stop may leave behind is one chain, with the listener bound over it
\* only if the forward is remote, and never the chain that Stop took: the monitor
\* that brought it ends instead of reconnecting once more.
StrayIsOneChain ==
    /\ Stray(lease) # NoLease =>
         monitor \in {"wait", "close", "exit"} /\ lease # stopLease
    /\ Stray(listener) # NoLease =>
         /\ mode = "remote"
         /\ monitor \in {"announce", "set", "wait", "close", "exit"}
         /\ listener = IF monitor \in {"announce", "set"} THEN nextLease ELSE lease

\* Leases, the client handlers dial with, and listeners, over any number of
\* reconnections and a Stop at any moment: none is used after its release, and
\* none is lost but the one chain that a Stop during the end of a reconnection
\* leaves behind (NothingNewAfterStop is about that one).
HoldingsAreOwned ==
    TypeOK /\ LeasesAreOwned /\ TerminalIsHeld /\ ListenersAreOwned /\ StrayIsOneChain

\* Once Stop has closed its snapshot, no tracked connection is open, although
\* handlers kept dialling and tracking while the snapshot was taken.
StopClosesConns ==
    stopper \in {"wait", "over"} => \A cs \in tracked : sock[cs[1]][cs[2]] = "closed"

\* ... and nothing listens any more, unless a remote reconnection that had its
\* chain when Stop came has bound its listener over it.
StopClosesListeners ==
    stopper \in {"wait", "over"} => open \subseteq (IF mode = "local" THEN {} ELSE {listener})

\* A caller that is told "stopped", the first or a later one, finds no handler
\* and no open connection any more, and no listener but that stray remote one.
StoppedIsQuiet ==
    /\ StopClosesConns /\ StopClosesListeners
    /\ stopDone =>
         /\ serve = "exit"
         /\ \A c \in Conns : handler[c] \in {"none", "gone"} /\ \A s \in Sides : sock[c][s] # "open"

\* The run as RuntimeBiz sees it.
Handle == [
    life |-> IF starter = "idle" THEN "none"
             ELSE IF starter \in {"dial", "probe"} THEN "starting"
             ELSE IF starter = "failed" THEN "failed"
             ELSE IF stopDone THEN "stopped"
             ELSE IF stopping THEN "stopping"
             ELSE IF done THEN "ended" ELSE "serving",
    link |-> IF monitor \in {"off", "exit"} THEN "off"
             ELSE IF monitor \in {"wait", "lost", "set", "close"} THEN "up" ELSE "down",
    events |-> events,
    lost |-> lost]

Promise == INSTANCE RunHandleSpec WITH handle <- Handle

\* A forward is what ForwardRuntime takes it for: its life, its link and the
\* order of its events are those of RunHandle.
ImplementsRunHandle == Promise!Spec

\* Stop completes: the deadline aborts the chain, and with it the dials of handlers
\* nobody could cancel otherwise.  Only a reconnection that slipped past Stop
\* (NothingNewAfterStop) is out of its reach.
StopCompletes == stopping ~> (stopDone \/ lease # NoLease \/ listener # NoLease)

\* The monitor, and the probe and back-off it runs, do not survive Stop, unless
\* it re-dials a peer that never ends the handshake.
MonitorEnds == stopping ~> (monitor = "exit" \/ [](monitor = "rebuild"))

\* A local forward that gives up reconnecting closes its listener, so that the
\* accept loop ends and Done tells RuntimeBiz.
LocalGivingUpEnds == monitor = "giveUp" /\ mode = "local" ~> done

\* A forward that is to end does: its Stop, its monitor, and the accept loop of
\* a local forward that gave up.
ForwardEnds == StopCompletes /\ MonitorEnds /\ LocalGivingUpEnds

\* 2026-07-21-mvp-remediation-decision-log.md:1537 promises that no new
\* connection appears after a Stop during a probe, a back-off or a dial: once
\* Stop has returned, the forward gets no chain and opens no listener.
NothingNewAfterStop ==
    [][stopDone => lease' \in {lease, NoLease} /\ open' \subseteq open]_vars

\* The same log (:1508) lets a forward whose reconnection hit a terminal error
\* end in "error" and wait for the user: Done has to tell RuntimeBiz.
GivingUpEnds == monitor = "giveUp" ~> done

=============================================================================
