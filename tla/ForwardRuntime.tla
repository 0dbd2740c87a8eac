----------------------------- MODULE ForwardRuntime -----------------------------
(***************************************************************************)
(* The table of running forwards (internal/biz/runtime.go).                *)
(*                                                                         *)
(* RuntimeBiz.mu protects the table; starting and stopping a run happens   *)
(* outside of it, so between "registered" and "published", and between     *)
(* "marked stopping" and "removed", everything else may happen.  A run is  *)
(* named by its generation: each Start that registers makes exactly one.   *)
(*                                                                         *)
(* Suspend never overlaps a Start: application.Service holds its mutation  *)
(* lock in both (service.go, NetworkOperation and CommitSSHHostChange).    *)
(* Stop and Shutdown take no such lock.                                    *)
(***************************************************************************)
EXTENDS RunHandle, FiniteSets

CONSTANTS
    Forwards,      \* Forward IDs
    Starters,      \* goroutines that call Start
    Stoppers,      \* goroutines that call Stop
    MaxGeneration  \* bound: runs ever created

ASSUME RuntimeAssumption ==
    /\ Forwards # {}
    /\ MaxGeneration \in Nat

Generations == 1..MaxGeneration
NoGeneration == 0

VARIABLES
    runs,            \* runs[id]: generation, phase, and whether entry.run is set
    states,          \* states[id].Status
    closing,         \* RuntimeBiz.closing
    nextGeneration,  \* RuntimeBiz.nextGeneration
    forwardOf,       \* the forward a generation was started for
    run,             \* the LocalForward of a generation
    watcher,         \* the watch goroutine of a generation
    finisher,        \* finishStopInBackground of a generation
    pc,              \* where each Start call is
    mine,            \* the generation a Start call registered
    stopOf,          \* the run a Stop call waits for
    suspending,      \* the runs the current Suspend waits for
    shutting         \* the runs Shutdown waits for

tableVars == <<runs, states>>
startVars == <<pc, mine>>
stopVars  == <<stopOf, suspending, shutting, closing>>
vars == <<tableVars, nextGeneration, forwardOf, run, watcher, finisher, startVars, stopVars>>

Entry(g, phase, hasRun) == [generation |-> g, phase |-> phase, run |-> hasRun]
NoEntryAt == Entry(NoGeneration, "none", FALSE)

Init ==
    /\ runs = [id \in Forwards |-> NoEntryAt]
    /\ states = [id \in Forwards |-> "stopped"]
    /\ closing = FALSE
    /\ nextGeneration = 0
    /\ forwardOf = [g \in Generations |-> CHOOSE id \in Forwards : TRUE]
    /\ run = [g \in Generations |-> NewRun]
    /\ watcher = [g \in Generations |-> "off"]
    /\ finisher = [g \in Generations |-> "off"]
    /\ pc = [c \in Starters |-> "idle"]
    /\ mine = [c \in Starters |-> NoGeneration]
    /\ stopOf = [s \in Stoppers |-> NoGeneration]
    /\ suspending = {}
    /\ shutting = {}

-----------------------------------------------------------------------------
Becomes(g, next) == run' = [run EXCEPT ![g] = next]

Remove(id, status) ==
    /\ runs' = [runs EXCEPT ![id] = NoEntryAt]
    /\ states' = [states EXCEPT ![id] = status]

\* isCurrentLocked: the entry of id is this generation, published.
IsCurrent(id, g) == runs[id].generation = g /\ runs[id].run

\* Start registers only where there is no entry, in whatever phase.
IsFree(id) == runs[id] = NoEntryAt

\* Start: register the generation.  With an entry, or while closing, it returns.
StartRegisters(c, id) ==
    LET g == nextGeneration + 1 IN
    /\ pc[c] = "idle"
    /\ suspending = {}
    /\ ~closing
    /\ IsFree(id)
    /\ g \in Generations
    /\ nextGeneration' = g
    /\ forwardOf' = [forwardOf EXCEPT ![g] = id]
    /\ runs' = [runs EXCEPT ![id] = Entry(g, "starting", FALSE)]
    /\ pc' = [pc EXCEPT ![c] = "load"]
    /\ mine' = [mine EXCEPT ![c] = g]
    /\ UNCHANGED <<states, run, watcher, finisher, stopVars>>

OwnsEntry(id, g) == runs[id].generation = g

\* finishStartFailure: drop the entry if it is still this generation's.
FinishStartFailure(c) ==
    LET id == forwardOf[mine[c]] IN
    /\ IF OwnsEntry(id, mine[c]) THEN Remove(id, "error") ELSE UNCHANGED tableVars
    /\ pc' = [pc EXCEPT ![c] = "idle"]
    /\ mine' = [mine EXCEPT ![c] = NoGeneration]
    /\ UNCHANGED <<nextGeneration, forwardOf, watcher, finisher, stopVars>>

\* The Vault cannot be read, or the forward or a host of its chain is gone.
LoadFails(c) ==
    /\ pc[c] = "load"
    /\ UNCHANGED run
    /\ FinishStartFailure(c)

RunBegins(c) ==
    /\ pc[c] = "load"
    /\ CanBegin(run[mine[c]])
    /\ Becomes(mine[c], Begin(run[mine[c]]))
    /\ pc' = [pc EXCEPT ![c] = "start"]
    /\ UNCHANGED <<tableVars, nextGeneration, forwardOf, watcher, finisher, mine, stopVars>>

RunStartFails(c) ==
    /\ pc[c] = "start"
    /\ CanReturn(run[mine[c]])
    /\ Becomes(mine[c], ReturnError(run[mine[c]]))
    /\ FinishStartFailure(c)

RunStartReturns(c) ==
    /\ pc[c] = "start"
    /\ CanReturn(run[mine[c]])
    /\ Becomes(mine[c], ReturnServing(run[mine[c]]))
    /\ pc' = [pc EXCEPT ![c] = "publish"]
    /\ UNCHANGED <<tableVars, nextGeneration, forwardOf, watcher, finisher, mine, stopVars>>

MayPublish(id, g) == runs[id].generation = g /\ runs[id].phase = "starting" /\ ~closing

\* Start, under mu again: publish the run and start its watcher.
Publish(c) ==
    LET g == mine[c]
        id == forwardOf[g]
    IN
    /\ pc[c] = "publish"
    /\ MayPublish(id, g)
    /\ runs' = [runs EXCEPT ![id] = Entry(g, "running", TRUE)]
    /\ states' = [states EXCEPT ![id] = "running"]
    /\ watcher' = [watcher EXCEPT ![g] = "begin"]
    /\ pc' = [pc EXCEPT ![c] = "idle"]
    /\ mine' = [mine EXCEPT ![c] = NoGeneration]
    /\ UNCHANGED <<nextGeneration, forwardOf, run, finisher, stopVars>>

\* A mutation: the run that may not be published is dropped without a stop.
GiveUpForgetsStop(c) ==
    /\ pc[c] = "publish"
    /\ ~MayPublish(forwardOf[mine[c]], mine[c])
    /\ pc' = [pc EXCEPT ![c] = "idle"]
    /\ mine' = [mine EXCEPT ![c] = NoGeneration]
    /\ UNCHANGED <<tableVars, nextGeneration, forwardOf, run, watcher, finisher, stopVars>>

\* ... or give the run up: somebody stopped the forward or the runtime closes.
GiveUp(c) ==
    /\ pc[c] = "publish"
    /\ ~MayPublish(forwardOf[mine[c]], mine[c])
    /\ pc' = [pc EXCEPT ![c] = "settle"]
    /\ UNCHANGED <<tableVars, nextGeneration, forwardOf, run, watcher, finisher, mine, stopVars>>

\* Start, after its own Stop of the run returned or timed out.
Settle(c) ==
    LET g == mine[c]
        id == forwardOf[g]
    IN
    /\ pc[c] = "settle"
    /\ run[g].life \in {"stopping", "stopped"}
    /\ IF runs[id].generation = g /\ ~runs[id].run
       THEN Remove(id, IF run[g].life = "stopped" THEN "stopped" ELSE "error")
       ELSE UNCHANGED tableVars
    /\ pc' = [pc EXCEPT ![c] = "idle"]
    /\ mine' = [mine EXCEPT ![c] = NoGeneration]
    /\ UNCHANGED <<nextGeneration, forwardOf, run, watcher, finisher, stopVars>>

-----------------------------------------------------------------------------
\* Stop, under mu: mark the entry; a run that is not published yet is left to
\* its Start.  Without an entry, or in a stop already, it returns.
StopMarks(s, id) ==
    /\ stopOf[s] = NoGeneration
    /\ runs[id].phase \in {"starting", "running"}
    /\ runs' = [runs EXCEPT ![id].phase = "stopping"]
    /\ stopOf' = [stopOf EXCEPT ![s] = IF runs[id].run THEN runs[id].generation ELSE NoGeneration]
    /\ UNCHANGED <<states, nextGeneration, forwardOf, run, watcher, finisher, startVars, suspending, shutting, closing>>

\* Somebody is inside run.Stop.
StopCalled(g) ==
    \/ \E c \in Starters : pc[c] = "settle" /\ mine[c] = g
    \/ \E s \in Stoppers : stopOf[s] = g
    \/ g \in suspending
    \/ g \in shutting

\* run.Stop takes effect.
StopBegins(g) ==
    /\ StopCalled(g)
    /\ CanStop(run[g])
    /\ Becomes(g, Stop(run[g]))
    /\ UNCHANGED <<tableVars, nextGeneration, forwardOf, watcher, finisher, startVars, stopVars>>

\* What a stop of g does to the table under mu: the run is gone ...
RecordStopped(g) ==
    /\ run[g].life = "stopped"
    /\ IF IsCurrent(forwardOf[g], g) THEN Remove(forwardOf[g], "stopped") ELSE UNCHANGED tableVars

\* ... or did not finish before the deadline, and keeps its entry.
RecordTimeout(g) ==
    /\ run[g].life = "stopping"
    /\ UNCHANGED runs
    /\ states' = IF IsCurrent(forwardOf[g], g) THEN [states EXCEPT ![forwardOf[g]] = "error"] ELSE states

\* A mutation: nobody waits for the rest of a clean-up that timed out.
FinishLaterForgotten(g) == UNCHANGED finisher
FinishLater(g) ==
    finisher' = IF IsCurrent(forwardOf[g], g) THEN [finisher EXCEPT ![g] = "wait"] ELSE finisher

StopReturns(s) ==
    LET g == stopOf[s] IN
    /\ g # NoGeneration
    /\ \/ RecordStopped(g) /\ UNCHANGED finisher
       \/ RecordTimeout(g) /\ FinishLater(g)
    /\ stopOf' = [stopOf EXCEPT ![s] = NoGeneration]
    /\ UNCHANGED <<nextGeneration, forwardOf, run, watcher, startVars, suspending, shutting, closing>>

\* finishStopInBackground.
StopFinishes(g) ==
    /\ finisher[g] = "wait"
    /\ RecordStopped(g)
    /\ finisher' = [finisher EXCEPT ![g] = "off"]
    /\ UNCHANGED <<nextGeneration, forwardOf, run, watcher, startVars, stopVars>>

\* Suspend, under mu: mark the wanted runs.  No Start is under way.
SuspendMarks(ids) ==
    LET wanted == {id \in ids : runs[id].phase = "running"} IN
    /\ suspending = {}
    /\ \A c \in Starters : pc[c] = "idle"
    /\ wanted # {}
    /\ runs' = [id \in Forwards |-> IF id \in wanted THEN [runs[id] EXCEPT !.phase = "stopping"] ELSE runs[id]]
    /\ suspending' = {runs[id].generation : id \in wanted}
    /\ UNCHANGED <<states, nextGeneration, forwardOf, run, watcher, finisher, startVars, stopOf, shutting, closing>>

\* Suspend takes the results of its parallel stops one by one.
SuspendCollects(g) ==
    /\ g \in suspending
    /\ \/ RecordStopped(g) /\ UNCHANGED finisher
       \/ RecordTimeout(g) /\ FinishLater(g)
    /\ suspending' = suspending \ {g}
    /\ UNCHANGED <<nextGeneration, forwardOf, run, watcher, startVars, stopOf, shutting, closing>>

\* Shutdown, under mu: refuse every further Start and mark every entry.
ShutdownMarks ==
    /\ ~closing
    /\ closing' = TRUE
    /\ runs' = [id \in Forwards |->
                  IF runs[id] = NoEntryAt THEN NoEntryAt ELSE [runs[id] EXCEPT !.phase = "stopping"]]
    /\ shutting' = {runs[id].generation : id \in {i \in Forwards : runs[i].run}}
    /\ UNCHANGED <<states, nextGeneration, forwardOf, run, watcher, finisher, startVars, stopOf, suspending>>

\* A stop that Shutdown could not wait for keeps its entry and its error.
ShutdownCollects(g) ==
    /\ g \in shutting
    /\ RecordStopped(g) \/ RecordTimeout(g)
    /\ shutting' = shutting \ {g}
    /\ UNCHANGED <<nextGeneration, forwardOf, run, watcher, finisher, startVars, stopOf, suspending, closing>>

-----------------------------------------------------------------------------
\* watch asks for the Events channel.
WatchSubscribes(g) ==
    /\ watcher[g] = "begin"
    /\ watcher' = [watcher EXCEPT ![g] = "run"]
    /\ Becomes(g, Subscribe(run[g]))
    /\ UNCHANGED <<tableVars, nextGeneration, forwardOf, finisher, startVars, stopVars>>

\* handleEvent: what the watcher shows for an event of the current generation.
StatusAfter(event) == IF event = "disconnected" THEN "reconnecting" ELSE "running"

\* A mutation: late events of an older generation are not told apart.
EventCountsUnchecked(id, g) == runs[id].run
EventCounts(id, g) == IsCurrent(id, g)

\* handleEvent.
WatchTakesEvent(g) ==
    LET id == forwardOf[g] IN
    /\ watcher[g] = "run"
    /\ CanTake(run[g])
    /\ Becomes(g, Take(run[g]))
    /\ states' = IF EventCounts(id, g) THEN [states EXCEPT ![id] = StatusAfter(Head(run[g].events))] ELSE states
    /\ UNCHANGED <<runs, nextGeneration, forwardOf, watcher, finisher, startVars, stopVars>>

\* watch sees Done: a run that ended by itself leaves the table, one that is
\* being stopped is left to its stopper.
WatchSeesDone(g) ==
    LET id == forwardOf[g] IN
    /\ watcher[g] = "run"
    /\ run[g].life \in {"ended", "stopping", "stopped"}
    /\ IF IsCurrent(id, g) /\ runs[id].phase # "stopping" THEN Remove(id, "error") ELSE UNCHANGED tableVars
    /\ watcher' = [watcher EXCEPT ![g] = "exit"]
    /\ UNCHANGED <<nextGeneration, forwardOf, run, finisher, startVars, stopVars>>

\* A run's own steps.
ChainLost(g) ==
    /\ CanLose(run[g]) /\ Becomes(g, Lose(run[g]))
    /\ UNCHANGED <<tableVars, nextGeneration, forwardOf, watcher, finisher, startVars, stopVars>>
ChainRestored(g) ==
    /\ CanRestore(run[g]) /\ Becomes(g, Restore(run[g]))
    /\ UNCHANGED <<tableVars, nextGeneration, forwardOf, watcher, finisher, startVars, stopVars>>
MonitorLeaves(g) ==
    /\ CanLeave(run[g]) /\ Becomes(g, Leave(run[g]))
    /\ UNCHANGED <<tableVars, nextGeneration, forwardOf, watcher, finisher, startVars, stopVars>>
ServingEnds(g) ==
    /\ CanEnd(run[g]) /\ Becomes(g, End(run[g]))
    /\ UNCHANGED <<tableVars, nextGeneration, forwardOf, watcher, finisher, startVars, stopVars>>
CleanUpEnds(g) ==
    /\ CanClean(run[g]) /\ Becomes(g, Clean(run[g]))
    /\ UNCHANGED <<tableVars, nextGeneration, forwardOf, watcher, finisher, startVars, stopVars>>

-----------------------------------------------------------------------------
StartNext(c) ==
    \/ \E id \in Forwards : StartRegisters(c, id)
    \/ LoadFails(c) \/ RunBegins(c) \/ RunStartFails(c) \/ RunStartReturns(c)
    \/ Publish(c) \/ GiveUp(c) \/ Settle(c)

RunNext(g) ==
    \/ StopBegins(g) \/ StopFinishes(g) \/ SuspendCollects(g) \/ ShutdownCollects(g)
    \/ WatchSubscribes(g) \/ WatchTakesEvent(g) \/ WatchSeesDone(g)
    \/ ChainLost(g) \/ ChainRestored(g) \/ MonitorLeaves(g) \/ ServingEnds(g) \/ CleanUpEnds(g)

Next ==
    \/ \E c \in Starters : StartNext(c)
    \/ \E s \in Stoppers : (\E id \in Forwards : StopMarks(s, id)) \/ StopReturns(s)
    \/ \E ids \in SUBSET Forwards : SuspendMarks(ids)
    \/ ShutdownMarks
    \/ \E g \in Generations : RunNext(g)

Spec == Init /\ [][Next]_vars

\* A goroutine that is not blocked runs on; the clean-up of a run ends
\* (AbortGeneration is behind it).  A dial need not end, for nothing bounds an
\* SSH handshake.  Nothing makes a chain fail or come back, and nobody has to
\* start or stop anything.
FairSpec ==
    /\ Spec
    /\ \A c \in Starters :
         /\ WF_vars(LoadFails(c) \/ RunBegins(c))
         /\ WF_vars(Publish(c) \/ GiveUp(c))
         /\ WF_vars(Settle(c))
    /\ \A s \in Stoppers : WF_vars(StopReturns(s))
    /\ \A g \in Generations :
         /\ WF_vars(StopBegins(g))
         /\ WF_vars(CleanUpEnds(g))
         /\ WF_vars(StopFinishes(g))
         /\ WF_vars(SuspendCollects(g))
         /\ WF_vars(WatchSubscribes(g))
         /\ WF_vars(WatchSeesDone(g))

-----------------------------------------------------------------------------
\* The values every variable ranges over: the one type invariant of the table.
TypeOK ==
    /\ runs \in [Forwards -> [generation : Generations \union {NoGeneration},
                              phase : {"none", "starting", "running", "stopping"}, run : BOOLEAN]]
    /\ states \in [Forwards -> {"stopped", "running", "reconnecting", "error"}]
    /\ closing \in BOOLEAN
    /\ nextGeneration \in 0..MaxGeneration
    /\ forwardOf \in [Generations -> Forwards]
    /\ run \in [Generations -> Runs]
    /\ watcher \in [Generations -> {"off", "begin", "run", "exit"}]
    /\ finisher \in [Generations -> {"off", "wait"}]
    /\ pc \in [Starters -> {"idle", "load", "start", "publish", "settle"}]
    /\ mine \in [Starters -> Generations \union {NoGeneration}]
    /\ stopOf \in [Stoppers -> Generations \union {NoGeneration}]
    /\ suspending \in SUBSET Generations
    /\ shutting \in SUBSET Generations

\* A Start call still answers for the run it created.
InStart(g) == \E c \in Starters : mine[c] = g

\* Whatever Start, Stop, Suspend, Shutdown and the watchers do to each other,
\* at most one run of a forward is starting or serving (runtime.go:147, "already
\* running: idempotent"; a second one would fight for the same local port).
OneActiveRun ==
    \A g, h \in Generations :
        /\ forwardOf[g] = forwardOf[h]
        /\ run[g].life \in {"starting", "serving"}
        /\ run[h].life \in {"starting", "serving"}
        => g = h

\* No serving run is out of reach: it is the published run of its forward, or
\* the Start that created it still has to publish or stop it.  And no run waits
\* in vain for its stop: once it is marked, somebody is calling run.Stop.
NoOrphanRun ==
    \A g \in Generations : run[g].life = "serving" =>
        /\ IsCurrent(forwardOf[g], g) \/ InStart(g)
        /\ IsCurrent(forwardOf[g], g) /\ runs[forwardOf[g]].phase = "stopping" => StopCalled(g)

\* The table accounts for every run: one active run for each forward, none out of
\* reach of a stop, none waiting for a stop nobody calls.
RunsAreOwned == TypeOK /\ OneActiveRun /\ NoOrphanRun

\* What the window shows agrees with the table: running and reconnecting are
\* said of published runs only, and stopped or error of none that is not being
\* stopped (Snapshot reads states, never runs).
StatusMatchesTable ==
    \A id \in Forwards :
        /\ states[id] \in {"running", "reconnecting"} => runs[id].run
        /\ runs[id].phase = "running" => states[id] \in {"running", "reconnecting"}

\* Once the watcher has read every event, the status of a serving run says
\* whether its chain is up, unless the channel overflowed.
StatusFollowsChain ==
    \A g \in Generations :
        LET id == forwardOf[g] IN
        /\ IsCurrent(id, g)
        /\ runs[id].phase = "running"
        /\ run[g].events = <<>>
        /\ ~run[g].lost
        => (states[id] = "running" <=> run[g].link = "up")

\* The status a user sees is true of the table, and of the chain as soon as the
\* watcher has caught up, whatever late events and old generations still bring.
StatusIsTrue == StatusMatchesTable /\ StatusFollowsChain

\* A stop that was asked for ends: the entry leaves the table, although its
\* caller may have given up waiting.  Only Shutdown leaves entries behind, and a
\* Start that is stopped while its dial never ends (a silent peer).
StoppingConverges ==
    \A id \in Forwards :
        runs[id].phase = "stopping" ~>
            \/ runs[id].phase # "stopping" \/ closing
            \/ \E c \in Starters : [](pc[c] = "start" /\ forwardOf[mine[c]] = id)

\* A run that ended by itself does not stay in the table as running.
EndedRunLeaves ==
    \A g \in Generations :
        (run[g].life = "ended" /\ IsCurrent(forwardOf[g], g))
            ~> (~IsCurrent(forwardOf[g], g) \/ closing)

\* The table gives up what is over: a stop converges although its caller timed
\* out, and a run that ended by itself is noticed by its watcher.
RunsLeave == StoppingConverges /\ EndedRunLeaves

\* 2026-07-21-mvp-remediation-decision-log.md:548 promises that an entry leaves
\* the table only once the clean-up of its run succeeded.
RemovedWhenClean ==
    [][\A g \in Generations :
         /\ runs[forwardOf[g]].generation = g
         /\ runs[forwardOf[g]].phase = "stopping"
         /\ runs'[forwardOf[g]].generation # g
         => run'[g].life \notin {"starting", "serving", "stopping"}]_vars

=============================================================================
