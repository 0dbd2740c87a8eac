-------------------------- MODULE ForwardRuntimeProofs --------------------------
(***************************************************************************)
(* The inductive invariant of ForwardRuntime holds for any number of        *)
(* forwards, callers and runs.  An entry belongs to the Start that          *)
(* registered it until that Start publishes it; from then on it belongs to  *)
(* whoever stops it, and to the run's watcher.                              *)
(***************************************************************************)
EXTENDS ForwardRuntime, TLAPS

Unserved == {"none", "starting", "failed"}   \* lives before Start has returned nil
Live     == {"serving", "ended"}             \* ... and until run.Stop takes effect

\* A Stop, a Suspend or Shutdown is inside run.Stop of g; Start's own stop of a
\* run it gave up is not counted.
Awaited(g) ==
    \/ \E s \in Stoppers : stopOf[s] = g
    \/ g \in suspending
    \/ g \in shutting

\* An entry names a run of its own forward; before it is published a Start owns it.
EntryIsSound(id) ==
    /\ runs[id].generation \in 0..nextGeneration
    /\ runs[id].generation = NoGeneration => runs[id].phase = "none" /\ ~runs[id].run
    /\ runs[id].generation # NoGeneration =>
         /\ forwardOf[runs[id].generation] = id
         /\ runs[id].phase # "none"
         /\ runs[id].run \/ InStart(runs[id].generation)
    /\ runs[id].phase = "running" => runs[id].run
    /\ runs[id].phase = "starting" => ~runs[id].run

\* A Start call is alone with the run it registered, and its entry stays.
StartIsSound(c) ==
    /\ mine[c] \in 0..nextGeneration
    /\ mine[c] = NoGeneration <=> pc[c] = "idle"
    /\ pc[c] # "idle" =>
         /\ runs[forwardOf[mine[c]]].generation = mine[c]
         /\ ~runs[forwardOf[mine[c]]].run
         /\ watcher[mine[c]] = "off"
         /\ \A d \in Starters : mine[d] = mine[c] => d = c
    /\ pc[c] = "load" => run[mine[c]].life = "none"
    /\ pc[c] = "start" => run[mine[c]].life = "starting"
    /\ pc[c] = "publish" => run[mine[c]].life \in Live
    /\ pc[c] = "settle" => run[mine[c]].life \notin Unserved

\* How far a run is agrees with what is said of it elsewhere.
RunIsSound(g) ==
    /\ g > nextGeneration => run[g].life = "none"
    /\ run[g].life \in Unserved =>
         /\ run[g].link = "off" /\ run[g].events = <<>> /\ ~run[g].lost
         /\ watcher[g] = "off" /\ ~Awaited(g) /\ ~IsCurrent(forwardOf[g], g)
    /\ run[g].life \in {"starting", "serving"} => runs[forwardOf[g]].generation = g
    /\ Awaited(g) => ~InStart(g)
    /\ IsCurrent(forwardOf[g], g) /\ (Awaited(g) \/ run[g].life \notin Live)
         => runs[forwardOf[g]].phase = "stopping"
    /\ IsCurrent(forwardOf[g], g) /\ runs[forwardOf[g]].phase = "stopping" /\ run[g].life = "serving"
         => Awaited(g)

\* The last event in the channel tells whether the chain is up; before anybody
\* reads the channel, an empty one does.
EventsTell(g) ==
    run[g].life \in Live /\ ~run[g].lost =>
        /\ run[g].events # <<>> =>
             (run[g].events[Len(run[g].events)] = "reconnected" <=> run[g].link = "up")
        /\ run[g].events = <<>> /\ watcher[g] = "off" => run[g].link = "up"

\* The status follows from the chain when all its events are read.
StatusFollows(g) ==
    /\ IsCurrent(forwardOf[g], g)
    /\ runs[forwardOf[g]].phase = "running"
    /\ run[g].events = <<>>
    /\ ~run[g].lost
    => (states[forwardOf[g]] = "running" <=> run[g].link = "up")

EntriesAreSound == \A id \in Forwards : EntryIsSound(id)
StartsAreSound  == \A c \in Starters : StartIsSound(c)
RunsAreSound    == \A g \in Generations : RunIsSound(g) /\ EventsTell(g) /\ StatusFollows(g)

\* The inductive invariant.
IInv ==
    /\ TypeOK
    /\ EntriesAreSound
    /\ StartsAreSound
    /\ RunsAreSound
    /\ StatusMatchesTable

-----------------------------------------------------------------------------
\* A reading of one run, to say what a step of it keeps.
Reads(r, life, link, events, lost) ==
    r.life = life /\ r.link = link /\ r.events = events /\ r.lost = lost

(* What is appended comes last, *)
LEMMA LastOfAppend ==
    ASSUME NEW S, NEW s \in Seq(S), NEW e \in S
    PROVE  Append(s, e) # <<>> /\ Append(s, e)[Len(Append(s, e))] = e
  OBVIOUS

(* ... and the last of a sequence is its first when nothing follows it. *)
LEMMA OneLeft ==
    ASSUME NEW S, NEW s \in Seq(S), s # <<>>, Tail(s) = <<>>
    PROVE  Head(s) = s[Len(s)]
  <1>1. Len(s) \in Nat /\ Len(s) # 0 /\ Len(Tail(s)) = Len(s) - 1
    OBVIOUS
  <1>2. Len(Tail(s)) = 0
    <2>1. \A q : q = <<>> => Len(q) = 0
      OBVIOUS
    <2>. QED
      BY <2>1, Zenon
  <1>3. Len(s) = 1
    BY <1>1, <1>2
  <1>. QED
    BY <1>3

(* A run that was not started, *)
LEMMA NewRunIs == NewRun \in Runs /\ Reads(NewRun, "none", "off", <<>>, FALSE)
  BY DEF NewRun, Runs, Lives, Links, Reads

(* ... a run that only lives on, *)
LEMMA LifeMoves ==
    ASSUME NEW r \in Runs
    PROVE  /\ Begin(r) \in Runs /\ Reads(Begin(r), "starting", r.link, r.events, r.lost)
           /\ ReturnError(r) \in Runs /\ Reads(ReturnError(r), "failed", r.link, r.events, r.lost)
           /\ End(r) \in Runs /\ Reads(End(r), "ended", r.link, r.events, r.lost)
           /\ Stop(r) \in Runs /\ Reads(Stop(r), "stopping", r.link, r.events, r.lost)
           /\ Clean(r) \in Runs /\ Reads(Clean(r), "stopped", r.link, r.events, r.lost)
  BY DEF Begin, ReturnError, End, Stop, Clean, Runs, Lives, Reads

(* ... one that returns with its chain up, or whose monitor leaves, *)
LEMMA LinkMoves ==
    ASSUME NEW r \in Runs
    PROVE  /\ ReturnServing(r) \in Runs /\ Reads(ReturnServing(r), "serving", "up", r.events, r.lost)
           /\ Leave(r) \in Runs /\ Reads(Leave(r), r.life, "off", r.events, r.lost)
  BY DEF ReturnServing, Leave, Runs, Lives, Links, Reads

(* ... one whose monitor reports, *)
LEMMA Reported ==
    ASSUME NEW r \in Runs, NEW k \in Links, NEW e \in Events
    PROVE  LET next == Emit([r EXCEPT !.link = k], e) IN
           /\ next \in Runs /\ next.life = r.life /\ next.link = k
           /\ \/ next.lost = TRUE
              \/ next.events = Append(r.events, e) /\ next.lost = r.lost
  <1>. DEFINE moved == [r EXCEPT !.link = k]
  <1>1. moved \in Runs /\ Reads(moved, r.life, k, r.events, r.lost)
    BY DEF Runs, Reads
  <1>. HIDE DEF moved
  <1>2. CASE Len(moved.events) < EventCapacity
    <2>1. Emit(moved, e) = [moved EXCEPT !.events = Append(moved.events, e)]
      BY <1>2 DEF Emit
    <2>2. Append(moved.events, e) \in Seq(Events)
      BY <1>1 DEF Runs
    <2>. QED
      BY <1>1, <2>1, <2>2 DEF Runs, Reads, moved
  <1>3. CASE ~(Len(moved.events) < EventCapacity)
    <2>1. Emit(moved, e) = [moved EXCEPT !.lost = TRUE]
      BY <1>3 DEF Emit
    <2>. QED
      BY <1>1, <2>1 DEF Runs, Reads, moved
  <1>. QED
    BY <1>2, <1>3

(* ... one whose channel is asked for, *)
LEMMA Subscribed ==
    ASSUME NEW r \in Runs
    PROVE  /\ Subscribe(r) \in Runs
           /\ Subscribe(r).life = r.life /\ Subscribe(r).link = r.link
           /\ Subscribe(r) = r \/ Subscribe(r).lost = TRUE
  <1>1. CASE r.link = "off"
    <2>. DEFINE emptied == [r EXCEPT !.events = <<>>]
    <2>1. emptied \in Runs /\ Reads(emptied, r.life, r.link, <<>>, r.lost)
      <3>1. \A t \in Seq(Events) : [r EXCEPT !.events = t] \in Runs
                                 /\ Reads([r EXCEPT !.events = t], r.life, r.link, t, r.lost)
        BY DEF Runs, Reads
      <3>2. <<>> \in Seq(Events)
        OBVIOUS
      <3>. QED
        BY <3>1, <3>2
    <2>2. Subscribe(r) = [emptied EXCEPT !.lost = TRUE]
      BY <1>1 DEF Subscribe
    <2>. HIDE DEF emptied
    <2>. QED
      BY <2>1, <2>2 DEF Runs, Reads
  <1>2. CASE r.link # "off"
    BY <1>2 DEF Subscribe
  <1>. QED
    BY <1>1, <1>2

(* ... and one whose oldest event is read. *)
LEMMA Taken ==
    ASSUME NEW r \in Runs, CanTake(r)
    PROVE  Take(r) \in Runs /\ Reads(Take(r), r.life, r.link, Tail(r.events), r.lost)
  <1>1. Tail(r.events) \in Seq(Events)
    BY DEF CanTake, Runs
  <1>2. \A t \in Seq(Events) : [r EXCEPT !.events = t] \in Runs
                             /\ Reads([r EXCEPT !.events = t], r.life, r.link, t, r.lost)
    BY DEF Runs, Reads
  <1>. QED
    BY <1>1, <1>2 DEF Take

-----------------------------------------------------------------------------
\* The type of an entry, and the type invariant in parts.
Entries == [generation : Generations \union {NoGeneration},
            phase : {"none", "starting", "running", "stopping"}, run : BOOLEAN]

TableTyped ==
    runs \in [Forwards -> Entries] /\ states \in [Forwards -> {"stopped", "running", "reconnecting", "error"}]
RunsTyped  == forwardOf \in [Generations -> Forwards] /\ run \in [Generations -> Runs]
StartTyped ==
    /\ nextGeneration \in 0..MaxGeneration
    /\ pc \in [Starters -> {"idle", "load", "start", "publish", "settle"}]
    /\ mine \in [Starters -> Generations \union {NoGeneration}]
AwaitTyped ==
    /\ closing \in BOOLEAN
    /\ stopOf \in [Stoppers -> Generations \union {NoGeneration}]
    /\ suspending \in SUBSET Generations /\ shutting \in SUBSET Generations
HelpersTyped ==
    /\ watcher \in [Generations -> {"off", "begin", "run", "exit"}]
    /\ finisher \in [Generations -> {"off", "wait"}]

(* The parts make up the type invariant, before a step and after it. *)
LEMMA TypeParts ==
    /\ TypeOK <=> TableTyped /\ RunsTyped /\ StartTyped /\ AwaitTyped /\ HelpersTyped
    /\ TypeOK' <=> TableTyped' /\ RunsTyped' /\ StartTyped' /\ AwaitTyped' /\ HelpersTyped'
  BY DEF TypeOK, TableTyped, RunsTyped, StartTyped, AwaitTyped, HelpersTyped, Entries

(* The entry of a run, *)
LEMMA EntryIs ==
    ASSUME NEW g \in Generations \union {NoGeneration},
           NEW p \in {"none", "starting", "running", "stopping"}, NEW b \in BOOLEAN
    PROVE  /\ Entry(g, p, b) \in Entries
           /\ Entry(g, p, b).generation = g /\ Entry(g, p, b).phase = p /\ Entry(g, p, b).run = b
  BY DEF Entry, Entries

(* ... and a forward without one. *)
LEMMA NoEntryIs ==
    /\ NoEntryAt \in Entries
    /\ NoEntryAt.generation = NoGeneration /\ NoEntryAt.phase = "none" /\ NoEntryAt.run = FALSE
  BY DEF NoEntryAt, Entry, Entries

(* Marking an entry changes its phase alone. *)
LEMMA MarkedIs ==
    ASSUME NEW e \in Entries
    PROVE  LET marked == [e EXCEPT !.phase = "stopping"] IN
           /\ marked \in Entries
           /\ marked.generation = e.generation /\ marked.phase = "stopping" /\ marked.run = e.run
  BY DEF Entries

\* What removing an entry does to the table.
LEMMA RemoveIs ==
    ASSUME TableTyped, NEW id \in Forwards, NEW status \in {"stopped", "error"}, Remove(id, status)
    PROVE  /\ TableTyped'
           /\ runs'[id].generation = NoGeneration /\ runs'[id].phase = "none" /\ ~runs'[id].run
           /\ states'[id] = status
           /\ \A j \in Forwards \ {id} : runs'[j] = runs[j] /\ states'[j] = states[j]
  <1>1. runs'[id] = NoEntryAt /\ states'[id] = status
    BY DEF Remove, TableTyped
  <1>2. \A j \in Forwards \ {id} : runs'[j] = runs[j] /\ states'[j] = states[j]
    BY DEF Remove, TableTyped
  <1>3. TableTyped'
    <2>. HIDE DEF Entries
    <2>. QED
      BY NoEntryIs DEF Remove, TableTyped
  <1>. QED
    BY <1>1, <1>2, <1>3, NoEntryIs

-----------------------------------------------------------------------------
(* Entries that a step leaves to the same runs and Starts stay sound. *)
LEMMA EntriesUntouched ==
    ASSUME EntriesAreSound, UNCHANGED <<runs, nextGeneration, forwardOf, mine>>
    PROVE  EntriesAreSound'
  BY DEF EntriesAreSound, EntryIsSound, InStart

(* A step of one served run, and perhaps of its watcher, keeps the invariant if  *)
(* the run does not come to life by it, does not end without having been asked,  *)
(* and is told of by its events and its status. *)
LEMMA RunMoves ==
    ASSUME IInv, NEW g \in Generations, NEW r \in Runs, Becomes(g, r),
           UNCHANGED <<runs, nextGeneration, forwardOf, finisher, pc, mine, stopOf, suspending, shutting, closing>>,
           run[g].life \notin Unserved, r.life \notin Unserved,
           r.life = "serving" => run[g].life = "serving",
           r.life \notin Live => run[g].life \notin Live \/ StopCalled(g),
           watcher' = watcher \/ (watcher[g] = "begin" /\ watcher' = [watcher EXCEPT ![g] = "run"]),
           states' = states
             \/ (/\ IsCurrent(forwardOf[g], g)
                 /\ \E s \in {"running", "reconnecting"} : states' = [states EXCEPT ![forwardOf[g]] = s]),
           EventsTell(g)', StatusFollows(g)'
    PROVE  IInv'
  <1>. TableTyped /\ RunsTyped /\ StartTyped /\ AwaitTyped /\ HelpersTyped
    BY TypeParts DEF IInv
  <1>1. run'[g] = r /\ \A h \in Generations \ {g} : run'[h] = run[h]
    BY DEF Becomes, RunsTyped
  <1>2. \A h \in Generations : watcher'[h] = watcher[h] \/ (h = g /\ watcher[h] = "begin" /\ watcher'[h] = "run")
    BY DEF HelpersTyped
  <1>3. \A h \in Generations : Awaited(h)' = Awaited(h) /\ InStart(h)' = InStart(h)
                             /\ \A id \in Forwards : IsCurrent(id, h)' = IsCurrent(id, h)
    BY DEF Awaited, InStart, IsCurrent
  <1>4. RunIsSound(g) /\ EventsTell(g)
    BY DEF IInv, RunsAreSound
  <1>5. TypeOK'
    <2>1. run' \in [Generations -> Runs]
      BY DEF Becomes, RunsTyped
    <2>2. watcher' \in [Generations -> {"off", "begin", "run", "exit"}]
      BY DEF HelpersTyped
    <2>3. states' \in [Forwards -> {"stopped", "running", "reconnecting", "error"}]
      BY DEF TableTyped
    <2>. QED
      BY <2>1, <2>2, <2>3, TypeParts DEF TableTyped, RunsTyped, StartTyped, AwaitTyped, HelpersTyped
  <1>6. EntriesAreSound'
    BY EntriesUntouched DEF IInv
  <1>7. StartsAreSound'
    <2>. SUFFICES ASSUME NEW c \in Starters PROVE StartIsSound(c)'
      BY DEF StartsAreSound
    <2>1. StartIsSound(c)
      BY DEF IInv, StartsAreSound
    <2>2. pc[c] # "idle" => mine[c] \in Generations
      BY <2>1 DEF StartIsSound, StartTyped
    <2>3. pc[c] # "idle" => watcher'[mine[c]] = "off"
      BY <1>2, <2>1, <2>2 DEF StartIsSound
    <2>4. CASE pc[c] # "idle" /\ mine[c] = g
      <3>1. pc[c] \in {"publish", "settle"}
        BY <2>1, <2>4 DEF StartIsSound, Unserved, StartTyped
      <3>2. pc[c] = "publish" => ~StopCalled(g) /\ run[g].life \in Live
        <4>1. pc[c] = "publish" => ~Awaited(g)
          BY <1>4, <2>4 DEF RunIsSound, InStart
        <4>. QED
          BY <2>1, <2>4, <4>1 DEF StartIsSound, StopCalled, Awaited
      <3>. QED
        BY <1>1, <2>1, <2>3, <2>4, <3>1, <3>2 DEF StartIsSound
    <2>5. CASE pc[c] = "idle" \/ mine[c] # g
      BY <1>1, <2>1, <2>2, <2>3, <2>5 DEF StartIsSound, StartTyped
    <2>. QED
      BY <2>4, <2>5
  <1>8. RunsAreSound'
    <2>. SUFFICES ASSUME NEW h \in Generations
                  PROVE  RunIsSound(h)' /\ EventsTell(h)' /\ StatusFollows(h)'
      BY DEF RunsAreSound
    <2>1. RunIsSound(h) /\ EventsTell(h) /\ StatusFollows(h)
      BY DEF IInv, RunsAreSound
    <2>2. CASE h = g
      <3>1. IsCurrent(forwardOf[g], g) /\ StopCalled(g) => Awaited(g)
        <4>1. ASSUME NEW c \in Starters, pc[c] = "settle", mine[c] = g PROVE ~IsCurrent(forwardOf[g], g)
          BY <4>1 DEF IInv, StartsAreSound, StartIsSound, IsCurrent
        <4>. QED
          BY <4>1 DEF StopCalled, Awaited
      <3>2. RunIsSound(g)'
        BY <1>1, <1>3, <1>4, <3>1 DEF RunIsSound, Unserved, Live, RunsTyped
      <3>. QED
        BY <2>2, <3>2
    <2>3. CASE h # g
      <3>1. run'[h] = run[h] /\ watcher'[h] = watcher[h]
        BY <1>1, <1>2, <2>3
      <3>2. IsCurrent(forwardOf[h], h) => states'[forwardOf[h]] = states[forwardOf[h]]
        BY <2>3 DEF IsCurrent, TableTyped, RunsTyped
      <3>3. RunIsSound(h)'
        BY <1>3, <2>1, <3>1 DEF RunIsSound, RunsTyped
      <3>. QED
        BY <1>3, <2>1, <3>1, <3>2, <3>3 DEF EventsTell, StatusFollows, RunsTyped
    <2>. QED
      BY <2>2, <2>3
  <1>9. StatusMatchesTable'
    BY DEF IInv, StatusMatchesTable, IsCurrent, TableTyped
  <1>. QED
    BY <1>5, <1>6, <1>7, <1>8, <1>9 DEF IInv

(* A run whose events and lost flag stay is still told of, unless its chain      *)
(* seems to come up by it. *)
LEMMA StillTold ==
    ASSUME IInv, NEW g \in Generations, NEW r \in Runs, Becomes(g, r),
           UNCHANGED <<tableVars, forwardOf, watcher>>,
           run[g].life \notin Unserved,
           r.life \in Live => run[g].life \in Live,
           r.events = run[g].events, r.lost = run[g].lost,
           (r.link = "up" <=> run[g].link = "up") \/ run[g].life \notin Live
    PROVE  EventsTell(g)' /\ StatusFollows(g)'
  <1>1. run'[g] = r
    BY TypeParts DEF Becomes, IInv, RunsTyped
  <1>2. RunIsSound(g) /\ EventsTell(g) /\ StatusFollows(g)
    BY DEF IInv, RunsAreSound
  <1>3. EventsTell(g)'
    BY <1>1, <1>2 DEF EventsTell
  <1>4. StatusFollows(g)'
    <2>1. CASE r.link = "up" <=> run[g].link = "up"
      BY <1>1, <1>2, <2>1 DEF StatusFollows, IsCurrent, tableVars
    <2>2. CASE run[g].life \notin Live
      BY <1>1, <1>2, <2>2 DEF RunIsSound, StatusFollows, IsCurrent, tableVars
    <2>. QED
      BY <2>1, <2>2
  <1>. QED
    BY <1>3, <1>4

(* Every step of a run, of its monitor and of its watcher keeps the invariant: *)
(* the stop, the end and the clean-up of a run, *)
LEMMA RunStepsKeep ==
    ASSUME IInv, NEW g \in Generations,
           \/ StopBegins(g) \/ MonitorLeaves(g) \/ ServingEnds(g) \/ CleanUpEnds(g)
    PROVE  IInv'
  <1>. run[g] \in Runs /\ RunIsSound(g)
    BY TypeParts DEF IInv, RunsTyped, RunsAreSound
  <1>1. ASSUME NEW r \in Runs, Becomes(g, r),
               UNCHANGED <<tableVars, nextGeneration, forwardOf, watcher, finisher, startVars, stopVars>>,
               run[g].life \notin Unserved, r.life \notin Unserved,
               r.life = "serving" => run[g].life = "serving",
               r.life \in Live => run[g].life \in Live,
               r.life \notin Live => run[g].life \notin Live \/ StopCalled(g),
               r.events = run[g].events, r.lost = run[g].lost,
               (r.link = "up" <=> run[g].link = "up") \/ run[g].life \notin Live
        PROVE  IInv'
    <2>1. EventsTell(g)' /\ StatusFollows(g)'
      BY <1>1, StillTold
    <2>2. UNCHANGED <<runs, states, nextGeneration, forwardOf, watcher, finisher, pc, mine, stopOf,
                      suspending, shutting, closing>>
      BY <1>1 DEF tableVars, startVars, stopVars
    <2>. QED
      BY <1>1, <2>1, <2>2, RunMoves
  <1>2. CASE StopBegins(g)
    <2>1. Stop(run[g]) \in Runs /\ Reads(Stop(run[g]), "stopping", run[g].link, run[g].events, run[g].lost)
      BY LifeMoves
    <2>. QED
      BY <1>1, <1>2, <2>1 DEF StopBegins, CanStop, Reads, Unserved, Live
  <1>3. CASE MonitorLeaves(g)
    <2>1. Leave(run[g]) \in Runs /\ Reads(Leave(run[g]), run[g].life, "off", run[g].events, run[g].lost)
      BY LinkMoves
    <2>. QED
      BY <1>1, <1>3, <2>1 DEF MonitorLeaves, CanLeave, Reads, Live, RunIsSound
  <1>4. CASE ServingEnds(g)
    <2>1. End(run[g]) \in Runs /\ Reads(End(run[g]), "ended", run[g].link, run[g].events, run[g].lost)
      BY LifeMoves
    <2>. QED
      BY <1>1, <1>4, <2>1 DEF ServingEnds, CanEnd, Reads, Unserved, Live
  <1>5. CASE CleanUpEnds(g)
    <2>1. Clean(run[g]) \in Runs /\ Reads(Clean(run[g]), "stopped", run[g].link, run[g].events, run[g].lost)
      BY LifeMoves
    <2>. QED
      BY <1>1, <1>5, <2>1 DEF CleanUpEnds, CanClean, Reads, Unserved, Live
  <1>. QED
    BY <1>2, <1>3, <1>4, <1>5

(* ... its reports do, *)
LEMMA ReportsKeep ==
    ASSUME IInv, NEW g \in Generations, ChainLost(g) \/ ChainRestored(g)
    PROVE  IInv'
  <1>. run[g] \in Runs /\ RunIsSound(g) /\ EventsTell(g)
    BY TypeParts DEF IInv, RunsTyped, RunsAreSound
  <1>1. PICK k \in {"up", "down"}, e \in {"disconnected", "reconnected"} :
           /\ k = "up" <=> e = "reconnected"
           /\ run[g].link \in {"up", "down"}
           /\ Becomes(g, Emit([run[g] EXCEPT !.link = k], e))
           /\ UNCHANGED <<tableVars, nextGeneration, forwardOf, watcher, finisher, startVars, stopVars>>
    BY DEF ChainLost, ChainRestored, CanLose, CanRestore, Lose, Restore
  <1>. DEFINE r == Emit([run[g] EXCEPT !.link = k], e)
  <1>2. /\ r \in Runs /\ r.life = run[g].life /\ r.link = k
        /\ r.lost = TRUE \/ (r.events = Append(run[g].events, e) /\ r.lost = run[g].lost)
    <2>1. k \in Links /\ e \in Events
      BY DEF Links, Events
    <2>. QED
      BY <2>1, Reported
  <1>. HIDE DEF r
  <1>3. run[g].life \notin Unserved
    BY <1>1 DEF RunIsSound
  <1>4. run'[g] = r
    BY <1>1 DEF r, Becomes, IInv, TypeOK
  <1>5. r.lost # TRUE => r.events # <<>> /\ r.events[Len(r.events)] = e
    <2>1. run[g].events \in Seq(Events) /\ e \in Events
      BY DEF Runs, Events
    <2>2. /\ Append(run[g].events, e) # <<>>
          /\ Append(run[g].events, e)[Len(Append(run[g].events, e))] = e
      BY <2>1, LastOfAppend
    <2>. QED
      BY <1>2, <2>2
  <1>6. EventsTell(g)' /\ StatusFollows(g)'
    BY <1>1, <1>2, <1>4, <1>5 DEF EventsTell, StatusFollows
  <1>7. UNCHANGED <<runs, states, nextGeneration, forwardOf, watcher, finisher, pc, mine, stopOf,
                    suspending, shutting, closing>>
    BY <1>1 DEF tableVars, startVars, stopVars
  <1>8. Becomes(g, r)
    BY <1>1 DEF r
  <1>. QED
    BY <1>2, <1>3, <1>6, <1>7, <1>8, RunMoves

(* ... and so do the subscription of its watcher *)
LEMMA SubscribingKeeps ==
    ASSUME IInv, NEW g \in Generations, WatchSubscribes(g)
    PROVE  IInv'
  <1>. run[g] \in Runs /\ RunIsSound(g) /\ EventsTell(g) /\ StatusFollows(g) /\ HelpersTyped
    BY TypeParts DEF IInv, RunsTyped, RunsAreSound
  <1>1. /\ Subscribe(run[g]) \in Runs
        /\ Subscribe(run[g]).life = run[g].life /\ Subscribe(run[g]).link = run[g].link
        /\ Subscribe(run[g]) = run[g] \/ Subscribe(run[g]).lost = TRUE
    BY Subscribed
  <1>2. run[g].life \notin Unserved
    BY DEF WatchSubscribes, RunIsSound
  <1>3. run'[g] = Subscribe(run[g]) /\ watcher'[g] = "run"
    BY TypeParts DEF WatchSubscribes, Becomes, IInv, RunsTyped, HelpersTyped
  <1>4. UNCHANGED <<runs, states, nextGeneration, forwardOf, finisher, pc, mine, stopOf, suspending,
                    shutting, closing>>
    BY DEF WatchSubscribes, tableVars, startVars, stopVars
  <1>5. EventsTell(g)' /\ StatusFollows(g)'
    BY <1>1, <1>3, <1>4 DEF EventsTell, StatusFollows, IsCurrent
  <1>. QED
    BY <1>1, <1>2, <1>4, <1>5, RunMoves DEF WatchSubscribes

(* ... and every event it takes. *)
LEMMA TakingKeeps ==
    ASSUME IInv, NEW g \in Generations, WatchTakesEvent(g)
    PROVE  IInv'
  <1>. run[g] \in Runs /\ RunIsSound(g) /\ EventsTell(g) /\ RunsTyped /\ TableTyped
    BY TypeParts DEF IInv, RunsAreSound, RunsTyped
  <1>. DEFINE id == forwardOf[g]
  <1>1. CanTake(run[g]) /\ watcher[g] = "run" /\ Becomes(g, Take(run[g]))
        /\ UNCHANGED <<runs, nextGeneration, forwardOf, watcher, finisher, pc, mine, stopOf, suspending,
                       shutting, closing>>
    BY DEF WatchTakesEvent, startVars, stopVars
  <1>2. /\ Take(run[g]) \in Runs
        /\ Reads(Take(run[g]), run[g].life, run[g].link, Tail(run[g].events), run[g].lost)
    BY <1>1, Taken
  <1>3. run[g].life \notin Unserved
    BY <1>1 DEF RunIsSound
  <1>4. run'[g] = Take(run[g])
    BY <1>1 DEF Becomes, RunsTyped
  <1>5. run[g].events \in Seq(Events) /\ run[g].events # <<>>
    BY <1>1 DEF CanTake, Runs
  <1>6. Tail(run[g].events) # <<>>
          => Tail(run[g].events)[Len(Tail(run[g].events))] = run[g].events[Len(run[g].events)]
    BY <1>5
  <1>7. EventsTell(g)'
    BY <1>1, <1>2, <1>4, <1>5, <1>6 DEF EventsTell, Reads
  <1>8. Tail(run[g].events) = <<>> => Head(run[g].events) = run[g].events[Len(run[g].events)]
    BY <1>5, OneLeft
  <1>9. states' = states
          \/ (IsCurrent(id, g) /\ \E s \in {"running", "reconnecting"} : states' = [states EXCEPT ![id] = s])
    BY DEF WatchTakesEvent, EventCounts, StatusAfter
  <1>10. StatusFollows(g)'
    <2>1. IsCurrent(id, g) => states'[id] = StatusAfter(Head(run[g].events))
      BY DEF WatchTakesEvent, EventCounts, TableTyped, RunsTyped
    <2>2. Head(run[g].events) \in {"disconnected", "reconnected"}
      BY <1>5 DEF Events
    <2>3. IsCurrent(id, g) /\ runs[id].phase = "running" => run[g].life \in Live
      BY DEF RunIsSound
    <2>. QED
      BY <1>1, <1>2, <1>4, <1>5, <1>8, <2>1, <2>2, <2>3
      DEF StatusFollows, EventsTell, Reads, StatusAfter, IsCurrent
  <1>11. Take(run[g]).life = run[g].life
    BY <1>2 DEF Reads
  <1>. QED
    BY <1>1, <1>2, <1>3, <1>7, <1>9, <1>10, <1>11, RunMoves

-----------------------------------------------------------------------------
(* Marking entries as stopping keeps the invariant if exactly the published     *)
(* runs that are marked get somebody who calls their Stop. *)
LEMMA MarkingKeeps ==
    ASSUME IInv, TableTyped', AwaitTyped',
           UNCHANGED <<states, nextGeneration, forwardOf, run, watcher, finisher, pc, mine>>,
           \A id \in Forwards :
               /\ runs'[id].generation = runs[id].generation /\ runs'[id].run = runs[id].run
               /\ \/ runs'[id].phase = runs[id].phase
                  \/ runs[id].phase # "none" /\ runs'[id].phase = "stopping",
           \A g \in Generations :
               /\ Awaited(g)' => Awaited(g) \/ (IsCurrent(forwardOf[g], g) /\ runs'[forwardOf[g]].phase = "stopping")
               /\ /\ IsCurrent(forwardOf[g], g) /\ runs'[forwardOf[g]].phase = "stopping"
                  /\ runs[forwardOf[g]].phase # "stopping" \/ Awaited(g)
                  => Awaited(g)'
    PROVE  IInv'
  <1>. TableTyped /\ RunsTyped /\ StartTyped /\ HelpersTyped
    BY TypeParts DEF IInv
  <1>1. TypeOK'
    BY TypeParts DEF RunsTyped, StartTyped, HelpersTyped
  <1>2. EntriesAreSound'
    BY DEF IInv, EntriesAreSound, EntryIsSound, InStart
  <1>3. StartsAreSound'
    <2>. SUFFICES ASSUME NEW c \in Starters PROVE StartIsSound(c)'
      BY DEF StartsAreSound
    <2>1. StartIsSound(c)
      BY DEF IInv, StartsAreSound
    <2>2. pc[c] # "idle" => forwardOf[mine[c]] \in Forwards
      BY <2>1 DEF StartIsSound, StartTyped, RunsTyped
    <2>. QED
      BY <2>1, <2>2 DEF StartIsSound
  <1>4. RunsAreSound'
    <2>. SUFFICES ASSUME NEW g \in Generations
                  PROVE  RunIsSound(g)' /\ EventsTell(g)' /\ StatusFollows(g)'
      BY DEF RunsAreSound
    <2>1. RunIsSound(g) /\ EventsTell(g) /\ StatusFollows(g)
      BY DEF IInv, RunsAreSound
    <2>2. forwardOf[g] \in Forwards
      BY DEF RunsTyped
    <2>3. IsCurrent(forwardOf[g], g)' = IsCurrent(forwardOf[g], g) /\ InStart(g)' = InStart(g)
      BY <2>2 DEF IsCurrent, InStart
    <2>4. IsCurrent(forwardOf[g], g) => ~InStart(g)
      <3>1. ASSUME NEW c \in Starters, mine[c] = g PROVE ~runs[forwardOf[g]].run
        <4>1. StartIsSound(c) /\ g # NoGeneration
          BY DEF IInv, StartsAreSound, Generations, NoGeneration
        <4>. QED
          BY <3>1, <4>1 DEF StartIsSound
      <3>. QED
        BY <3>1 DEF InStart, IsCurrent
    <2>5. RunIsSound(g)'
      BY <2>1, <2>2, <2>3, <2>4 DEF RunIsSound
    <2>6. EventsTell(g)' /\ StatusFollows(g)'
      BY <2>1, <2>2, <2>3 DEF EventsTell, StatusFollows
    <2>. QED
      BY <2>5, <2>6
  <1>5. StatusMatchesTable'
    BY DEF IInv, StatusMatchesTable
  <1>. QED
    BY <1>1, <1>2, <1>3, <1>4, <1>5 DEF IInv

(* A step that drops the entry of a published run that does not serve any more, *)
(* or only says of a late stop that it failed, keeps the invariant; it may take *)
(* one caller of run.Stop off that run. *)
LEMMA ReleaseKeeps ==
    ASSUME IInv, AwaitTyped', HelpersTyped', NEW g \in Generations,
           run[g].life \notin {"starting", "serving"},
           UNCHANGED <<nextGeneration, forwardOf, run, pc, mine>>,
           \/ IsCurrent(forwardOf[g], g) /\ \E s \in {"stopped", "error"} : Remove(forwardOf[g], s)
           \/ UNCHANGED tableVars
           \/ /\ IsCurrent(forwardOf[g], g) /\ run[g].life = "stopping"
              /\ UNCHANGED runs /\ states' = [states EXCEPT ![forwardOf[g]] = "error"],
           \A h \in Generations : watcher'[h] = watcher[h] \/ (watcher[h] # "off" /\ watcher'[h] # "off"),
           \A h \in Generations : (Awaited(h)' => Awaited(h)) /\ (h # g /\ Awaited(h) => Awaited(h)')
    PROVE  IInv'
  <1>. TableTyped /\ RunsTyped /\ StartTyped /\ HelpersTyped
    BY TypeParts DEF IInv
  <1>. DEFINE id == forwardOf[g]
  <1>1. id \in Forwards /\ g # NoGeneration
    BY DEF RunsTyped, Generations, NoGeneration
  <1>2. /\ TableTyped'
        /\ \A j \in Forwards \ {id} : runs'[j] = runs[j] /\ states'[j] = states[j]
        /\ \/ /\ IsCurrent(id, g) /\ runs'[id].generation = NoGeneration /\ runs'[id].phase = "none"
              /\ ~runs'[id].run /\ states'[id] \in {"stopped", "error"}
           \/ runs'[id] = runs[id] /\ states'[id] = states[id]
           \/ /\ IsCurrent(id, g) /\ run[g].life = "stopping"
              /\ runs'[id] = runs[id] /\ states'[id] = "error"
    <2>1. CASE IsCurrent(id, g) /\ \E s \in {"stopped", "error"} : Remove(id, s)
      BY <1>1, <2>1, RemoveIs
    <2>2. CASE UNCHANGED tableVars
      BY <2>2 DEF tableVars, TableTyped
    <2>3. CASE /\ IsCurrent(id, g) /\ run[g].life = "stopping"
               /\ UNCHANGED runs /\ states' = [states EXCEPT ![id] = "error"]
      BY <1>1, <2>3 DEF TableTyped
    <2>. QED
      BY <2>1, <2>2, <2>3
  <1>. HIDE DEF id
  <1>3. \A h \in Generations : InStart(h)' = InStart(h) /\ (h # g => Awaited(h)' = Awaited(h))
    BY DEF InStart, Awaited
  <1>4. TypeOK'
    BY <1>2, TypeParts DEF RunsTyped, StartTyped
  <1>5. EntriesAreSound'
    <2>. SUFFICES ASSUME NEW j \in Forwards PROVE EntryIsSound(j)'
      BY DEF EntriesAreSound
    <2>1. EntryIsSound(j)
      BY DEF IInv, EntriesAreSound
    <2>2. CASE runs'[j] = runs[j]
      BY <2>1, <2>2 DEF EntryIsSound, InStart
    <2>3. CASE j = id /\ runs'[id].generation = NoGeneration /\ runs'[id].phase = "none" /\ ~runs'[id].run
      BY <2>1, <2>3 DEF EntryIsSound, NoGeneration, StartTyped
    <2>. QED
      BY <1>2, <2>2, <2>3
  <1>6. StartsAreSound'
    <2>. SUFFICES ASSUME NEW c \in Starters PROVE StartIsSound(c)'
      BY DEF StartsAreSound
    <2>1. StartIsSound(c)
      BY DEF IInv, StartsAreSound
    <2>2. pc[c] # "idle" => mine[c] \in Generations /\ forwardOf[mine[c]] \in Forwards
      BY <2>1 DEF StartIsSound, StartTyped, RunsTyped
    <2>3. pc[c] # "idle" => runs'[forwardOf[mine[c]]] = runs[forwardOf[mine[c]]]
      BY <1>2, <2>1, <2>2 DEF StartIsSound, IsCurrent
    <2>. QED
      BY <2>1, <2>2, <2>3 DEF StartIsSound
  <1>7. RunsAreSound'
    <2>. SUFFICES ASSUME NEW h \in Generations
                  PROVE  RunIsSound(h)' /\ EventsTell(h)' /\ StatusFollows(h)'
      BY DEF RunsAreSound
    <2>1. RunIsSound(h) /\ EventsTell(h) /\ StatusFollows(h)
      BY DEF IInv, RunsAreSound
    <2>2. forwardOf[h] \in Forwards /\ h # NoGeneration
      BY DEF RunsTyped, Generations, NoGeneration
    <2>3. IsCurrent(forwardOf[h], h)' => IsCurrent(forwardOf[h], h) /\ runs'[forwardOf[h]] = runs[forwardOf[h]]
      BY <1>2, <2>2 DEF IsCurrent
    <2>4. run[h].life \in {"starting", "serving"} =>
            runs'[forwardOf[h]] = runs[forwardOf[h]] /\ h # g
      BY <1>2, <2>1, <2>2 DEF RunIsSound, IsCurrent
    <2>5. run[h].life \in Unserved => watcher'[h] = "off"
      BY <2>1 DEF RunIsSound
    <2>6. RunIsSound(h)'
      BY <1>3, <2>1, <2>3, <2>4, <2>5 DEF RunIsSound
    <2>7. EventsTell(h)'
      BY <2>1 DEF EventsTell
    <2>8. IsCurrent(forwardOf[h], h)' /\ runs'[forwardOf[h]].phase = "running" => states'[forwardOf[h]] = states[forwardOf[h]]
      <3>1. RunIsSound(g)
        BY DEF IInv, RunsAreSound
      <3>2. IsCurrent(id, g) /\ run[g].life = "stopping" => runs[id].phase = "stopping"
        BY <3>1 DEF RunIsSound, Live, id
      <3>. QED
        BY <1>2, <2>2, <2>3, <3>2 DEF IsCurrent
    <2>9. StatusFollows(h)'
      BY <2>1, <2>3, <2>8 DEF StatusFollows
    <2>. QED
      BY <2>6, <2>7, <2>9
  <1>8. StatusMatchesTable'
    <2>1. RunIsSound(g)
      BY DEF IInv, RunsAreSound
    <2>2. IsCurrent(id, g) /\ run[g].life = "stopping" => runs[id].phase = "stopping"
      BY <2>1 DEF RunIsSound, Live, id
    <2>. QED
      BY <1>2, <2>2 DEF IInv, StatusMatchesTable
  <1>. QED
    BY <1>4, <1>5, <1>6, <1>7, <1>8 DEF IInv

(* The three steps that mark: a Stop, *)
LEMMA StopMarksKeeps ==
    ASSUME IInv, NEW s \in Stoppers, NEW id \in Forwards, StopMarks(s, id)
    PROVE  IInv'
  <1>. TableTyped /\ RunsTyped /\ AwaitTyped /\ EntriesAreSound
    BY TypeParts DEF IInv
  <1>1. /\ runs' = [runs EXCEPT ![id] = [runs[id] EXCEPT !.phase = "stopping"]]
        /\ stopOf' = [stopOf EXCEPT ![s] = IF runs[id].run THEN runs[id].generation ELSE NoGeneration]
        /\ stopOf[s] = NoGeneration /\ runs[id].phase \in {"starting", "running"}
        /\ UNCHANGED <<states, nextGeneration, forwardOf, run, watcher, finisher, pc, mine, suspending,
                       shutting, closing>>
    BY DEF StopMarks, startVars
  <1>2. runs[id] \in Entries
    BY DEF TableTyped
  <1>. DEFINE marked == [runs[id] EXCEPT !.phase = "stopping"]
  <1>3. /\ marked \in Entries
        /\ marked.generation = runs[id].generation /\ marked.phase = "stopping" /\ marked.run = runs[id].run
    BY <1>2, MarkedIs
  <1>4. runs' = [runs EXCEPT ![id] = marked]
    BY <1>1
  <1>. HIDE DEF marked
  <1>5. runs'[id] = marked /\ \A j \in Forwards \ {id} : runs'[j] = runs[j]
    BY <1>4 DEF TableTyped
  <1>6. TableTyped'
    <2>. HIDE DEF Entries
    <2>. QED
      BY <1>1, <1>3, <1>4 DEF TableTyped
  <1>7. AwaitTyped'
    <2>1. runs[id].generation \in Generations \union {NoGeneration}
      BY <1>2 DEF Entries
    <2>. QED
      BY <1>1, <2>1 DEF AwaitTyped
  <1>8. \A j \in Forwards :
          /\ runs'[j].generation = runs[j].generation /\ runs'[j].run = runs[j].run
          /\ runs'[j].phase = runs[j].phase \/ (runs[j].phase # "none" /\ runs'[j].phase = "stopping")
    BY <1>1, <1>3, <1>5
  <1>9. ASSUME NEW g \in Generations
        PROVE  /\ Awaited(g)' => Awaited(g) \/ (IsCurrent(forwardOf[g], g) /\ runs'[forwardOf[g]].phase = "stopping")
               /\ /\ IsCurrent(forwardOf[g], g) /\ runs'[forwardOf[g]].phase = "stopping"
                  /\ runs[forwardOf[g]].phase # "stopping" \/ Awaited(g)
                  => Awaited(g)'
    <2>1. forwardOf[g] \in Forwards /\ g # NoGeneration
      BY DEF RunsTyped, Generations, NoGeneration
    <2>2. stopOf'[s] = (IF runs[id].run THEN runs[id].generation ELSE NoGeneration)
          /\ \A t \in Stoppers \ {s} : stopOf'[t] = stopOf[t]
      BY <1>1 DEF AwaitTyped
    <2>3. runs[id].generation = g => forwardOf[g] = id
      BY <2>1 DEF EntriesAreSound, EntryIsSound
    <2>4. Awaited(g)' <=> Awaited(g) \/ stopOf'[s] = g
      BY <1>1, <2>1, <2>2 DEF Awaited
    <2>. QED
      BY <1>3, <1>5, <2>1, <2>2, <2>3, <2>4 DEF IsCurrent
  <1>. QED
    BY <1>1, <1>6, <1>7, <1>8, <1>9, MarkingKeeps

(* ... a Suspend *)
LEMMA SuspendMarksKeeps ==
    ASSUME IInv, NEW ids \in SUBSET Forwards, SuspendMarks(ids)
    PROVE  IInv'
  <1>. TableTyped /\ RunsTyped /\ AwaitTyped /\ EntriesAreSound
    BY TypeParts DEF IInv
  <1>. DEFINE wanted == {id \in ids : runs[id].phase = "running"}
  <1>1. /\ runs' = [id \in Forwards |-> IF id \in wanted THEN [runs[id] EXCEPT !.phase = "stopping"] ELSE runs[id]]
        /\ suspending = {} /\ suspending' = {runs[id].generation : id \in wanted}
        /\ UNCHANGED <<states, nextGeneration, forwardOf, run, watcher, finisher, pc, mine, stopOf,
                       shutting, closing>>
    BY DEF SuspendMarks, startVars
  <1>2. \A id \in Forwards : runs[id] \in Entries
    BY DEF TableTyped
  <1>3. ASSUME NEW id \in Forwards
        PROVE  /\ runs'[id] \in Entries
               /\ runs'[id].generation = runs[id].generation /\ runs'[id].run = runs[id].run
               /\ runs'[id].phase = (IF id \in wanted THEN "stopping" ELSE runs[id].phase)
    <2>. DEFINE marked == [runs[id] EXCEPT !.phase = "stopping"]
    <2>1. /\ marked \in Entries
          /\ marked.generation = runs[id].generation /\ marked.phase = "stopping" /\ marked.run = runs[id].run
      BY <1>2, MarkedIs
    <2>2. runs'[id] = IF id \in wanted THEN marked ELSE runs[id]
      BY <1>1
    <2>. HIDE DEF marked, wanted
    <2>. QED
      BY <1>2, <2>1, <2>2
  <1>4. \A id \in wanted : id \in Forwards /\ runs[id].phase = "running" /\ runs[id].run
                         /\ runs[id].generation \in Generations /\ forwardOf[runs[id].generation] = id
    BY <1>2 DEF Entries, EntriesAreSound, EntryIsSound
  <1>5. TableTyped'
    BY <1>1, <1>3 DEF TableTyped
  <1>6. AwaitTyped'
    BY <1>1, <1>4 DEF AwaitTyped
  <1>7. \A j \in Forwards :
          /\ runs'[j].generation = runs[j].generation /\ runs'[j].run = runs[j].run
          /\ runs'[j].phase = runs[j].phase \/ (runs[j].phase # "none" /\ runs'[j].phase = "stopping")
    BY <1>3
  <1>8. ASSUME NEW g \in Generations
        PROVE  /\ Awaited(g)' => Awaited(g) \/ (IsCurrent(forwardOf[g], g) /\ runs'[forwardOf[g]].phase = "stopping")
               /\ /\ IsCurrent(forwardOf[g], g) /\ runs'[forwardOf[g]].phase = "stopping"
                  /\ runs[forwardOf[g]].phase # "stopping" \/ Awaited(g)
                  => Awaited(g)'
    <2>1. forwardOf[g] \in Forwards
      BY DEF RunsTyped
    <2>2. Awaited(g)' <=> Awaited(g) \/ g \in suspending'
      BY <1>1 DEF Awaited
    <2>3. g \in suspending' <=> forwardOf[g] \in wanted /\ runs[forwardOf[g]].generation = g
      BY <1>1, <1>4
    <2>. QED
      BY <1>3, <1>4, <2>1, <2>2, <2>3 DEF IsCurrent
  <1>. QED
    BY <1>1, <1>5, <1>6, <1>7, <1>8, MarkingKeeps

(* ... and Shutdown. *)
LEMMA ShutdownMarksKeeps ==
    ASSUME IInv, ShutdownMarks
    PROVE  IInv'
  <1>. TableTyped /\ RunsTyped /\ AwaitTyped /\ EntriesAreSound
    BY TypeParts DEF IInv
  <1>. DEFINE held == {i \in Forwards : runs[i].run}
  <1>1. /\ runs' = [id \in Forwards |->
                      IF runs[id] = NoEntryAt THEN NoEntryAt ELSE [runs[id] EXCEPT !.phase = "stopping"]]
        /\ shutting' = {runs[id].generation : id \in held}
        /\ closing' = TRUE
        /\ UNCHANGED <<states, nextGeneration, forwardOf, run, watcher, finisher, pc, mine, stopOf, suspending>>
    BY DEF ShutdownMarks, startVars
  <1>2. \A id \in Forwards : runs[id] \in Entries
    BY DEF TableTyped
  <1>3. ASSUME NEW id \in Forwards
        PROVE  /\ runs'[id] \in Entries
               /\ runs'[id].generation = runs[id].generation /\ runs'[id].run = runs[id].run
               /\ runs[id].phase = "none" => runs'[id].phase = "none"
               /\ runs[id].phase # "none" => runs'[id].phase = "stopping"
    <2>. DEFINE marked == [runs[id] EXCEPT !.phase = "stopping"]
    <2>1. /\ marked \in Entries
          /\ marked.generation = runs[id].generation /\ marked.phase = "stopping" /\ marked.run = runs[id].run
      BY <1>2, MarkedIs
    <2>2. runs'[id] = IF runs[id] = NoEntryAt THEN NoEntryAt ELSE marked
      BY <1>1
    <2>3. runs[id].phase = "none" => runs[id] = NoEntryAt
      <3>1. runs[id].phase = "none" => runs[id].generation = NoGeneration /\ runs[id].run = FALSE
        BY <1>2 DEF EntriesAreSound, EntryIsSound, Entries
      <3>. QED
        BY <1>2, <3>1 DEF Entries, NoEntryAt, Entry
    <2>. HIDE DEF marked
    <2>. QED
      BY <1>2, <2>1, <2>2, <2>3, NoEntryIs
  <1>4. \A id \in held : id \in Forwards /\ runs[id].run /\ runs[id].phase # "none"
                       /\ runs[id].generation \in Generations /\ forwardOf[runs[id].generation] = id
    BY <1>2 DEF Entries, EntriesAreSound, EntryIsSound
  <1>5. TableTyped'
    BY <1>1, <1>3 DEF TableTyped
  <1>6. AwaitTyped'
    BY <1>1, <1>4 DEF AwaitTyped
  <1>7. \A j \in Forwards :
          /\ runs'[j].generation = runs[j].generation /\ runs'[j].run = runs[j].run
          /\ runs'[j].phase = runs[j].phase \/ (runs[j].phase # "none" /\ runs'[j].phase = "stopping")
    BY <1>3
  <1>8. ASSUME NEW g \in Generations
        PROVE  /\ Awaited(g)' => Awaited(g) \/ (IsCurrent(forwardOf[g], g) /\ runs'[forwardOf[g]].phase = "stopping")
               /\ /\ IsCurrent(forwardOf[g], g) /\ runs'[forwardOf[g]].phase = "stopping"
                  /\ runs[forwardOf[g]].phase # "stopping" \/ Awaited(g)
                  => Awaited(g)'
    <2>1. forwardOf[g] \in Forwards
      BY DEF RunsTyped
    <2>2. Awaited(g)' => Awaited(g) \/ g \in shutting'
      BY <1>1 DEF Awaited
    <2>3. g \in shutting' => Awaited(g)'
      BY DEF Awaited
    <2>4. g \in shutting' <=> forwardOf[g] \in held /\ runs[forwardOf[g]].generation = g
      BY <1>1, <1>4
    <2>. QED
      BY <1>3, <1>4, <2>1, <2>2, <2>3, <2>4 DEF IsCurrent
  <1>. QED
    BY <1>1, <1>5, <1>6, <1>7, <1>8, MarkingKeeps

(* What a stop that came back does to the table, as ReleaseKeeps puts it. *)
LEMMA RecordedIs ==
    ASSUME NEW g \in Generations, RecordStopped(g) \/ RecordTimeout(g)
    PROVE  /\ run[g].life \notin {"starting", "serving"}
           /\ \/ IsCurrent(forwardOf[g], g) /\ \E s \in {"stopped", "error"} : Remove(forwardOf[g], s)
              \/ UNCHANGED tableVars
              \/ /\ IsCurrent(forwardOf[g], g) /\ run[g].life = "stopping"
                 /\ UNCHANGED runs /\ states' = [states EXCEPT ![forwardOf[g]] = "error"]
  <1>1. CASE RecordStopped(g)
    BY <1>1 DEF RecordStopped
  <1>2. CASE RecordTimeout(g)
    BY <1>2 DEF RecordTimeout, tableVars
  <1>. QED
    BY <1>1, <1>2

(* Whoever called run.Stop and hears of it, in time or not, *)
LEMMA CollectingKeeps ==
    ASSUME IInv,
           \/ \E s \in Stoppers : StopReturns(s)
           \/ \E g \in Generations : SuspendCollects(g) \/ ShutdownCollects(g) \/ StopFinishes(g)
    PROVE  IInv'
  <1>. RunsTyped /\ AwaitTyped /\ HelpersTyped
    BY TypeParts DEF IInv
  <1>1. ASSUME NEW s \in Stoppers, StopReturns(s) PROVE IInv'
    <2>. DEFINE g == stopOf[s]
    <2>1. g \in Generations
      BY <1>1 DEF StopReturns, AwaitTyped
    <2>2. /\ RecordStopped(g) \/ RecordTimeout(g)
          /\ finisher' = finisher \/ finisher' = [finisher EXCEPT ![g] = "wait"]
          /\ stopOf' = [stopOf EXCEPT ![s] = NoGeneration]
          /\ UNCHANGED <<nextGeneration, forwardOf, run, watcher, pc, mine, suspending, shutting, closing>>
      BY <1>1 DEF StopReturns, FinishLater, startVars
    <2>3. AwaitTyped' /\ HelpersTyped'
      BY <2>2 DEF AwaitTyped, HelpersTyped
    <2>4. \A t \in Stoppers : stopOf'[t] = (IF t = s THEN NoGeneration ELSE stopOf[t])
      BY <2>2 DEF AwaitTyped
    <2>5. \A h \in Generations : (Awaited(h)' => Awaited(h)) /\ (h # g /\ Awaited(h) => Awaited(h)')
      BY <2>2, <2>4 DEF Awaited, Generations, NoGeneration
    <2>. HIDE DEF g
    <2>6. /\ run[g].life \notin {"starting", "serving"}
          /\ \/ IsCurrent(forwardOf[g], g) /\ \E r \in {"stopped", "error"} : Remove(forwardOf[g], r)
             \/ UNCHANGED tableVars
             \/ /\ IsCurrent(forwardOf[g], g) /\ run[g].life = "stopping"
                /\ UNCHANGED runs /\ states' = [states EXCEPT ![forwardOf[g]] = "error"]
      BY <2>1, <2>2, RecordedIs
    <2>. QED
      BY <2>1, <2>2, <2>3, <2>5, <2>6, ReleaseKeeps
  <1>2. ASSUME NEW g \in Generations, SuspendCollects(g) \/ ShutdownCollects(g) \/ StopFinishes(g)
        PROVE  IInv'
    <2>1. /\ RecordStopped(g) \/ RecordTimeout(g)
          /\ UNCHANGED <<nextGeneration, forwardOf, run, watcher, pc, mine, stopOf, closing>>
      BY <1>2 DEF SuspendCollects, ShutdownCollects, StopFinishes, startVars, stopVars
    <2>2. finisher' = finisher \/ \E w \in {"off", "wait"} : finisher' = [finisher EXCEPT ![g] = w]
      BY <1>2 DEF SuspendCollects, ShutdownCollects, StopFinishes, FinishLater
    <2>3. suspending' \in {suspending, suspending \ {g}} /\ shutting' \in {shutting, shutting \ {g}}
      BY <1>2 DEF SuspendCollects, ShutdownCollects, StopFinishes, stopVars
    <2>4. AwaitTyped' /\ HelpersTyped'
      BY <2>1, <2>2, <2>3 DEF AwaitTyped, HelpersTyped
    <2>5. \A h \in Generations : (Awaited(h)' => Awaited(h)) /\ (h # g /\ Awaited(h) => Awaited(h)')
      BY <2>1, <2>3 DEF Awaited
    <2>6. /\ run[g].life \notin {"starting", "serving"}
          /\ \/ IsCurrent(forwardOf[g], g) /\ \E r \in {"stopped", "error"} : Remove(forwardOf[g], r)
             \/ UNCHANGED tableVars
             \/ /\ IsCurrent(forwardOf[g], g) /\ run[g].life = "stopping"
                /\ UNCHANGED runs /\ states' = [states EXCEPT ![forwardOf[g]] = "error"]
      BY <2>1, RecordedIs
    <2>. QED
      BY <2>1, <2>4, <2>5, <2>6, ReleaseKeeps
  <1>. QED
    BY <1>1, <1>2

(* ... and the watcher of a run that is over. *)
LEMMA WatchSeesDoneKeeps ==
    ASSUME IInv, NEW g \in Generations, WatchSeesDone(g)
    PROVE  IInv'
  <1>. RunsTyped /\ AwaitTyped /\ HelpersTyped
    BY TypeParts DEF IInv
  <1>1. /\ watcher[g] = "run" /\ run[g].life \in {"ended", "stopping", "stopped"}
        /\ watcher' = [watcher EXCEPT ![g] = "exit"]
        /\ UNCHANGED <<nextGeneration, forwardOf, run, finisher, pc, mine, stopOf, suspending, shutting, closing>>
    BY DEF WatchSeesDone, startVars, stopVars
  <1>2. \/ IsCurrent(forwardOf[g], g) /\ \E r \in {"stopped", "error"} : Remove(forwardOf[g], r)
        \/ UNCHANGED tableVars
    BY DEF WatchSeesDone
  <1>3. AwaitTyped' /\ HelpersTyped'
    BY <1>1 DEF AwaitTyped, HelpersTyped
  <1>4. \A h \in Generations : watcher'[h] = watcher[h] \/ (watcher[h] # "off" /\ watcher'[h] # "off")
    BY <1>1 DEF HelpersTyped
  <1>5. \A h \in Generations : (Awaited(h)' => Awaited(h)) /\ (h # g /\ Awaited(h) => Awaited(h)')
    BY <1>1 DEF Awaited
  <1>. QED
    BY <1>1, <1>2, <1>3, <1>4, <1>5, ReleaseKeeps

-----------------------------------------------------------------------------
(* A Start that gives its run up removes its own entry, for nobody else can have *)
(* removed it, and keeps the invariant if the run does not serve any more. *)
LEMMA StartEnds ==
    ASSUME IInv, NEW c \in Starters, pc[c] # "idle",
           NEW status \in {"stopped", "error"}, Remove(forwardOf[mine[c]], status),
           pc' = [pc EXCEPT ![c] = "idle"], mine' = [mine EXCEPT ![c] = NoGeneration],
           UNCHANGED <<nextGeneration, forwardOf, watcher, finisher, stopOf, suspending, shutting, closing>>,
           RunsTyped', \A h \in Generations \ {mine[c]} : run'[h] = run[h],
           run'[mine[c]].life \notin {"starting", "serving", "ended"},
           \/ run'[mine[c]] = run[mine[c]]
           \/ /\ run[mine[c]].life \in Unserved
              /\ Reads(run'[mine[c]], "failed", run[mine[c]].link, run[mine[c]].events, run[mine[c]].lost)
    PROVE  IInv'
  <1>. TableTyped /\ RunsTyped /\ StartTyped /\ AwaitTyped /\ HelpersTyped
    BY TypeParts DEF IInv
  <1>. DEFINE g  == mine[c]
              id == forwardOf[g]
  <1>. StartIsSound(c)
    BY DEF IInv, StartsAreSound
  <1>1. g \in Generations /\ g # NoGeneration /\ g <= nextGeneration /\ id \in Forwards
    BY DEF StartIsSound, StartTyped, RunsTyped, Generations, NoGeneration
  <1>2. runs[id].generation = g /\ ~runs[id].run
    BY DEF StartIsSound
  <1>3. /\ TableTyped'
        /\ runs'[id].generation = NoGeneration /\ runs'[id].phase = "none" /\ ~runs'[id].run
        /\ states'[id] \in {"stopped", "error"}
        /\ \A j \in Forwards \ {id} : runs'[j] = runs[j] /\ states'[j] = states[j]
    BY <1>1, RemoveIs
  <1>4. /\ pc'[c] = "idle" /\ mine'[c] = NoGeneration
        /\ \A d \in Starters \ {c} : pc'[d] = pc[d] /\ mine'[d] = mine[d]
    BY DEF StartTyped
  <1>5. StartTyped'
    BY DEF StartTyped
  <1>6. TypeOK'
    BY <1>3, <1>5, TypeParts DEF AwaitTyped, HelpersTyped
  <1>7. \A h \in Generations : Awaited(h)' = Awaited(h) /\ (InStart(h)' => InStart(h))
                             /\ (h # g => InStart(h)' = InStart(h))
    BY <1>4 DEF Awaited, InStart, NoGeneration, Generations
  <1>. HIDE DEF g, id
  <1>8. EntriesAreSound'
    <2>. SUFFICES ASSUME NEW j \in Forwards PROVE EntryIsSound(j)'
      BY DEF EntriesAreSound
    <2>1. EntryIsSound(j)
      BY DEF IInv, EntriesAreSound
    <2>2. CASE j = id
      BY <1>3, <2>2 DEF EntryIsSound, StartTyped, NoGeneration
    <2>3. CASE j # id
      <3>1. runs[j].generation # NoGeneration => runs[j].generation \in Generations /\ runs[j].generation # g
        BY <2>1, <2>3 DEF EntryIsSound, TableTyped, Entries, id
      <3>2. runs'[j] = runs[j]
        BY <1>3, <2>3
      <3>. QED
        BY <1>7, <2>1, <3>1, <3>2 DEF EntryIsSound
    <2>. QED
      BY <2>2, <2>3
  <1>9. StartsAreSound'
    <2>. SUFFICES ASSUME NEW d \in Starters PROVE StartIsSound(d)'
      BY DEF StartsAreSound
    <2>1. StartIsSound(d)
      BY DEF IInv, StartsAreSound
    <2>2. CASE d = c
      BY <1>4, <2>2 DEF StartIsSound, StartTyped, NoGeneration
    <2>3. CASE d # c
      <3>1. pc[d] # "idle" => /\ mine[d] \in Generations /\ mine[d] # g /\ mine[d] # NoGeneration
                              /\ forwardOf[mine[d]] \in Forwards \ {id}
        <4>1. pc[d] # "idle" => mine[d] \in Generations /\ mine[d] # g /\ mine[d] # NoGeneration
          BY <2>1, <2>3 DEF StartIsSound, StartTyped, g
        <4>. QED
          BY <1>2, <2>1, <4>1 DEF StartIsSound, RunsTyped
      <3>2. pc'[d] = pc[d] /\ mine'[d] = mine[d]
        BY <1>4, <2>3
      <3>3. pc[d] # "idle" => /\ runs'[forwardOf[mine[d]]] = runs[forwardOf[mine[d]]]
                              /\ run'[mine[d]] = run[mine[d]]
        BY <1>3, <3>1 DEF g
      <3>4. ASSUME NEW e \in Starters, pc[d] # "idle", mine'[e] = mine'[d] PROVE e = d
        BY <1>4, <2>1, <3>1, <3>2, <3>4 DEF StartIsSound
      <3>. QED
        BY <2>1, <3>1, <3>2, <3>3, <3>4 DEF StartIsSound
    <2>. QED
      BY <2>2, <2>3
  <1>10. RunsAreSound'
    <2>. SUFFICES ASSUME NEW h \in Generations
                  PROVE  RunIsSound(h)' /\ EventsTell(h)' /\ StatusFollows(h)'
      BY DEF RunsAreSound
    <2>1. RunIsSound(h) /\ EventsTell(h) /\ StatusFollows(h)
      BY DEF IInv, RunsAreSound
    <2>2. forwardOf[h] \in Forwards /\ h # NoGeneration
      BY DEF RunsTyped, Generations, NoGeneration
    <2>3. IsCurrent(forwardOf[h], h)' => /\ IsCurrent(forwardOf[h], h) /\ h # g
                                         /\ runs'[forwardOf[h]] = runs[forwardOf[h]]
                                         /\ states'[forwardOf[h]] = states[forwardOf[h]]
      BY <1>2, <1>3, <2>2 DEF IsCurrent, id
    <2>4. CASE h = g
      <3>1. /\ ~IsCurrent(forwardOf[h], h)' /\ ~(h > nextGeneration)
            /\ run'[h].life \notin {"starting", "serving", "ended"}
        <4>1. ~(h > nextGeneration)
          BY <1>1, <2>4 DEF StartTyped, Generations
        <4>. QED
          BY <2>3, <2>4, <4>1 DEF g
      <3>2. run'[h].life \in Unserved =>
              /\ run[h].life \in Unserved
              /\ run'[h].link = run[h].link /\ run'[h].events = run[h].events /\ run'[h].lost = run[h].lost
        BY <2>4 DEF g, Reads, Unserved
      <3>3. RunIsSound(h)'
        BY <1>7, <2>1, <2>3, <3>1, <3>2 DEF RunIsSound
      <3>. QED
        BY <3>1, <3>3 DEF EventsTell, StatusFollows, Live
    <2>5. CASE h # g
      <3>1. run'[h] = run[h]
        BY <2>5 DEF g
      <3>2. run[h].life \in {"starting", "serving"} => runs'[forwardOf[h]] = runs[forwardOf[h]]
        BY <1>2, <1>3, <2>1, <2>2, <2>5 DEF RunIsSound
      <3>3. RunIsSound(h)'
        BY <1>7, <2>1, <2>3, <2>5, <3>1, <3>2 DEF RunIsSound
      <3>. QED
        BY <2>1, <2>3, <3>1, <3>3 DEF EventsTell, StatusFollows
    <2>. QED
      BY <2>4, <2>5
  <1>11. StatusMatchesTable'
    BY <1>3 DEF IInv, StatusMatchesTable
  <1>. QED
    BY <1>6, <1>8, <1>9, <1>10, <1>11 DEF IInv

(* The three ways a Start ends without a run. *)
LEMMA GivingUpKeeps ==
    ASSUME IInv, NEW c \in Starters, LoadFails(c) \/ RunStartFails(c) \/ Settle(c)
    PROVE  IInv'
  <1>. RunsTyped /\ StartTyped /\ StartIsSound(c) /\ RunsAreSound
    BY TypeParts DEF IInv, StartsAreSound
  <1>1. pc[c] # "idle"
    BY DEF LoadFails, RunStartFails, Settle
  <1>2. /\ mine[c] \in Generations /\ runs[forwardOf[mine[c]]].generation = mine[c]
        /\ ~runs[forwardOf[mine[c]]].run
    BY <1>1 DEF StartIsSound, StartTyped
  <1>3. run[mine[c]] \in Runs
    BY <1>2 DEF RunsTyped
  <1>4. CASE LoadFails(c)
    <2>1. /\ Remove(forwardOf[mine[c]], "error") /\ run' = run
          /\ pc' = [pc EXCEPT ![c] = "idle"] /\ mine' = [mine EXCEPT ![c] = NoGeneration]
          /\ UNCHANGED <<nextGeneration, forwardOf, watcher, finisher, stopOf, suspending, shutting, closing>>
      BY <1>2, <1>4 DEF LoadFails, FinishStartFailure, OwnsEntry, stopVars
    <2>2. RunsTyped' /\ run[mine[c]].life = "none"
      BY <1>4, <2>1 DEF LoadFails, StartIsSound, RunsTyped
    <2>. QED
      BY <1>1, <2>1, <2>2, StartEnds
  <1>5. CASE RunStartFails(c)
    <2>1. /\ Remove(forwardOf[mine[c]], "error") /\ Becomes(mine[c], ReturnError(run[mine[c]]))
          /\ pc' = [pc EXCEPT ![c] = "idle"] /\ mine' = [mine EXCEPT ![c] = NoGeneration]
          /\ UNCHANGED <<nextGeneration, forwardOf, watcher, finisher, stopOf, suspending, shutting, closing>>
      BY <1>2, <1>5 DEF RunStartFails, FinishStartFailure, OwnsEntry, stopVars
    <2>2. /\ ReturnError(run[mine[c]]) \in Runs
          /\ Reads(ReturnError(run[mine[c]]), "failed", run[mine[c]].link, run[mine[c]].events, run[mine[c]].lost)
      BY <1>3, LifeMoves
    <2>3. run[mine[c]].life = "starting"
      BY <1>5 DEF RunStartFails, StartIsSound
    <2>4. /\ RunsTyped' /\ run'[mine[c]] = ReturnError(run[mine[c]])
          /\ \A h \in Generations \ {mine[c]} : run'[h] = run[h]
      BY <1>2, <2>1, <2>2 DEF Becomes, RunsTyped
    <2>5. run'[mine[c]].life \notin {"starting", "serving", "ended"} /\ run[mine[c]].life \in Unserved
      BY <2>2, <2>3, <2>4 DEF Reads, Unserved
    <2>6. Reads(run'[mine[c]], "failed", run[mine[c]].link, run[mine[c]].events, run[mine[c]].lost)
      BY <2>2, <2>4
    <2>. QED
      BY <1>1, <2>1, <2>4, <2>5, <2>6, StartEnds
  <1>6. CASE Settle(c)
    <2>1. PICK status \in {"stopped", "error"} : Remove(forwardOf[mine[c]], status)
      BY <1>2, <1>6 DEF Settle
    <2>2. /\ run' = run
          /\ pc' = [pc EXCEPT ![c] = "idle"] /\ mine' = [mine EXCEPT ![c] = NoGeneration]
          /\ UNCHANGED <<nextGeneration, forwardOf, watcher, finisher, stopOf, suspending, shutting, closing>>
          /\ run[mine[c]].life \in {"stopping", "stopped"}
      BY <1>6 DEF Settle, stopVars
    <2>3. RunsTyped'
      BY <2>2 DEF RunsTyped
    <2>. QED
      BY <1>1, <2>1, <2>2, <2>3, StartEnds
  <1>. QED
    BY <1>4, <1>5, <1>6

(* A Start that goes on leaves the table alone. *)
LEMMA StartGoesOn ==
    ASSUME IInv, NEW c \in Starters, RunBegins(c) \/ RunStartReturns(c) \/ GiveUp(c)
    PROVE  IInv'
  <1>. TableTyped /\ RunsTyped /\ StartTyped /\ AwaitTyped /\ HelpersTyped /\ StartIsSound(c)
    BY TypeParts DEF IInv, StartsAreSound
  <1>. DEFINE g == mine[c]
  <1>1. pc[c] # "idle"
    BY DEF RunBegins, RunStartReturns, GiveUp
  <1>2. /\ g \in Generations /\ g # NoGeneration /\ g <= nextGeneration
        /\ runs[forwardOf[g]].generation = g /\ ~runs[forwardOf[g]].run
        /\ watcher[g] = "off" /\ forwardOf[g] \in Forwards
    BY <1>1 DEF StartIsSound, StartTyped, RunsTyped, Generations, NoGeneration
  <1>3. RunIsSound(g) /\ EventsTell(g)
    BY <1>2 DEF IInv, RunsAreSound
  <1>4. UNCHANGED <<runs, states, nextGeneration, forwardOf, watcher, finisher, mine, stopOf,
                    suspending, shutting, closing>>
    BY DEF RunBegins, RunStartReturns, GiveUp, tableVars, stopVars
  <1>5. /\ RunsTyped' /\ \A h \in Generations \ {g} : run'[h] = run[h]
        /\ \/ /\ pc[c] = "load" /\ pc' = [pc EXCEPT ![c] = "start"]
              /\ Reads(run'[g], "starting", run[g].link, run[g].events, run[g].lost)
              /\ run[g].life = "none"
           \/ /\ pc[c] = "start" /\ pc' = [pc EXCEPT ![c] = "publish"]
              /\ Reads(run'[g], "serving", "up", run[g].events, run[g].lost)
              /\ run[g].life = "starting"
           \/ /\ pc[c] = "publish" /\ pc' = [pc EXCEPT ![c] = "settle"]
              /\ run' = run /\ run[g].life \in Live
    <2>1. run[g] \in Runs
      BY <1>2 DEF RunsTyped
    <2>2. CASE RunBegins(c)
      <3>1. Begin(run[g]) \in Runs /\ Reads(Begin(run[g]), "starting", run[g].link, run[g].events, run[g].lost)
        BY <2>1, LifeMoves
      <3>2. pc[c] = "load" /\ pc' = [pc EXCEPT ![c] = "start"] /\ Becomes(g, Begin(run[g]))
        BY <2>2 DEF RunBegins
      <3>3. run[g].life = "none"
        BY <3>2 DEF StartIsSound
      <3>. QED
        BY <1>2, <1>4, <3>1, <3>2, <3>3 DEF Becomes, RunsTyped
    <2>3. CASE RunStartReturns(c)
      <3>1. ReturnServing(run[g]) \in Runs /\ Reads(ReturnServing(run[g]), "serving", "up", run[g].events, run[g].lost)
        BY <2>1, LinkMoves
      <3>2. pc[c] = "start" /\ pc' = [pc EXCEPT ![c] = "publish"] /\ Becomes(g, ReturnServing(run[g]))
        BY <2>3 DEF RunStartReturns
      <3>3. run[g].life = "starting"
        BY <3>2 DEF StartIsSound
      <3>. QED
        BY <1>2, <1>4, <3>1, <3>2, <3>3 DEF Becomes, RunsTyped
    <2>4. CASE GiveUp(c)
      BY <1>4, <2>4 DEF GiveUp, StartIsSound, RunsTyped
    <2>. QED
      BY <2>2, <2>3, <2>4
  <1>6. StartTyped'
    BY <1>4, <1>5 DEF StartTyped
  <1>7. TypeOK'
    BY <1>4, <1>5, <1>6, TypeParts DEF TableTyped, AwaitTyped, HelpersTyped
  <1>8. EntriesAreSound'
    BY <1>4, EntriesUntouched DEF IInv
  <1>9. pc'[c] \in {"start", "publish", "settle"} /\ \A d \in Starters \ {c} : pc'[d] = pc[d]
    BY <1>5 DEF StartTyped
  <1>10. StartsAreSound'
    <2>. SUFFICES ASSUME NEW d \in Starters PROVE StartIsSound(d)'
      BY DEF StartsAreSound
    <2>1. StartIsSound(d)
      BY DEF IInv, StartsAreSound
    <2>2. CASE d = c
      <3>1. /\ pc'[c] = "start" => run'[mine[c]].life = "starting"
            /\ pc'[c] = "publish" => run'[mine[c]].life \in Live
            /\ pc'[c] = "settle" => run'[mine[c]].life \notin Unserved
        BY <1>5 DEF StartTyped, Reads, Live, Unserved
      <3>. QED
        BY <1>1, <1>2, <1>4, <1>9, <2>1, <2>2, <3>1 DEF StartIsSound
    <2>3. CASE d # c
      <3>1. pc[d] # "idle" => mine[d] \in Generations /\ mine[d] # g
        BY <2>1, <2>3 DEF StartIsSound, StartTyped
      <3>2. pc[d] # "idle" => run'[mine[d]] = run[mine[d]]
        BY <1>5, <3>1
      <3>3. pc'[d] = pc[d]
        BY <1>9, <2>3
      <3>. QED
        BY <1>4, <2>1, <3>2, <3>3 DEF StartIsSound
    <2>. QED
      BY <2>2, <2>3
  <1>11. RunsAreSound'
    <2>. SUFFICES ASSUME NEW h \in Generations
                  PROVE  RunIsSound(h)' /\ EventsTell(h)' /\ StatusFollows(h)'
      BY DEF RunsAreSound
    <2>1. RunIsSound(h) /\ EventsTell(h) /\ StatusFollows(h)
      BY DEF IInv, RunsAreSound
    <2>2. /\ Awaited(h)' = Awaited(h) /\ InStart(h)' = InStart(h)
          /\ IsCurrent(forwardOf[h], h)' = IsCurrent(forwardOf[h], h)
      BY <1>4 DEF Awaited, InStart, IsCurrent
    <2>3. CASE run'[h] = run[h]
      BY <1>4, <2>1, <2>2, <2>3 DEF RunIsSound, EventsTell, StatusFollows
    <2>4. CASE h = g /\ run'[h] # run[h]
      <3>1. ~IsCurrent(forwardOf[h], h)'
        BY <1>2, <2>2, <2>4 DEF IsCurrent
      <3>2. run[h].life \in Unserved
        BY <1>5, <2>4 DEF Unserved
      <3>3. run[h].link = "off" /\ run[h].events = <<>> /\ ~run[h].lost /\ watcher[h] = "off" /\ ~Awaited(h)
        BY <2>1, <3>2 DEF RunIsSound
      <3>4. /\ run'[h].life \in {"starting", "serving"} /\ run'[h].events = <<>> /\ ~run'[h].lost
            /\ run'[h].life = "starting" => run'[h].link = "off"
            /\ run'[h].life = "serving" => run'[h].link = "up"
        BY <1>5, <2>4, <3>3 DEF Reads
      <3>5. runs'[forwardOf'[h]].generation = h /\ ~(h > nextGeneration') /\ watcher'[h] = "off" /\ ~Awaited(h)'
        BY <1>2, <1>4, <2>2, <2>4, <3>3 DEF StartTyped, Generations
      <3>6. RunIsSound(h)'
        BY <3>1, <3>4, <3>5 DEF RunIsSound, Unserved
      <3>7. EventsTell(h)' /\ StatusFollows(h)'
        BY <3>1, <3>4 DEF EventsTell, StatusFollows, Live
      <3>. QED
        BY <3>6, <3>7
    <2>. QED
      BY <1>5, <2>3, <2>4
  <1>12. StatusMatchesTable'
    BY <1>4 DEF IInv, StatusMatchesTable
  <1>. QED
    BY <1>7, <1>8, <1>10, <1>11, <1>12 DEF IInv

(* A Start registers only where no entry is, and names a run nobody used. *)
LEMMA RegisteringKeeps ==
    ASSUME IInv, NEW c \in Starters, NEW id \in Forwards, StartRegisters(c, id)
    PROVE  IInv'
  <1>. TableTyped /\ RunsTyped /\ StartTyped /\ AwaitTyped /\ HelpersTyped
    BY TypeParts DEF IInv
  <1>1. PICK g \in Generations :
          /\ g = nextGeneration + 1 /\ nextGeneration' = g
          /\ forwardOf' = [forwardOf EXCEPT ![g] = id]
          /\ runs' = [runs EXCEPT ![id] = Entry(g, "starting", FALSE)]
          /\ pc' = [pc EXCEPT ![c] = "load"] /\ mine' = [mine EXCEPT ![c] = g]
          /\ UNCHANGED <<states, run, watcher, finisher, stopOf, suspending, shutting, closing>>
    BY DEF StartRegisters, stopVars
  <1>2. pc[c] = "idle" /\ runs[id] = NoEntryAt
    BY DEF StartRegisters, IsFree
  <1>3. runs[id].generation = NoGeneration /\ runs[id].phase = "none" /\ runs[id].run = FALSE
    BY <1>2, NoEntryIs
  <1>4. /\ runs'[id].generation = g /\ runs'[id].phase = "starting" /\ runs'[id].run = FALSE
        /\ runs'[id] \in Entries
        /\ \A j \in Forwards \ {id} : runs'[j] = runs[j]
    <2>1. /\ Entry(g, "starting", FALSE) \in Entries /\ Entry(g, "starting", FALSE).generation = g
          /\ Entry(g, "starting", FALSE).phase = "starting" /\ Entry(g, "starting", FALSE).run = FALSE
      BY DEF Entry, Entries
    <2>2. runs'[id] = Entry(g, "starting", FALSE) /\ \A j \in Forwards \ {id} : runs'[j] = runs[j]
      BY <1>1 DEF TableTyped
    <2>. QED
      BY <2>1, <2>2
  <1>5. forwardOf'[g] = id /\ \A h \in Generations \ {g} : forwardOf'[h] = forwardOf[h]
    BY <1>1 DEF RunsTyped
  <1>6. /\ pc'[c] = "load" /\ mine'[c] = g
        /\ \A d \in Starters \ {c} : pc'[d] = pc[d] /\ mine'[d] = mine[d]
    BY <1>1 DEF StartTyped
  <1>7. g > nextGeneration /\ g # NoGeneration /\ nextGeneration \in Nat /\ g \in 0..nextGeneration'
    BY <1>1 DEF StartTyped, NoGeneration
  <1>8. mine[c] = NoGeneration
    BY <1>2 DEF IInv, StartsAreSound, StartIsSound
  <1>9. run[g].life = "none" /\ RunIsSound(g) /\ ~Awaited(g) /\ watcher[g] = "off"
    BY <1>7 DEF IInv, RunsAreSound, RunIsSound, Unserved
  <1>10. \A h \in Generations : Awaited(h)' = Awaited(h) /\ (h # g => InStart(h)' = InStart(h))
    BY <1>1, <1>6, <1>8 DEF Awaited, InStart, NoGeneration, Generations
  <1>11. TypeOK'
    <2>1. TableTyped'
      <3>. HIDE DEF Entries
      <3>1. Entry(g, "starting", FALSE) \in Entries
        BY EntryIs
      <3>. QED
        BY <1>1, <3>1 DEF TableTyped
    <2>2. RunsTyped' /\ AwaitTyped' /\ HelpersTyped'
      BY <1>1 DEF RunsTyped, AwaitTyped, HelpersTyped
    <2>3. StartTyped'
      BY <1>1 DEF StartTyped, Generations
    <2>. QED
      BY <2>1, <2>2, <2>3, TypeParts
  <1>12. EntriesAreSound'
    <2>. SUFFICES ASSUME NEW j \in Forwards PROVE EntryIsSound(j)'
      BY DEF EntriesAreSound
    <2>1. EntryIsSound(j)
      BY DEF IInv, EntriesAreSound
    <2>2. CASE j = id
      <3>1. InStart(runs[j].generation)'
        BY <1>4, <1>6, <2>2 DEF InStart
      <3>2. runs'[j].generation = g /\ g \in 0..nextGeneration' /\ forwardOf'[g] = j
        BY <1>4, <1>5, <1>7, <2>2
      <3>. QED
        BY <1>4, <1>7, <2>2, <3>1, <3>2 DEF EntryIsSound
    <2>3. CASE j # id
      <3>1. runs'[j] = runs[j]
        BY <1>4, <2>3
      <3>2. runs[j].generation # NoGeneration => runs[j].generation \in Generations \ {g}
        BY <1>7, <2>1 DEF EntryIsSound, TableTyped, Entries
      <3>3. runs[j].generation \in 0..nextGeneration'
        BY <1>1, <1>7, <2>1 DEF EntryIsSound
      <3>. QED
        BY <1>5, <1>10, <2>1, <3>1, <3>2, <3>3 DEF EntryIsSound
    <2>. QED
      BY <2>2, <2>3
  <1>13. StartsAreSound'
    <2>. SUFFICES ASSUME NEW d \in Starters PROVE StartIsSound(d)'
      BY DEF StartsAreSound
    <2>1. StartIsSound(d)
      BY DEF IInv, StartsAreSound
    <2>2. \A e \in Starters : mine[e] # g
      BY <1>7 DEF IInv, StartsAreSound, StartIsSound
    <2>3. CASE d = c
      <3>1. \A e \in Starters : mine'[e] = g => e = c
        BY <1>6, <2>2
      <3>. QED
        <4>1. /\ pc'[d] = "load" /\ mine'[d] = g /\ g \in 0..nextGeneration' /\ g # NoGeneration
              /\ forwardOf'[g] = id /\ watcher'[g] = "off" /\ run'[g].life = "none"
          BY <1>1, <1>5, <1>6, <1>7, <1>9, <2>3
        <4>2. runs'[id].generation = g /\ ~runs'[id].run
          BY <1>4
        <4>. QED
          BY <2>3, <3>1, <4>1, <4>2 DEF StartIsSound
    <2>4. CASE d # c
      <3>1. pc'[d] = pc[d] /\ mine'[d] = mine[d] /\ mine[d] \in 0..nextGeneration'
        BY <1>1, <1>6, <1>7, <2>1, <2>4 DEF StartIsSound
      <3>2. pc[d] # "idle" => /\ mine[d] \in Generations /\ mine[d] # g /\ mine[d] # NoGeneration
                              /\ forwardOf'[mine[d]] = forwardOf[mine[d]]
                              /\ forwardOf[mine[d]] \in Forwards \ {id}
        <4>1. pc[d] # "idle" => mine[d] \in Generations /\ mine[d] # g /\ mine[d] # NoGeneration
          BY <2>1, <2>2 DEF StartIsSound, StartTyped
        <4>. QED
          BY <1>3, <1>5, <2>1, <4>1 DEF StartIsSound, RunsTyped
      <3>3. ASSUME NEW e \in Starters, pc[d] # "idle", mine'[e] = mine[d] PROVE e = d
        BY <1>6, <2>1, <3>2, <3>3 DEF StartIsSound
      <3>. QED
        BY <1>1, <1>4, <2>1, <3>1, <3>2, <3>3 DEF StartIsSound
    <2>. QED
      BY <2>3, <2>4
  <1>14. RunsAreSound'
    <2>. SUFFICES ASSUME NEW h \in Generations
                  PROVE  RunIsSound(h)' /\ EventsTell(h)' /\ StatusFollows(h)'
      BY DEF RunsAreSound
    <2>1. RunIsSound(h) /\ EventsTell(h) /\ StatusFollows(h)
      BY DEF IInv, RunsAreSound
    <2>2. CASE h = g
      <3>1. ~IsCurrent(forwardOf[h], h)'
        BY <1>4, <1>5, <2>2 DEF IsCurrent
      <3>2. RunIsSound(h)'
        BY <1>1, <1>9, <1>10, <2>1, <2>2, <3>1 DEF RunIsSound, Unserved
      <3>. QED
        BY <1>1, <1>9, <2>2, <3>1, <3>2 DEF EventsTell, StatusFollows, Live
    <2>3. CASE h # g
      <3>1. forwardOf'[h] = forwardOf[h] /\ forwardOf[h] \in Forwards /\ h # NoGeneration
        BY <1>5, <2>3 DEF RunsTyped, Generations, NoGeneration
      <3>2. CASE forwardOf[h] # id
        <4>1. runs'[forwardOf[h]] = runs[forwardOf[h]]
          BY <1>4, <3>1, <3>2
        <4>2. IsCurrent(forwardOf[h], h)' = IsCurrent(forwardOf[h], h)
          BY <3>1, <4>1 DEF IsCurrent
        <4>3. h > nextGeneration' => h > nextGeneration
          BY <1>1, <1>7 DEF Generations
        <4>4. RunIsSound(h)'
          BY <1>1, <1>10, <2>1, <2>3, <3>1, <4>1, <4>2, <4>3 DEF RunIsSound
        <4>. QED
          BY <1>1, <2>1, <3>1, <4>1, <4>2, <4>4 DEF EventsTell, StatusFollows
      <3>3. CASE forwardOf[h] = id
        <4>1. ~IsCurrent(forwardOf[h], h)' /\ run[h].life \notin {"starting", "serving"}
          BY <1>3, <1>4, <2>1, <2>3, <3>1, <3>3 DEF IsCurrent, RunIsSound
        <4>2. h > nextGeneration' => h > nextGeneration
          BY <1>1, <1>7 DEF Generations
        <4>3. RunIsSound(h)'
          BY <1>1, <1>10, <2>1, <2>3, <4>1, <4>2 DEF RunIsSound
        <4>. QED
          BY <1>1, <2>1, <4>1, <4>3 DEF EventsTell, StatusFollows
      <3>. QED
        BY <3>2, <3>3
    <2>. QED
      BY <2>2, <2>3
  <1>15. StatusMatchesTable'
    BY <1>1, <1>3, <1>4 DEF IInv, StatusMatchesTable
  <1>. QED
    BY <1>11, <1>12, <1>13, <1>14, <1>15 DEF IInv

(* Publishing hands the entry over: the run has not been stopped yet, and its *)
(* chain is still as the events nobody read say. *)
LEMMA PublishingKeeps ==
    ASSUME IInv, NEW c \in Starters, Publish(c)
    PROVE  IInv'
  <1>. TableTyped /\ RunsTyped /\ StartTyped /\ AwaitTyped /\ HelpersTyped /\ StartIsSound(c)
    BY TypeParts DEF IInv, StartsAreSound
  <1>1. PICK g \in Generations : g = mine[c]
    BY DEF Publish, StartIsSound, StartTyped
  <1>2. PICK id \in Forwards : id = forwardOf[g]
    BY DEF RunsTyped
  <1>3. /\ pc[c] = "publish"
        /\ runs' = [runs EXCEPT ![id] = Entry(g, "running", TRUE)]
        /\ states' = [states EXCEPT ![id] = "running"]
        /\ watcher' = [watcher EXCEPT ![g] = "begin"]
        /\ pc' = [pc EXCEPT ![c] = "idle"] /\ mine' = [mine EXCEPT ![c] = NoGeneration]
        /\ UNCHANGED <<nextGeneration, forwardOf, run, finisher, stopOf, suspending, shutting, closing>>
    BY <1>1, <1>2 DEF Publish, stopVars
  <1>4. /\ g # NoGeneration /\ g \in 0..nextGeneration /\ runs[id].generation = g /\ ~runs[id].run
        /\ watcher[g] = "off" /\ run[g].life \in Live
        /\ \A d \in Starters : mine[d] = g => d = c
    BY <1>1, <1>2, <1>3 DEF StartIsSound
  <1>5. RunIsSound(g) /\ EventsTell(g)
    BY DEF IInv, RunsAreSound
  <1>6. ~Awaited(g)
    BY <1>1, <1>5 DEF RunIsSound, InStart
  <1>7. /\ runs'[id].generation = g /\ runs'[id].phase = "running" /\ runs'[id].run = TRUE
        /\ states'[id] = "running"
        /\ \A j \in Forwards \ {id} : runs'[j] = runs[j] /\ states'[j] = states[j]
    <2>1. /\ Entry(g, "running", TRUE).generation = g
          /\ Entry(g, "running", TRUE).phase = "running" /\ Entry(g, "running", TRUE).run = TRUE
      BY EntryIs
    <2>2. /\ runs'[id] = Entry(g, "running", TRUE) /\ states'[id] = "running"
          /\ \A j \in Forwards \ {id} : runs'[j] = runs[j] /\ states'[j] = states[j]
      BY <1>3 DEF TableTyped
    <2>. QED
      BY <2>1, <2>2
  <1>8. watcher'[g] = "begin" /\ \A h \in Generations \ {g} : watcher'[h] = watcher[h]
    BY <1>3 DEF HelpersTyped
  <1>9. /\ pc'[c] = "idle" /\ mine'[c] = NoGeneration
        /\ \A d \in Starters \ {c} : pc'[d] = pc[d] /\ mine'[d] = mine[d]
    BY <1>3 DEF StartTyped
  <1>10. \A h \in Generations : Awaited(h)' = Awaited(h) /\ (h # g => InStart(h)' = InStart(h))
    BY <1>1, <1>3, <1>9 DEF Awaited, InStart, NoGeneration, Generations
  <1>11. TypeOK'
    <2>1. TableTyped'
      <3>. HIDE DEF Entries
      <3>1. Entry(g, "running", TRUE) \in Entries
        BY EntryIs
      <3>. QED
        BY <1>3, <3>1 DEF TableTyped
    <2>2. RunsTyped' /\ AwaitTyped' /\ HelpersTyped'
      BY <1>3 DEF RunsTyped, AwaitTyped, HelpersTyped
    <2>3. StartTyped'
      BY <1>3 DEF StartTyped
    <2>. QED
      BY <2>1, <2>2, <2>3, TypeParts
  <1>12. EntriesAreSound'
    <2>. SUFFICES ASSUME NEW j \in Forwards PROVE EntryIsSound(j)'
      BY DEF EntriesAreSound
    <2>1. EntryIsSound(j)
      BY DEF IInv, EntriesAreSound
    <2>2. CASE j = id
      BY <1>2, <1>3, <1>4, <1>7, <2>2 DEF EntryIsSound
    <2>3. CASE j # id
      <3>1. runs'[j] = runs[j]
        BY <1>7, <2>3
      <3>2. runs[j].generation # NoGeneration => runs[j].generation \in Generations \ {g}
        BY <1>2, <2>1, <2>3 DEF EntryIsSound, TableTyped, Entries
      <3>. QED
        BY <1>3, <1>10, <2>1, <3>1, <3>2 DEF EntryIsSound
    <2>. QED
      BY <2>2, <2>3
  <1>13. StartsAreSound'
    <2>. SUFFICES ASSUME NEW d \in Starters PROVE StartIsSound(d)'
      BY DEF StartsAreSound
    <2>1. StartIsSound(d)
      BY DEF IInv, StartsAreSound
    <2>2. CASE d = c
      BY <1>3, <1>9, <2>2 DEF StartIsSound, StartTyped, NoGeneration
    <2>3. CASE d # c
      <3>1. pc'[d] = pc[d] /\ mine'[d] = mine[d]
        BY <1>9, <2>3
      <3>2. pc[d] # "idle" => /\ mine[d] \in Generations /\ mine[d] # g /\ mine[d] # NoGeneration
                              /\ forwardOf[mine[d]] \in Forwards \ {id}
        <4>1. pc[d] # "idle" => mine[d] \in Generations /\ mine[d] # g /\ mine[d] # NoGeneration
          BY <1>4, <2>1, <2>3 DEF StartIsSound, StartTyped
        <4>. QED
          BY <1>4, <2>1, <4>1 DEF StartIsSound, RunsTyped
      <3>3. ASSUME NEW e \in Starters, pc[d] # "idle", mine'[e] = mine[d] PROVE e = d
        BY <1>9, <2>1, <3>2, <3>3 DEF StartIsSound
      <3>4. pc[d] # "idle" => /\ runs'[forwardOf[mine[d]]] = runs[forwardOf[mine[d]]]
                              /\ watcher'[mine[d]] = watcher[mine[d]]
        BY <1>7, <1>8, <3>2
      <3>. QED
        BY <1>3, <2>1, <3>1, <3>3, <3>4 DEF StartIsSound
    <2>. QED
      BY <2>2, <2>3
  <1>14. RunsAreSound'
    <2>. SUFFICES ASSUME NEW h \in Generations
                  PROVE  RunIsSound(h)' /\ EventsTell(h)' /\ StatusFollows(h)'
      BY DEF RunsAreSound
    <2>1. RunIsSound(h) /\ EventsTell(h) /\ StatusFollows(h)
      BY DEF IInv, RunsAreSound
    <2>2. CASE h = g
      <3>1. RunIsSound(h)'
        <4>1. runs'[forwardOf'[h]].generation = h /\ ~Awaited(h)' /\ runs'[forwardOf'[h]].phase = "running"
          BY <1>2, <1>3, <1>6, <1>7, <1>10, <2>2
        <4>2. run'[h].life \in Live /\ ~(h > nextGeneration')
          BY <1>3, <1>4, <2>2 DEF StartTyped
        <4>. QED
          BY <4>1, <4>2 DEF RunIsSound, Live, Unserved
      <3>2. EventsTell(h)'
        BY <1>3, <1>8, <2>1, <2>2 DEF EventsTell
      <3>3. StatusFollows(h)'
        BY <1>2, <1>3, <1>4, <1>5, <1>7, <2>2 DEF EventsTell, StatusFollows
      <3>. QED
        BY <3>1, <3>2, <3>3
    <2>3. CASE h # g
      <3>1. /\ forwardOf[h] = id => ~IsCurrent(forwardOf[h], h)' /\ ~IsCurrent(forwardOf[h], h)
            /\ forwardOf[h] # id => /\ runs'[forwardOf[h]] = runs[forwardOf[h]]
                                    /\ states'[forwardOf[h]] = states[forwardOf[h]]
                                    /\ IsCurrent(forwardOf[h], h)' = IsCurrent(forwardOf[h], h)
        <4>1. forwardOf[h] \in Forwards /\ forwardOf'[h] = forwardOf[h]
          BY <1>3 DEF RunsTyped
        <4>. QED
          BY <1>4, <1>7, <2>3, <4>1 DEF IsCurrent
      <3>2. run[h].life \in {"starting", "serving"} => forwardOf[h] # id
        BY <1>4, <2>1, <2>3 DEF RunIsSound
      <3>3. watcher'[h] = watcher[h]
        BY <1>8, <2>3
      <3>4. RunIsSound(h)'
        BY <1>3, <1>10, <2>1, <2>3, <3>1, <3>2, <3>3 DEF RunIsSound
      <3>. QED
        BY <1>3, <2>1, <3>1, <3>3, <3>4 DEF EventsTell, StatusFollows
    <2>. QED
      BY <2>2, <2>3
  <1>15. StatusMatchesTable'
    BY <1>7 DEF IInv, StatusMatchesTable
  <1>. QED
    BY <1>11, <1>12, <1>13, <1>14, <1>15 DEF IInv

-----------------------------------------------------------------------------
(* The empty table. *)
LEMMA InitHolds == Init => IInv
  <1>. SUFFICES ASSUME Init PROVE IInv
    OBVIOUS
  <1>1. (CHOOSE id \in Forwards : TRUE) \in Forwards
    BY RuntimeAssumption
  <1>2. forwardOf \in [Generations -> Forwards] /\ run = [g \in Generations |-> NewRun]
    BY <1>1 DEF Init
  <1>3. \A id \in Forwards : /\ runs[id] = NoEntryAt /\ states[id] = "stopped"
                             /\ runs[id].generation = NoGeneration /\ runs[id].phase = "none" /\ ~runs[id].run
    BY NoEntryIs DEF Init
  <1>4. \A g \in Generations : /\ run[g] \in Runs /\ Reads(run[g], "none", "off", <<>>, FALSE)
                               /\ watcher[g] = "off" /\ g # NoGeneration /\ ~Awaited(g)
    <2>. TAKE g \in Generations
    <2>1. run[g] = NewRun /\ watcher[g] = "off"
      BY <1>2 DEF Init
    <2>2. g # NoGeneration
      BY DEF Generations, NoGeneration
    <2>3. ~Awaited(g)
      BY <2>2 DEF Init, Awaited
    <2>. QED
      BY <2>1, <2>2, <2>3, NewRunIs
  <1>5. TypeOK
    <2>1. TableTyped
      <3>1. runs = [id \in Forwards |-> NoEntryAt] /\ states = [id \in Forwards |-> "stopped"]
        BY DEF Init
      <3>. HIDE DEF Entries, NoEntryAt
      <3>. QED
        BY <3>1, NoEntryIs DEF TableTyped
    <2>2. RunsTyped
      BY <1>2, NewRunIs DEF RunsTyped
    <2>3. StartTyped /\ AwaitTyped /\ HelpersTyped
      <3>1. nextGeneration \in 0..MaxGeneration
        BY RuntimeAssumption DEF Init
      <3>2. /\ pc = [c \in Starters |-> "idle"] /\ mine = [c \in Starters |-> NoGeneration]
            /\ closing = FALSE /\ stopOf = [s \in Stoppers |-> NoGeneration]
            /\ suspending = {} /\ shutting = {}
            /\ watcher = [g \in Generations |-> "off"] /\ finisher = [g \in Generations |-> "off"]
        BY DEF Init
      <3>. QED
        BY <3>1, <3>2 DEF StartTyped, AwaitTyped, HelpersTyped
    <2>. QED
      BY <2>1, <2>2, <2>3, TypeParts
  <1>6. EntriesAreSound
    BY <1>3 DEF Init, EntriesAreSound, EntryIsSound, NoGeneration
  <1>7. StartsAreSound
    BY DEF Init, StartsAreSound, StartIsSound, NoGeneration
  <1>8. RunsAreSound
    <2>. SUFFICES ASSUME NEW g \in Generations PROVE RunIsSound(g) /\ EventsTell(g) /\ StatusFollows(g)
      BY DEF RunsAreSound
    <2>1. forwardOf[g] \in Forwards
      BY <1>2
    <2>2. ~IsCurrent(forwardOf[g], g)
      BY <1>3, <2>1 DEF IsCurrent
    <2>. QED
      BY <1>4, <2>2 DEF RunIsSound, EventsTell, StatusFollows, Reads, Live
  <1>9. StatusMatchesTable
    BY <1>3 DEF StatusMatchesTable
  <1>. QED
    BY <1>5, <1>6, <1>7, <1>8, <1>9 DEF IInv

(* Every step keeps the invariant. *)
LEMMA NextKeeps == IInv /\ [Next]_vars => IInv'
  <1>. SUFFICES ASSUME IInv, [Next]_vars PROVE IInv'
    OBVIOUS
  <1>1. ASSUME NEW c \in Starters, StartNext(c) PROVE IInv'
    <2>1. CASE \E id \in Forwards : StartRegisters(c, id)
      BY <2>1, RegisteringKeeps
    <2>2. CASE LoadFails(c) \/ RunStartFails(c) \/ Settle(c)
      BY <2>2, GivingUpKeeps
    <2>3. CASE RunBegins(c) \/ RunStartReturns(c) \/ GiveUp(c)
      BY <2>3, StartGoesOn
    <2>4. CASE Publish(c)
      BY <2>4, PublishingKeeps
    <2>. QED
      BY <1>1, <2>1, <2>2, <2>3, <2>4 DEF StartNext
  <1>2. ASSUME NEW s \in Stoppers, (\E id \in Forwards : StopMarks(s, id)) \/ StopReturns(s) PROVE IInv'
    BY <1>2, StopMarksKeeps, CollectingKeeps
  <1>3. ASSUME NEW ids \in SUBSET Forwards, SuspendMarks(ids) PROVE IInv'
    BY <1>3, SuspendMarksKeeps
  <1>4. CASE ShutdownMarks
    BY <1>4, ShutdownMarksKeeps
  <1>5. ASSUME NEW g \in Generations, RunNext(g) PROVE IInv'
    <2>1. CASE StopBegins(g) \/ MonitorLeaves(g) \/ ServingEnds(g) \/ CleanUpEnds(g)
      BY <2>1, RunStepsKeep
    <2>2. CASE StopFinishes(g) \/ SuspendCollects(g) \/ ShutdownCollects(g)
      BY <2>2, CollectingKeeps
    <2>3. CASE WatchSubscribes(g)
      BY <2>3, SubscribingKeeps
    <2>4. CASE WatchTakesEvent(g)
      BY <2>4, TakingKeeps
    <2>5. CASE WatchSeesDone(g)
      BY <2>5, WatchSeesDoneKeeps
    <2>6. CASE ChainLost(g) \/ ChainRestored(g)
      BY <2>6, ReportsKeep
    <2>. QED
      BY <1>5, <2>1, <2>2, <2>3, <2>4, <2>5, <2>6 DEF RunNext
  <1>6. CASE UNCHANGED vars
    <2>1. UNCHANGED <<runs, states, closing, nextGeneration, forwardOf, run, watcher, finisher, pc, mine,
                      stopOf, suspending, shutting>>
      BY <1>6 DEF vars, tableVars, startVars, stopVars
    <2>2. TypeOK'
      BY <2>1 DEF IInv, TypeOK
    <2>3. EntriesAreSound'
      BY <2>1, EntriesUntouched DEF IInv
    <2>4. StartsAreSound'
      BY <2>1 DEF IInv, StartsAreSound, StartIsSound
    <2>5. RunsAreSound'
      BY <2>1 DEF IInv, RunsAreSound, RunIsSound, EventsTell, StatusFollows, Awaited, InStart, IsCurrent
    <2>6. StatusMatchesTable'
      BY <2>1 DEF IInv, StatusMatchesTable
    <2>. QED
      BY <2>2, <2>3, <2>4, <2>5, <2>6 DEF IInv
  <1>. QED
    BY <1>1, <1>2, <1>3, <1>4, <1>5, <1>6 DEF Next

(* So it holds in every state. *)
LEMMA InvariantHolds == Spec => []IInv
  BY InitHolds, NextKeeps, PTL DEF Spec

(* At most one run of a forward is starting or serving, whatever Start, Stop,   *)
(* Suspend, Shutdown and the watchers do to each other; no serving run is out of *)
(* reach of a stop, and none that is marked waits for a stop nobody calls.       *)
THEOREM TableOwnsRuns == Spec => []RunsAreOwned
  <1>1. IInv => RunsAreOwned
    <2>. SUFFICES ASSUME IInv PROVE RunsAreOwned
      OBVIOUS
    <2>. RunsTyped
      BY TypeParts DEF IInv
    <2>1. OneActiveRun
      <3>. SUFFICES ASSUME NEW g \in Generations, NEW h \in Generations, forwardOf[g] = forwardOf[h],
                           run[g].life \in {"starting", "serving"}, run[h].life \in {"starting", "serving"}
                    PROVE  g = h
        BY DEF OneActiveRun
      <3>1. RunIsSound(g) /\ RunIsSound(h)
        BY DEF IInv, RunsAreSound
      <3>. QED
        BY <3>1 DEF RunIsSound
    <2>2. NoOrphanRun
      <3>. SUFFICES ASSUME NEW g \in Generations, run[g].life = "serving"
                    PROVE  /\ IsCurrent(forwardOf[g], g) \/ InStart(g)
                           /\ IsCurrent(forwardOf[g], g) /\ runs[forwardOf[g]].phase = "stopping" => StopCalled(g)
        BY DEF NoOrphanRun
      <3>1. RunIsSound(g) /\ EntryIsSound(forwardOf[g]) /\ g # NoGeneration
        BY DEF IInv, RunsAreSound, EntriesAreSound, RunsTyped, Generations, NoGeneration
      <3>2. runs[forwardOf[g]].generation = g
        BY <3>1 DEF RunIsSound
      <3>3. IsCurrent(forwardOf[g], g) \/ InStart(g)
        BY <3>1, <3>2 DEF EntryIsSound, IsCurrent
      <3>4. IsCurrent(forwardOf[g], g) /\ runs[forwardOf[g]].phase = "stopping" => Awaited(g)
        BY <3>1 DEF RunIsSound
      <3>. QED
        BY <3>3, <3>4 DEF Awaited, StopCalled
    <2>. QED
      BY <2>1, <2>2 DEF IInv, RunsAreOwned
  <1>. QED
    BY <1>1, InvariantHolds, PTL

(* The status a user sees is true of the table, and of the chain as soon as the *)
(* watcher has caught up.                                                       *)
THEOREM StatusTold == Spec => []StatusIsTrue
  <1>1. IInv => StatusIsTrue
    <2>. SUFFICES ASSUME IInv PROVE StatusIsTrue
      OBVIOUS
    <2>1. StatusFollowsChain
      BY DEF IInv, RunsAreSound, StatusFollows, StatusFollowsChain
    <2>. QED
      BY <2>1 DEF IInv, StatusIsTrue
  <1>. QED
    BY <1>1, InvariantHolds, PTL

=============================================================================
