--------------------------- MODULE CaddyAndLogProofs ---------------------------
(***************************************************************************)
(* The Caddy process (CaddySupervisor) and, at the end, the log its output  *)
(* goes to (LogStore).                                                      *)
(*                                                                         *)
(* The inductive invariant of CaddySupervisor, IInv, holds for any         *)
(* configurations and any number of calls, starts and failures: the Adapter *)
(* forgets only a process that is gone or was killed, and what the owned    *)
(* process serves differs from the digest only between a reload and what is *)
(* noted of it.                                                            *)
(*                                                                         *)
(* That of LogStore, LogInv, for any limits, lengths of lines and number of *)
(* calls: what is on disk or on the page came before what is still on its   *)
(* way to the file, and while its file is the current one the cursor of the *)
(* page is the end of a line behind which nothing was shown.                *)
(***************************************************************************)
EXTENDS CaddySupervisor, LogStore, FiniteSetTheorems, TLAPS

CallSteps == {"idle", "validate", "load", "reloaded", "write", "start", "started", "kill", "reap",
              "stop", "asked", "ignored"}
Served == Configs \union {NoConfig}
Owners == Pids \union {0}
Calls == [pc : CallSteps, config : Served, target : Sockets, deadline : BOOLEAN, clean : BOOLEAN]
Loadings == [config : Served, target : Sockets, pid : Owners]

\* The values the variables range over that the invariant reads.
Typed ==
    /\ process \in Owners /\ socket \in Sockets /\ digest \in Served /\ lastError \in BOOLEAN
    /\ call \in Calls
    /\ alive \in SUBSET Pids /\ killed \in SUBSET Pids
    /\ serving \in [Pids -> Served] /\ bound \in [Sockets -> Owners] /\ loading \in Loadings
    /\ taken \in BOOLEAN /\ rotated \in BOOLEAN /\ overtaken \in BOOLEAN
    /\ calls \in Nat /\ started \in 0..MaxStarts /\ faults \in Nat

\* A process identifier that was not given out yet means nothing to anybody,
\* and a call that may still start a process finds one.
PidsAreFresh ==
    /\ process <= started
    /\ \A p \in Pids : p > started =>
         p \notin alive /\ serving[p] = NoConfig /\ \A s \in Sockets : bound[s] # p
    /\ call.pc \in {"validate", "load", "reloaded", "write", "start"} => started < MaxStarts
    /\ call.pc \in {"stop", "asked", "ignored"} /\ ~call.deadline => started < MaxStarts

\* Which calls own a process, and that the digest goes with it.
ProcessIsOwned ==
    /\ process = 0 => digest = NoConfig
    /\ call.pc = "start" => process = 0
    /\ call.pc \in {"load", "reloaded", "write", "stop", "asked", "ignored", "kill", "reap", "started"}
         => process # 0
    /\ call.pc \in {"started", "kill", "reap"} => digest = NoConfig

\* What the owned process serves, until a late /load overtakes it.
ServingIsKnown ==
    ~overtaken /\ Running =>
        /\ call.pc \notin {"reloaded", "write"} /\ digest # NoConfig /\ ~lastError => serving[process] = digest
        /\ call.pc = "reloaded" /\ bound[call.target] = process => serving[process] = call.config
        /\ call.pc = "write" => serving[process] = call.config
        /\ call.pc = "started" /\ bound[socket] = process => serving[process] = call.config

\* The inductive invariant.
IInv == Typed /\ PidsAreFresh /\ ProcessIsOwned /\ ServingIsKnown /\ NoStrayCaddy

-----------------------------------------------------------------------------
\* What a step does to the call that holds a.mu: the call moves on, stumbles, or
\* is over.
MovesTo(step) ==
    /\ call' \in Calls /\ call'.pc = step /\ call'.config = call.config
    /\ call'.target = call.target /\ call'.deadline = call.deadline
Ends == call' \in Calls /\ call'.pc = "idle"

\* Sockets are only given up, and the Adapter forgets its process.
Unbinds == bound' \in [Sockets -> Owners] /\ \A s \in Sockets : bound'[s] \in {bound[s], 0}
Forgets == process' = 0 /\ digest' = NoConfig /\ Unbinds

(* These are what the operators of the Adapter do *)
LEMMA CallMoves ==
    ASSUME Typed
    PROVE  /\ \A step \in CallSteps : call' = [call EXCEPT !.pc = step] => MovesTo(step)
           /\ \A step \in CallSteps, clean \in BOOLEAN :
                 call' = [call EXCEPT !.pc = step, !.clean = clean] => MovesTo(step)
           /\ \A clean \in BOOLEAN : call' = [call EXCEPT !.clean = clean] => MovesTo(call.pc)
           /\ call' = Idle => Ends
  <1>. call \in Calls
    BY DEF Typed
  <1>1. ASSUME NEW step \in CallSteps
        PROVE  LET c == [call EXCEPT !.pc = step] IN
               /\ c \in Calls /\ c.pc = step /\ c.config = call.config
               /\ c.target = call.target /\ c.deadline = call.deadline
    BY DEF Calls
  <1>2. ASSUME NEW c \in Calls, NEW clean \in BOOLEAN
        PROVE  LET d == [c EXCEPT !.clean = clean] IN
               /\ d \in Calls /\ d.pc = c.pc /\ d.config = c.config
               /\ d.target = c.target /\ d.deadline = c.deadline
    BY DEF Calls
  <1>3. ASSUME NEW step \in CallSteps, NEW clean \in BOOLEAN,
               call' = [call EXCEPT !.pc = step, !.clean = clean]
        PROVE  MovesTo(step)
    <2>. DEFINE c == [call EXCEPT !.pc = step]
    <2>1. call' = [c EXCEPT !.clean = clean]
      BY <1>3
    <2>2. /\ c \in Calls /\ c.pc = step /\ c.config = call.config
          /\ c.target = call.target /\ c.deadline = call.deadline
      BY <1>1
    <2>. HIDE DEF c
    <2>. QED
      BY <1>2, <2>1, <2>2 DEF MovesTo
  <1>4. call' = Idle => Ends
    BY DEF Idle, Ends, Calls, CallSteps, Served, Sockets
  <1>5. ASSUME NEW step \in CallSteps, call' = [call EXCEPT !.pc = step]
        PROVE  MovesTo(step)
    BY <1>1, <1>5 DEF MovesTo
  <1>6. ASSUME NEW clean \in BOOLEAN, call' = [call EXCEPT !.clean = clean]
        PROVE  MovesTo(call.pc)
    BY <1>2, <1>6 DEF MovesTo
  <1>. QED
    BY <1>3, <1>4, <1>5, <1>6

(* ... to the process and its sockets, *)
LEMMA ProcessMoves ==
    ASSUME Typed
    PROVE  /\ Clears => Forgets
           /\ NoticesExit => \/ process # 0 /\ process \notin alive /\ Forgets
                             \/ (process = 0 \/ process \in alive) /\ UNCHANGED <<process, digest, bound>>
           /\ \A sockets \in SUBSET Sockets : bound' = Unbound(sockets) => Unbinds
  <1>1. ASSUME NEW sockets \in SUBSET Sockets, bound' = Unbound(sockets) PROVE Unbinds
    BY <1>1 DEF Typed, Unbound, Unbinds, Owners
  <1>2. {socket} \in SUBSET Sockets
    BY DEF Typed
  <1>3. Clears => Forgets
    BY <1>1, <1>2 DEF Clears, Forgotten, Forgets
  <1>. QED
    BY <1>1, <1>3 DEF NoticesExit

(* ... and what Caddy itself does, when it exits or loads a configuration. *)
LEMMA CaddyMoves ==
    ASSUME Typed, NEW pid \in Pids
    PROVE  /\ Exits(pid) => /\ Unbinds /\ alive' = alive \ {pid}
                            /\ serving' \in [Pids -> Served] /\ serving'[pid] = NoConfig
                            /\ \A p \in Pids \ {pid} : serving'[p] = serving[p]
           /\ \A config \in Served, target \in Sockets : Loads(pid, config, target) =>
                /\ serving' \in [Pids -> Served] /\ serving'[pid] = config
                /\ \A p \in Pids \ {pid} : serving'[p] = serving[p]
                /\ bound' \in [Sockets -> Owners] /\ bound'[target] = pid
                /\ \A s \in Sockets \ {target} : bound'[s] \in {bound[s], 0} /\ bound'[s] # pid
  <1>. 0 \notin Pids /\ NoConfig \in Served
    BY DEF Pids, Served
  <1>1. Exits(pid) => /\ Unbinds /\ alive' = alive \ {pid}
                      /\ serving' \in [Pids -> Served] /\ serving'[pid] = NoConfig
                      /\ \A p \in Pids \ {pid} : serving'[p] = serving[p]
    BY DEF Exits, Unbinds, Typed, Owners
  <1>2. ASSUME NEW config \in Served, NEW target \in Sockets, Loads(pid, config, target)
        PROVE  /\ serving' \in [Pids -> Served] /\ serving'[pid] = config
               /\ \A p \in Pids \ {pid} : serving'[p] = serving[p]
               /\ bound' \in [Sockets -> Owners] /\ bound'[target] = pid
               /\ \A s \in Sockets \ {target} : bound'[s] \in {bound[s], 0} /\ bound'[s] # pid
    BY <1>2 DEF Loads, Typed, Owners
  <1>. QED
    BY <1>1, <1>2

-----------------------------------------------------------------------------
(* An Apply begins with what it finds, *)
LEMMA BeginApplyKeeps ==
    ASSUME IInv, NEW config \in Configs, BeginApply(config)
    PROVE  IInv'
  <1>1. Typed
    BY DEF IInv
  <1>2. call.pc = "idle" /\ started < MaxStarts /\ calls' \in Nat
    BY <1>1 DEF BeginApply, Typed
  <1>3. call' \in Calls /\ call'.pc \in {"idle", "validate"}
    <2>1. CASE Running /\ digest = config
      BY <1>1, <2>1, CallMoves DEF BeginApply, Returns, Ends
    <2>2. CASE ~(Running /\ digest = config)
      <3>. DEFINE target == IF Running THEN Other(socket) ELSE socket
      <3>1. target \in Sockets /\ config \in Served
        BY <1>1 DEF Typed, Sockets, Other, Served
      <3>2. call' = [pc |-> "validate", config |-> config, deadline |-> FALSE, clean |-> TRUE, target |-> target]
        BY <2>2 DEF BeginApply
      <3>. HIDE DEF target
      <3>. QED
        BY <3>1, <3>2 DEF Calls, CallSteps
    <2>. QED
      BY <2>1, <2>2
  <1>4. \/ process # 0 /\ process \notin alive /\ Forgets
        \/ (process = 0 \/ process \in alive) /\ UNCHANGED <<process, digest, bound>>
    BY <1>1, ProcessMoves DEF BeginApply
  <1>5. UNCHANGED <<socket, lastError, alive, killed, serving, loading, taken, rotated, overtaken, started, faults>>
    BY DEF BeginApply
  <1>. USE DEF IInv, Typed, PidsAreFresh, ProcessIsOwned, ServingIsKnown, NoStrayCaddy, Running, MovesTo, Ends, Unbinds, Forgets, Owners, Pids, Served
  <1>6. Typed'
    BY <1>2, <1>3, <1>4, <1>5
  <1>7. PidsAreFresh'
    BY <1>2, <1>3, <1>4, <1>5
  <1>8. ProcessIsOwned'
    BY <1>2, <1>3, <1>4, <1>5
  <1>9. ServingIsKnown'
    BY <1>2, <1>3, <1>4, <1>5
  <1>10. NoStrayCaddy'
    BY <1>2, <1>3, <1>4, <1>5
  <1>. QED
    BY <1>6, <1>7, <1>8, <1>9, <1>10

(* ... fails before anything else, *)
LEMMA ValidationFailsKeeps ==
    ASSUME IInv, ValidationFails
    PROVE  IInv'
  <1>1. Typed
    BY DEF IInv
  <1>2. Ends /\ lastError' = TRUE
    BY <1>1, CallMoves DEF ValidationFails, Fails, FailsBy
  <1>3. faults' \in Nat
    BY <1>1 DEF ValidationFails, Fault, Typed
  <1>4. UNCHANGED <<process, socket, digest, alive, killed, serving, bound, loading, taken, rotated, overtaken, calls, started>>
    BY DEF ValidationFails, world
  <1>. USE DEF IInv, Typed, PidsAreFresh, ProcessIsOwned, ServingIsKnown, NoStrayCaddy, Running,
              MovesTo, Ends, Unbinds, Forgets, Owners, Pids, Served
  <1>. QED
    BY <1>2, <1>3, <1>4

(* ... gives up the leaf certificates of an older root and starts anew, *)
LEMMA PurgesKeeps ==
    ASSUME IInv, PurgesStaleLeaves
    PROVE  IInv'
  <1>1. Typed
    BY DEF IInv
  <1>2. call.pc = "validate" /\ rotated' \in BOOLEAN
    BY <1>1 DEF PurgesStaleLeaves
  <1>3. \/ process # 0 /\ process \notin alive /\ Forgets
        \/ (process = 0 \/ process \in alive) /\ UNCHANGED <<process, digest, bound>>
    BY <1>1, ProcessMoves DEF PurgesStaleLeaves
  <1>4. Running => MovesTo("stop")
    BY <1>1, CallMoves DEF PurgesStaleLeaves, GoesTo, CallSteps
  <1>5. ~Running => MovesTo("start")
    BY <1>1, CallMoves DEF PurgesStaleLeaves, GoesTo, CallSteps
  <1>6. UNCHANGED <<socket, lastError, alive, killed, serving, loading, taken, overtaken, calls, started, faults>>
    BY DEF PurgesStaleLeaves
  <1>. USE DEF IInv, Typed, PidsAreFresh, ProcessIsOwned, ServingIsKnown, NoStrayCaddy, Running,
              MovesTo, Ends, Unbinds, Forgets, Owners, Pids, Served
  <1>7. Typed'
    BY <1>2, <1>3, <1>4, <1>5, <1>6
  <1>8. PidsAreFresh'
    BY <1>2, <1>3, <1>4, <1>5, <1>6
  <1>9. ProcessIsOwned'
    BY <1>2, <1>3, <1>4, <1>5, <1>6
  <1>10. ServingIsKnown'
    BY <1>2, <1>3, <1>4, <1>5, <1>6
  <1>11. NoStrayCaddy'
    BY <1>2, <1>3, <1>4, <1>5, <1>6
  <1>. QED
    BY <1>7, <1>8, <1>9, <1>10, <1>11

(* ... or finds out whether to start or to reload. *)
LEMMA ValidatedKeeps ==
    ASSUME IInv, Validated
    PROVE  IInv'
  <1>1. Typed
    BY DEF IInv
  <1>2. call.pc = "validate"
    BY <1>1 DEF Validated
  <1>3. \/ process # 0 /\ process \notin alive /\ Forgets
        \/ (process = 0 \/ process \in alive) /\ UNCHANGED <<process, digest, bound>>
    BY <1>1, ProcessMoves DEF Validated
  <1>4. Running => MovesTo("load")
    BY <1>1, CallMoves DEF Validated, GoesTo, CallSteps
  <1>5. ~Running => MovesTo("start")
    BY <1>1, CallMoves DEF Validated, GoesTo, CallSteps
  <1>6. UNCHANGED <<socket, lastError, alive, killed, serving, loading, taken, rotated, overtaken, calls, started, faults>>
    BY DEF Validated
  <1>. USE DEF IInv, Typed, PidsAreFresh, ProcessIsOwned, ServingIsKnown, NoStrayCaddy, Running,
              MovesTo, Ends, Unbinds, Forgets, Owners, Pids, Served
  <1>7. Typed'
    BY <1>2, <1>3, <1>4, <1>5, <1>6
  <1>8. PidsAreFresh'
    BY <1>2, <1>3, <1>4, <1>5, <1>6
  <1>9. ProcessIsOwned'
    BY <1>2, <1>3, <1>4, <1>5, <1>6
  <1>10. ServingIsKnown'
    BY <1>2, <1>3, <1>4, <1>5, <1>6
  <1>11. NoStrayCaddy'
    BY <1>2, <1>3, <1>4, <1>5, <1>6
  <1>. QED
    BY <1>7, <1>8, <1>9, <1>10, <1>11

(* A reload moves the admin endpoint of the process to the other socket, *)
LEMMA LoadKeeps ==
    ASSUME IInv, Load
    PROVE  IInv'
  <1>1. Typed
    BY DEF IInv
  <1>2. call.pc = "load" /\ MovesTo("reloaded") /\ process \in alive
    BY <1>1, CallMoves DEF Load, GoesTo, CallSteps
  <1>3. process \in Pids /\ call.config \in Served /\ call.target \in Sockets
    BY <1>1, <1>2 DEF Typed, Calls
  <1>4. /\ serving' \in [Pids -> Served] /\ serving'[process] = call.config
        /\ \A p \in Pids \ {process} : serving'[p] = serving[p]
        /\ bound' \in [Sockets -> Owners] /\ bound'[call.target] = process
        /\ \A s \in Sockets \ {call.target} : bound'[s] \in {bound[s], 0} /\ bound'[s] # process
    BY <1>1, <1>3, CaddyMoves DEF Load
  <1>5. UNCHANGED <<process, socket, digest, lastError, alive, killed, loading, taken, rotated, overtaken, calls, started, faults>>
    BY DEF Load
  <1>. USE DEF IInv, Typed, PidsAreFresh, ProcessIsOwned, ServingIsKnown, NoStrayCaddy, Running,
              MovesTo, Ends, Unbinds, Forgets, Owners, Pids, Served
  <1>. QED
    BY <1>2, <1>3, <1>4, <1>5

(* ... or is refused, *)
LEMMA LoadRefusedKeeps ==
    ASSUME IInv, LoadRefused
    PROVE  IInv'
  <1>1. Typed
    BY DEF IInv
  <1>2. call.pc = "load" /\ MovesTo("reloaded")
    BY <1>1, CallMoves DEF LoadRefused, CallSteps
  <1>3. faults' \in Nat
    BY <1>1 DEF LoadRefused, Fault, Typed
  <1>4. Unbinds /\ bound'[call.target] = 0
    BY <1>1, ProcessMoves DEF LoadRefused, Unbound, Typed, Calls
  <1>5. UNCHANGED <<process, socket, digest, lastError, alive, killed, serving, loading, taken, rotated, overtaken, calls, started>>
    BY DEF LoadRefused
  <1>. USE DEF IInv, Typed, PidsAreFresh, ProcessIsOwned, ServingIsKnown, NoStrayCaddy, Running,
              MovesTo, Ends, Unbinds, Forgets, Owners, Pids, Served
  <1>. QED
    BY <1>2, <1>3, <1>4, <1>5

(* ... or is not answered: what was asked for may still happen. *)
LEMMA LoadUnansweredKeeps ==
    ASSUME IInv, LoadUnanswered
    PROVE  IInv'
  <1>1. Typed
    BY DEF IInv
  <1>2. call.pc = "load" /\ MovesTo("reloaded")
    BY <1>1, CallMoves DEF LoadUnanswered, CallSteps
  <1>3. faults' \in Nat
    BY <1>1 DEF LoadUnanswered, Fault, Typed
  <1>4. Unbinds /\ bound'[call.target] = 0
    BY <1>1, ProcessMoves DEF LoadUnanswered, Unbound, Typed, Calls
  <1>5. loading' \in Loadings
    BY <1>1 DEF LoadUnanswered, Loadings, Typed, Calls
  <1>6. UNCHANGED <<process, socket, digest, lastError, alive, killed, serving, taken, rotated, overtaken, calls, started>>
    BY DEF LoadUnanswered
  <1>. USE DEF IInv, Typed, PidsAreFresh, ProcessIsOwned, ServingIsKnown, NoStrayCaddy, Running,
              MovesTo, Ends, Unbinds, Forgets, Owners, Pids, Served
  <1>. QED
    BY <1>2, <1>3, <1>4, <1>5, <1>6

(* The new endpoint answers, *)
LEMMA ReloadReadyKeeps ==
    ASSUME IInv, ReloadReady
    PROVE  IInv'
  <1>1. Typed
    BY DEF IInv
  <1>2. call.pc = "reloaded" /\ MovesTo("write") /\ bound[call.target] = process /\ process \in alive
    BY <1>1, CallMoves DEF ReloadReady, GoesTo, CallSteps
  <1>3. Unbinds /\ socket' \in Sockets
    BY <1>1, ProcessMoves DEF ReloadReady, Typed, Calls
  <1>4. UNCHANGED <<process, digest, lastError, alive, killed, serving, loading, taken, rotated, overtaken, calls, started, faults>>
    BY DEF ReloadReady
  <1>. USE DEF IInv, Typed, PidsAreFresh, ProcessIsOwned, ServingIsKnown, NoStrayCaddy, Running,
              MovesTo, Ends, Unbinds, Forgets, Owners, Pids, Served
  <1>. QED
    BY <1>2, <1>3, <1>4

(* ... or does not, which is an error, *)
LEMMA ReloadNotReadyKeeps ==
    ASSUME IInv, ReloadNotReady
    PROVE  IInv'
  <1>1. Typed
    BY DEF IInv
  <1>2. call.pc = "reloaded" /\ Ends /\ lastError' = TRUE
    BY <1>1, CallMoves DEF ReloadNotReady, ReloadFails, FailsBy
  <1>3. UNCHANGED <<process, socket, digest, alive, killed, serving, bound, loading, taken, rotated, overtaken, calls, started, faults>>
    BY DEF ReloadNotReady, world
  <1>. USE DEF IInv, Typed, PidsAreFresh, ProcessIsOwned, ServingIsKnown, NoStrayCaddy, Running,
              MovesTo, Ends, Unbinds, Forgets, Owners, Pids, Served
  <1>. QED
    BY <1>2, <1>3

(* ... the configuration served is noted, *)
LEMMA WriteActiveKeeps ==
    ASSUME IInv, WriteActive
    PROVE  IInv'
  <1>1. Typed
    BY DEF IInv
  <1>2. call.pc = "write" /\ Ends /\ lastError' = FALSE /\ digest' = call.config /\ digest' \in Served
    BY <1>1, CallMoves DEF WriteActive, Returns, Marked, Typed, Calls
  <1>3. UNCHANGED <<process, socket, alive, killed, serving, bound, loading, taken, rotated, overtaken, calls, started, faults>>
    BY DEF WriteActive, world
  <1>. USE DEF IInv, Typed, PidsAreFresh, ProcessIsOwned, ServingIsKnown, NoStrayCaddy, Running,
              MovesTo, Ends, Unbinds, Forgets, Owners, Pids, Served
  <1>. QED
    BY <1>2, <1>3

(* ... or cannot be. *)
LEMMA WriteFailsKeeps ==
    ASSUME IInv, WriteFails
    PROVE  IInv'
  <1>1. Typed
    BY DEF IInv
  <1>2. call.pc = "write" /\ Ends /\ lastError' = TRUE
    BY <1>1, CallMoves DEF WriteFails, ReloadFails, FailsBy
  <1>3. faults' \in Nat
    BY <1>1 DEF WriteFails, Fault, Typed
  <1>4. UNCHANGED <<process, socket, digest, alive, killed, serving, bound, loading, taken, rotated, overtaken, calls, started>>
    BY DEF WriteFails, world
  <1>. USE DEF IInv, Typed, PidsAreFresh, ProcessIsOwned, ServingIsKnown, NoStrayCaddy, Running,
              MovesTo, Ends, Unbinds, Forgets, Owners, Pids, Served
  <1>. QED
    BY <1>2, <1>3, <1>4

(* A start finds the port taken, *)
LEMMA PortConflictKeeps ==
    ASSUME IInv, PortConflict
    PROVE  IInv'
  <1>1. Typed
    BY DEF IInv
  <1>2. call.pc = "start" /\ Ends /\ lastError' = TRUE
    BY <1>1, CallMoves DEF PortConflict, Returns
  <1>3. UNCHANGED <<process, socket, digest, alive, killed, serving, bound, loading, taken, rotated, overtaken, calls, started, faults>>
    BY DEF PortConflict, world
  <1>. USE DEF IInv, Typed, PidsAreFresh, ProcessIsOwned, ServingIsKnown, NoStrayCaddy, Running,
              MovesTo, Ends, Unbinds, Forgets, Owners, Pids, Served
  <1>. QED
    BY <1>2, <1>3

(* ... fails before there is a process, *)
LEMMA StartFailsKeeps ==
    ASSUME IInv, StartFails
    PROVE  IInv'
  <1>1. Typed
    BY DEF IInv
  <1>2. call.pc = "start" /\ Ends /\ lastError' = TRUE
    BY <1>1, CallMoves DEF StartFails, Fails, FailsBy
  <1>3. faults' \in Nat
    BY <1>1 DEF StartFails, Fault, Typed
  <1>4. UNCHANGED <<process, socket, digest, alive, killed, serving, bound, loading, taken, rotated, overtaken, calls, started>>
    BY DEF StartFails, world
  <1>. USE DEF IInv, Typed, PidsAreFresh, ProcessIsOwned, ServingIsKnown, NoStrayCaddy, Running,
              MovesTo, Ends, Unbinds, Forgets, Owners, Pids, Served
  <1>. QED
    BY <1>2, <1>3, <1>4

(* ... or starts one that nobody has heard of yet, *)
LEMMA StartProcessKeeps ==
    ASSUME IInv, StartProcess
    PROVE  IInv'
  <1>1. Typed
    BY DEF IInv
  <1>2. call.pc = "start" /\ MovesTo("started") /\ alive = {}
    BY <1>1, CallMoves DEF StartProcess, GoesTo, CallSteps, PortFree
  <1>3. started' = started + 1 /\ process' = started + 1 /\ alive' = {started + 1}
    BY <1>1, <1>2 DEF StartProcess
  <1>4. started + 1 \in Pids /\ started + 1 \in 0..MaxStarts /\ started < started + 1
    BY <1>1, <1>2, CaddyAssumption DEF IInv, PidsAreFresh, Typed, Pids
  <1>5. UNCHANGED <<socket, digest, lastError, killed, serving, bound, loading, taken, rotated, overtaken, calls, faults>>
    BY DEF StartProcess
  <1>. USE DEF IInv, Typed, PidsAreFresh, ProcessIsOwned, ServingIsKnown, NoStrayCaddy, Running,
              MovesTo, Ends, Unbinds, Forgets, Owners, Pids, Served
  <1>. QED
    BY <1>2, <1>3, <1>4, <1>5

(* ... that comes to serve what was asked for, *)
LEMMA StartReadyKeeps ==
    ASSUME IInv, StartReady
    PROVE  IInv'
  <1>1. Typed
    BY DEF IInv
  <1>2. /\ call.pc = "started" /\ Ends /\ lastError' = FALSE /\ digest' = call.config /\ digest' \in Served
        /\ bound[socket] = process /\ process \in alive
    BY <1>1, CallMoves DEF StartReady, Returns, Marked, Typed, Calls
  <1>3. UNCHANGED <<process, socket, alive, killed, serving, bound, loading, taken, rotated, overtaken, calls, started, faults>>
    BY DEF StartReady, world
  <1>. USE DEF IInv, Typed, PidsAreFresh, ProcessIsOwned, ServingIsKnown, NoStrayCaddy, Running,
              MovesTo, Ends, Unbinds, Forgets, Owners, Pids, Served
  <1>. QED
    BY <1>2, <1>3

(* ... or is given up, *)
LEMMA StartTimesOutKeeps ==
    ASSUME IInv, StartTimesOut
    PROVE  IInv'
  <1>1. Typed
    BY DEF IInv
  <1>2. call.pc = "started" /\ MovesTo("kill")
    BY <1>1, CallMoves DEF StartTimesOut, CallSteps, Typed, Calls
  <1>3. UNCHANGED <<process, socket, digest, lastError, alive, killed, serving, bound, loading, taken, rotated, overtaken, calls, started, faults>>
    BY DEF StartTimesOut, world
  <1>. USE DEF IInv, Typed, PidsAreFresh, ProcessIsOwned, ServingIsKnown, NoStrayCaddy, Running,
              MovesTo, Ends, Unbinds, Forgets, Owners, Pids, Served
  <1>. QED
    BY <1>2, <1>3

(* ... killed *)
LEMMA KillKeeps ==
    ASSUME IInv, Kill
    PROVE  IInv'
  <1>1. Typed
    BY DEF IInv
  <1>2. call.pc = "kill" /\ MovesTo("reap")
    BY <1>1, CallMoves DEF Kill, GoesTo, CallSteps
  <1>3. killed' \in SUBSET Pids /\ killed' = killed \cup {process}
    BY <1>1, <1>2 DEF Kill, SendsKill, IInv, ProcessIsOwned, Typed, Owners
  <1>4. UNCHANGED <<process, socket, digest, lastError, alive, serving, bound, loading, taken, rotated, overtaken, calls, started, faults>>
    BY DEF Kill
  <1>. USE DEF IInv, Typed, PidsAreFresh, ProcessIsOwned, ServingIsKnown, NoStrayCaddy, Running,
              MovesTo, Ends, Unbinds, Forgets, Owners, Pids, Served
  <1>. QED
    BY <1>2, <1>3, <1>4

(* ... and forgotten when it is gone. *)
LEMMA ReapKeeps ==
    ASSUME IInv, Reap
    PROVE  IInv'
  <1>1. Typed
    BY DEF IInv
  <1>2. call.pc = "reap" /\ Ends /\ lastError' = TRUE /\ process \notin alive /\ Forgets
    BY <1>1, CallMoves, ProcessMoves DEF Reap, Returns
  <1>3. UNCHANGED <<socket, alive, killed, serving, loading, taken, rotated, overtaken, calls, started, faults>>
    BY DEF Reap
  <1>. USE DEF IInv, Typed, PidsAreFresh, ProcessIsOwned, ServingIsKnown, NoStrayCaddy, Running,
              MovesTo, Ends, Unbinds, Forgets, Owners, Pids, Served
  <1>. QED
    BY <1>2, <1>3

(* A Stop that finds the process running asks it to go, another forgets it. *)
LEMMA BeginStopKeeps ==
    ASSUME IInv, BeginStop
    PROVE  IInv'
  <1>1. Typed
    BY DEF IInv
  <1>2. call.pc = "idle" /\ calls' \in Nat
    BY <1>1 DEF BeginStop, Typed
  <1>3. \/ /\ Running /\ call' \in Calls /\ call'.pc = "stop" /\ call'.deadline
           /\ UNCHANGED <<process, digest, bound>>
        \/ ~Running /\ Ends /\ Forgets
    BY <1>1, CallMoves, ProcessMoves DEF BeginStop, Returns, Idle, Calls, CallSteps, Served, Sockets
  <1>4. UNCHANGED <<socket, lastError, alive, killed, serving, loading, taken, rotated, overtaken, started, faults>>
    BY DEF BeginStop
  <1>. USE DEF IInv, Typed, PidsAreFresh, ProcessIsOwned, ServingIsKnown, NoStrayCaddy, Running,
              MovesTo, Ends, Unbinds, Forgets, Owners, Pids, Served
  <1>5. Typed'
    BY <1>2, <1>3, <1>4
  <1>6. PidsAreFresh'
    BY <1>2, <1>3, <1>4
  <1>7. ProcessIsOwned'
    BY <1>2, <1>3, <1>4
  <1>8. ServingIsKnown'
    BY <1>2, <1>3, <1>4
  <1>9. NoStrayCaddy'
    BY <1>2, <1>3, <1>4
  <1>. QED
    BY <1>5, <1>6, <1>7, <1>8, <1>9

(* Whatever becomes of /stop, *)
LEMMA PostStopKeeps ==
    ASSUME IInv, PostStop
    PROVE  IInv'
  <1>1. Typed
    BY DEF IInv
  <1>2. call.pc = "stop" /\ (MovesTo("asked") \/ MovesTo("ignored"))
    BY <1>1, CallMoves DEF PostStop, GoesTo, CallSteps
  <1>3. lastError' \in BOOLEAN /\ (lastError' = lastError \/ lastError' = TRUE)
    BY <1>1 DEF PostStop, Typed
  <1>4. faults' \in Nat
    BY <1>1 DEF PostStop, Fault, Typed
  <1>5. UNCHANGED <<process, socket, digest, alive, killed, serving, bound, loading, taken, rotated, overtaken, calls, started>>
    BY DEF PostStop, world
  <1>. USE DEF IInv, Typed, PidsAreFresh, ProcessIsOwned, ServingIsKnown, NoStrayCaddy, Running,
              MovesTo, Ends, Unbinds, Forgets, Owners, Pids, Served
  <1>. QED
    BY <1>2, <1>3, <1>4, <1>5

(* ... the process is forgotten when it is gone, *)
LEMMA StoppedKeeps ==
    ASSUME IInv, Stopped
    PROVE  IInv'
  <1>1. Typed
    BY DEF IInv
  <1>2. call.pc \in {"asked", "ignored"} /\ process \notin alive /\ Forgets
    BY <1>1, ProcessMoves DEF Stopped, Waits
  <1>3. call.deadline => Ends
    BY <1>1, CallMoves DEF Stopped, Returns
  <1>4. ~call.deadline => MovesTo("start")
    BY <1>1, CallMoves DEF Stopped, GoesTo, CallSteps
  <1>5. UNCHANGED <<socket, lastError, alive, killed, serving, loading, taken, rotated, overtaken, calls, started, faults>>
    BY DEF Stopped
  <1>. USE DEF IInv, Typed, PidsAreFresh, ProcessIsOwned, ServingIsKnown, NoStrayCaddy, Running,
              MovesTo, Ends, Unbinds, Forgets, Owners, Pids, Served
  <1>. QED
    BY <1>2, <1>3, <1>4, <1>5

(* ... or when it was killed. *)
LEMMA StopTimesOutKeeps ==
    ASSUME IInv, StopTimesOut
    PROVE  IInv'
  <1>1. Typed
    BY DEF IInv
  <1>2. Ends /\ process \in alive /\ process \in Pids
    BY <1>1, CallMoves DEF StopTimesOut, Returns, Overdue, Typed
  <1>3. killed' = killed \cup {process}
    BY <1>1 DEF StopTimesOut, SendsKill
  <1>4. process' = 0 /\ digest' = NoConfig /\ Unbinds
    BY <1>1, <1>2, CaddyMoves, ProcessMoves DEF StopTimesOut, Forgotten, Forgets
  <1>5. /\ alive' \subseteq alive /\ serving' \in [Pids -> Served]
        /\ \A p \in Pids : serving'[p] \in {serving[p], NoConfig}
    BY <1>1, <1>2, CaddyMoves DEF StopTimesOut, Typed
  <1>6. UNCHANGED <<socket, lastError, loading, taken, rotated, overtaken, calls, started, faults>>
    BY DEF StopTimesOut
  <1>. USE DEF IInv, Typed, PidsAreFresh, ProcessIsOwned, ServingIsKnown, NoStrayCaddy, Running,
              MovesTo, Ends, Unbinds, Forgets, Owners, Pids, Served
  <1>7. Typed'
    BY <1>2, <1>3, <1>4, <1>5, <1>6
  <1>8. PidsAreFresh'
    BY <1>2, <1>3, <1>4, <1>5, <1>6
  <1>9. ProcessIsOwned'
    BY <1>2, <1>3, <1>4, <1>5, <1>6
  <1>10. ServingIsKnown'
    BY <1>2, <1>3, <1>4, <1>5, <1>6
  <1>11. NoStrayCaddy'
    BY <1>2, <1>3, <1>4, <1>5, <1>6
  <1>. QED
    BY <1>7, <1>8, <1>9, <1>10, <1>11

(* Caddy comes up, or exits when the port is taken. *)
LEMMA BootKeeps ==
    ASSUME IInv, Boot
    PROVE  IInv'
  <1>1. Typed
    BY DEF IInv
  <1>2. call.pc = "started" /\ process \in alive /\ process \in Pids /\ call.config \in Served /\ call.target \in Sockets
    BY <1>1 DEF Boot, Typed, Calls
  <1>3. \/ /\ Unbinds /\ alive' = alive \ {process}
           /\ serving' \in [Pids -> Served] /\ serving'[process] = NoConfig
           /\ \A p \in Pids \ {process} : serving'[p] = serving[p]
        \/ /\ serving' \in [Pids -> Served] /\ serving'[process] = call.config
           /\ \A p \in Pids \ {process} : serving'[p] = serving[p]
           /\ bound' \in [Sockets -> Owners] /\ bound'[call.target] = process
           /\ \A s \in Sockets \ {call.target} : bound'[s] \in {bound[s], 0} /\ bound'[s] # process
           /\ UNCHANGED alive
    BY <1>1, <1>2, CaddyMoves DEF Boot
  <1>4. UNCHANGED call /\ UNCHANGED <<process, socket, digest, lastError, killed, loading, taken, rotated, overtaken, calls, started, faults>>
    BY <1>1 DEF Boot, adapter
  <1>. USE DEF IInv, Typed, PidsAreFresh, ProcessIsOwned, ServingIsKnown, NoStrayCaddy, Running,
              MovesTo, Ends, Unbinds, Forgets, Owners, Pids, Served
  <1>5. Typed'
    BY <1>2, <1>3, <1>4
  <1>6. PidsAreFresh'
    BY <1>2, <1>3, <1>4
  <1>7. ProcessIsOwned'
    BY <1>2, <1>3, <1>4
  <1>8. ServingIsKnown'
    BY <1>2, <1>3, <1>4
  <1>9. NoStrayCaddy'
    BY <1>2, <1>3, <1>4
  <1>. QED
    BY <1>5, <1>6, <1>7, <1>8, <1>9

(* A process that exits takes with it what it served and listened on. *)
LEMMA ExitKeeps ==
    ASSUME IInv, NEW pid \in alive, Exits(pid),
           call' \in Calls, UNCHANGED <<call.pc, call.config, call.target, call.deadline>>,
           faults' \in Nat,
           UNCHANGED <<process, socket, digest, lastError, killed, loading, taken, rotated, overtaken, calls, started>>
    PROVE  IInv'
  <1>1. Typed /\ pid \in Pids
    BY DEF IInv, Typed
  <1>2. /\ Unbinds /\ alive' = alive \ {pid}
        /\ serving' \in [Pids -> Served] /\ serving'[pid] = NoConfig
        /\ \A p \in Pids \ {pid} : serving'[p] = serving[p]
    BY <1>1, CaddyMoves
  <1>. USE DEF IInv, Typed, PidsAreFresh, ProcessIsOwned, ServingIsKnown, NoStrayCaddy, Running,
              MovesTo, Ends, Unbinds, Forgets, Owners, Pids, Served
  <1>3. Typed'
    BY <1>1, <1>2
  <1>4. PidsAreFresh'
    BY <1>1, <1>2
  <1>5. ProcessIsOwned'
    BY <1>1, <1>2
  <1>6. ServingIsKnown'
    <2>1. process \in alive' => process # pid /\ process \in Pids /\ process \in alive
      BY <1>1, <1>2
    <2>2. process \in alive' => serving'[process] = serving[process]
      BY <1>2, <2>1
    <2>3. process # 0 => \A s \in Sockets : bound'[s] = process => bound[s] = process
      BY <1>2
    <2>4. call'.target \in Sockets /\ socket' \in Sockets
      BY <1>1 DEF Calls
    <2>. QED
      BY <2>1, <2>2, <2>3, <2>4
  <1>7. NoStrayCaddy'
    BY <1>1, <1>2
  <1>. QED
    BY <1>3, <1>4, <1>5, <1>6, <1>7

(* It may die at any time, ... *)
LEMMA DiesKeeps ==
    ASSUME IInv, Dies
    PROVE  IInv'
  <1>1. PICK pid \in alive : Exits(pid)
    BY DEF Dies
  <1>2. MovesTo(call.pc)
    BY CallMoves DEF Dies, IInv
  <1>3. faults' \in Nat
    BY DEF Dies, Fault, IInv, Typed
  <1>4. UNCHANGED <<process, socket, digest, lastError, killed, loading, taken, rotated, overtaken, calls, started>>
    BY DEF Dies
  <1>. QED
    BY <1>1, <1>2, <1>3, <1>4, ExitKeeps DEF MovesTo

(* ... and does when it was killed or asked to. *)
LEMMA ExitsKeeps ==
    ASSUME IInv, ExitsKilled \/ ExitsAsked
    PROVE  IInv'
  <1>1. PICK pid \in alive : Exits(pid)
    BY DEF ExitsKilled, ExitsAsked
  <1>2. UNCHANGED <<adapter, killed, loading, taken, rotated, overtaken, calls, started, faults>>
    BY DEF ExitsKilled, ExitsAsked
  <1>3. UNCHANGED <<call, process, socket, digest, lastError>>
    BY <1>2 DEF adapter
  <1>4. call' \in Calls /\ faults' \in Nat
    BY <1>2, <1>3 DEF IInv, Typed
  <1>. QED
    BY <1>1, <1>2, <1>3, <1>4, ExitKeeps

(* The /load nobody waits for takes effect, which only the call that sent it expects. *)
LEMMA LoadsLateKeeps ==
    ASSUME IInv, LoadsLate
    PROVE  IInv'
  <1>1. Typed
    BY DEF IInv
  <1>2. loading' \in Loadings /\ overtaken' \in BOOLEAN
    BY <1>1 DEF LoadsLate, NoLoad, Loadings, Served, Sockets, Owners, Typed
  <1>3. overtaken' \/ (call.pc = "reloaded" /\ call.config = loading.config /\ ~overtaken)
    BY <1>1 DEF LoadsLate, Typed
  <1>4. loading.pid \in alive => loading.pid \in Pids /\ loading.config \in Served /\ loading.target \in Sockets
    BY <1>1 DEF Typed, Loadings
  <1>5. \/ UNCHANGED <<serving, bound>>
        \/ /\ loading.pid \in alive /\ loading.pid \in Pids
           /\ serving' \in [Pids -> Served] /\ serving'[loading.pid] = loading.config
           /\ \A p \in Pids \ {loading.pid} : serving'[p] = serving[p]
           /\ bound' \in [Sockets -> Owners] /\ bound'[loading.target] = loading.pid
           /\ \A s \in Sockets \ {loading.target} : bound'[s] \in {bound[s], 0} /\ bound'[s] # loading.pid
    BY <1>1, <1>4, CaddyMoves DEF LoadsLate
  <1>6. UNCHANGED call /\ UNCHANGED <<process, socket, digest, lastError, alive, killed, taken, rotated, calls, started, faults>>
    BY <1>1 DEF LoadsLate, adapter
  <1>. USE DEF IInv, Typed, PidsAreFresh, ProcessIsOwned, ServingIsKnown, NoStrayCaddy, Running,
              MovesTo, Ends, Unbinds, Forgets, Owners, Pids, Served
  <1>7. Typed'
    BY <1>2, <1>3, <1>4, <1>5, <1>6
  <1>8. PidsAreFresh'
    <2>1. loading.pid \in alive /\ loading.pid \in Pids => ~(loading.pid > started)
      BY <1>4
    <2>2. \A p \in Pids : p > started => serving'[p] = NoConfig /\ \A s \in Sockets : bound'[s] # p
      <3>1. CASE UNCHANGED <<serving, bound>>
        BY <3>1
      <3>2. CASE ~UNCHANGED <<serving, bound>>
        <4>. SUFFICES ASSUME NEW p \in Pids, p > started
                      PROVE  serving'[p] = NoConfig /\ \A s \in Sockets : bound'[s] # p
          OBVIOUS
        <4>1. p # loading.pid /\ p # 0
          BY <1>5, <2>1, <3>2
        <4>2. serving[p] = NoConfig /\ \A s \in Sockets : bound[s] # p
          OBVIOUS
        <4>3. serving'[p] = serving[p]
          BY <1>5, <3>2, <4>1
        <4>4. ASSUME NEW s \in Sockets PROVE bound'[s] \in {bound[s], 0, loading.pid}
          BY <1>5, <3>2
        <4>. QED
          BY <4>1, <4>2, <4>3, <4>4
      <3>. QED
        BY <3>1, <3>2
    <2>. QED
      BY <1>6, <2>2
  <1>9. ProcessIsOwned'
    BY <1>2, <1>3, <1>4, <1>5, <1>6
  <1>10. ServingIsKnown'
    <2>. SUFFICES ASSUME ~overtaken', process # 0, process \in alive
                  PROVE  call.pc = "reloaded" /\ (bound'[call.target] = process => serving'[process] = call.config)
      BY <1>3, <1>6
    <2>1. call.pc = "reloaded" /\ call.config = loading.config /\ ~overtaken
      BY <1>3
    <2>2. call.target \in Sockets /\ process \in Pids
      BY DEF Calls
    <2>3. bound[call.target] = process => serving[process] = call.config
      BY <2>1
    <2>4. CASE process = loading.pid
      BY <1>5, <2>1, <2>3, <2>4
    <2>5. CASE process # loading.pid
      <3>1. serving'[process] = serving[process]
        BY <1>5, <2>2, <2>5
      <3>2. bound'[call.target] = process => bound[call.target] = process
        BY <1>5, <2>2, <2>5
      <3>. QED
        BY <2>1, <2>3, <3>1, <3>2
    <2>. QED
      BY <2>1, <2>4, <2>5
  <1>11. NoStrayCaddy'
    BY <1>2, <1>3, <1>4, <1>5, <1>6
  <1>. QED
    BY <1>7, <1>8, <1>9, <1>10, <1>11

(* Another program takes the port or leaves it, *)
LEMMA PortChangesKeeps ==
    ASSUME IInv, PortChanges
    PROVE  IInv'
  <1>1. Typed
    BY DEF IInv
  <1>2. MovesTo(call.pc)
    BY <1>1, CallMoves DEF PortChanges
  <1>3. taken' \in BOOLEAN
    BY <1>1 DEF PortChanges
  <1>4. faults' \in Nat
    BY <1>1 DEF PortChanges, Fault, Typed
  <1>5. UNCHANGED <<process, socket, digest, lastError, alive, killed, serving, bound, loading, rotated, overtaken, calls, started>>
    BY DEF PortChanges
  <1>. USE DEF IInv, Typed, PidsAreFresh, ProcessIsOwned, ServingIsKnown, NoStrayCaddy, Running,
              MovesTo, Ends, Unbinds, Forgets, Owners, Pids, Served
  <1>. QED
    BY <1>2, <1>3, <1>4, <1>5

(* ... and the root certificate is rotated. *)
LEMMA RotatesKeeps ==
    ASSUME IInv, Rotates
    PROVE  IInv'
  <1>1. Typed
    BY DEF IInv
  <1>2. rotated' \in BOOLEAN /\ faults' \in Nat
    BY <1>1 DEF Rotates, Fault, Typed
  <1>3. UNCHANGED call /\ UNCHANGED <<process, socket, digest, lastError, alive, killed, serving, bound, loading, taken, overtaken, calls, started>>
    BY <1>1 DEF Rotates, adapter
  <1>. USE DEF IInv, Typed, PidsAreFresh, ProcessIsOwned, ServingIsKnown, NoStrayCaddy, Running,
              MovesTo, Ends, Unbinds, Forgets, Owners, Pids, Served
  <1>. QED
    BY <1>2, <1>3
-----------------------------------------------------------------------------
LEMMA InitHolds ==
    ASSUME Init
    PROVE  IInv
  <1>1. call \in Calls
    BY DEF Init, Idle, Calls, CallSteps, Served, Sockets
  <1>2. Typed
    <2>1. loading \in Loadings
      BY DEF Init, NoLoad, Loadings, Owners, Served, Sockets
    <2>2. serving \in [Pids -> Served] /\ bound \in [Sockets -> Owners] /\ alive \in SUBSET Pids /\ killed \in SUBSET Pids
      BY DEF Init, Owners, Served
    <2>3. process \in Owners /\ socket \in Sockets /\ digest \in Served
      BY DEF Init, Owners, Served, Sockets
    <2>4. calls \in Nat /\ started \in 0..MaxStarts /\ faults \in Nat
      BY CaddyAssumption DEF Init
    <2>5. lastError \in BOOLEAN /\ taken \in BOOLEAN /\ rotated \in BOOLEAN /\ overtaken \in BOOLEAN
      BY DEF Init
    <2>. QED
      BY <1>1, <2>1, <2>2, <2>3, <2>4, <2>5 DEF Typed
  <1>3. PidsAreFresh
    BY CaddyAssumption DEF Init, PidsAreFresh, Idle, Pids, Sockets
  <1>4. ProcessIsOwned
    BY DEF Init, ProcessIsOwned, Idle
  <1>5. ServingIsKnown /\ NoStrayCaddy
    BY DEF Init, ServingIsKnown, NoStrayCaddy, Running
  <1>. QED
    BY <1>2, <1>3, <1>4, <1>5 DEF IInv

LEMMA NextKeeps ==
    ASSUME IInv, [Next]_vars
    PROVE  IInv'
  <1>1. CASE UNCHANGED vars
    BY <1>1 DEF vars, adapter, world, IInv, Typed, PidsAreFresh, ProcessIsOwned, ServingIsKnown, NoStrayCaddy, Running
  <1>2. CASE \E config \in Configs : BeginApply(config)
    BY <1>2, BeginApplyKeeps
  <1>3. CASE Steps
    BY <1>3, ValidationFailsKeeps, PurgesKeeps, ValidatedKeeps, LoadKeeps, LoadRefusedKeeps, LoadUnansweredKeeps,
       ReloadReadyKeeps, ReloadNotReadyKeeps, WriteActiveKeeps, WriteFailsKeeps, PortConflictKeeps, StartFailsKeeps,
       StartProcessKeeps, StartReadyKeeps, StartTimesOutKeeps, KillKeeps, ReapKeeps, PostStopKeeps, StoppedKeeps,
       StopTimesOutKeeps DEF Steps
  <1>4. CASE \/ BeginStop
             \/ Boot \/ Dies \/ ExitsKilled \/ ExitsAsked \/ LoadsLate \/ PortChanges \/ Rotates
    BY <1>4, BeginStopKeeps, BootKeeps, DiesKeeps, ExitsKeeps, LoadsLateKeeps, PortChangesKeeps, RotatesKeeps
  <1>. QED
    BY <1>1, <1>2, <1>3, <1>4 DEF Next

\* IInv holds in every state that can be reached.
LEMMA InvariantHolds == Spec => []IInv
  <1>1. Init => IInv
    BY InitHolds
  <1>2. IInv /\ [Next]_vars => IInv'
    BY NextKeeps
  <1>. QED
    BY <1>1, <1>2, PTL DEF Spec

\* No Caddy is left running that the Adapter neither owns nor has killed
\* (adapter.go: startLocked, stopLocked and clearProcessLocked).
THEOREM StraysAreKilled == Spec => []NoStrayCaddy
  <1>1. IInv => NoStrayCaddy
    BY DEF IInv
  <1>. QED
    BY <1>1, InvariantHolds, PTL

\* Between the calls, while lastError is clear and no /load took effect after its
\* call had returned, Caddy serves what the digest says (adapter.go: Apply, Status).
THEOREM DigestTrue == Spec => []DigestIsServed
  <1>1. IInv => DigestIsServed
    BY DEF IInv, ServingIsKnown, DigestIsServed
  <1>. QED
    BY <1>1, InvariantHolds, PTL

-----------------------------------------------------------------------------
(* The log store                                                            *)

\* The lines an Append may be called with, and 0 for the marker.
Numbers == 0 .. MaxLines
Commands == {Line(n) : n \in 1 .. MaxLines} \cup {Barrier, Close}
IsWriter(w) ==
    \/ w = Waiting \/ w = [at |-> "stopped"]
    \/ \E bytes \in Nat, command \in Commands : w = Owes(bytes, command)
    \/ \E command \in Commands : w = [at |-> "command", then |-> command]

LogTyped ==
    /\ appended \in 0 .. MaxLines
    /\ queue \in Seq(Commands) /\ IsWriter(writer)
    /\ {dropped, unreported, lost, reported, marked, unmarked} \subseteq Nat

\* The line the writer has in its hands, and those of the queue.
Pending == {n \in 1 .. MaxLines : writer.at \in {"marker", "command"} /\ writer.then = Line(n)}
Queued == {n \in 1 .. MaxLines : \E i \in DOMAIN queue : queue[i] = Line(n)}

\* What was not written yet is in the order it came in.
QueueKeepsOrder ==
    /\ \A i, j \in DOMAIN queue : \A m, n \in 1 .. MaxLines :
          i < j /\ queue[i] = Line(m) /\ queue[j] = Line(n) => m < n
    /\ \A m \in Pending, n \in Queued : m < n
    /\ \A n \in Pending \cup Queued : n <= appended

\* A list of lines that came before n.
Precedes(lines, n) == \A i \in DOMAIN lines : lines[i] < n
Precede(n) == Precedes(file, n) /\ Precedes(view, n) /\ \A k \in 1 .. Archives : Precedes(archive[k], n)

\* What is on disk or on the page came before what was not written yet, or will
\* ever come.
WrittenPrecedes == \A n \in Pending \cup Queued \cup {appended + 1} : Precede(n)

EndsGrow == \A i, j \in 0 .. Len(file) : i < j => End(i) < End(j)

\* While its file is the current one and its handle is open, the cursor is the end
\* of a line, and what follows was not shown.
Unseen(n) ==
    /\ cursor.offset = End(n)
    /\ \A i \in DOMAIN view, j \in DOMAIN file : n < j /\ view[i] # 0 /\ file[j] # 0 => view[i] < file[j]
CursorTells ==
    /\ cursor.generation <= generation
    /\ cursor = NoCursor => view = << >>
    /\ fileOpen /\ cursor.generation = generation => \E n \in 0 .. Len(file) : Unseen(n)

\* The log is in order, and its cursor tells the page where it is.
LogGood ==
    /\ file \in Seq(Numbers) /\ ends \in Seq(Nat) /\ Len(ends) = Len(file)
    /\ archive \in [1 .. Archives -> Seq(Numbers)]
    /\ generation \in Nat \ {0} /\ cursor \in [generation : Nat, offset : Nat]
    /\ view \in Seq(Numbers)
    /\ LogKeepsOrder /\ EndsGrow /\ CursorTells

LogInv == LogTyped /\ LogGood /\ RefusalsAreCounted /\ QueueKeepsOrder /\ WrittenPrecedes /\ PageNeverRepeats

(* What was written before n was written before every later line. *)
LEMMA PrecedeMore ==
    ASSUME LogGood, NEW n \in Nat, NEW m \in Nat, n <= m, Precede(n)
    PROVE  Precede(m)
  <1>1. ASSUME NEW lines \in Seq(Numbers), Precedes(lines, n) PROVE Precedes(lines, m)
    BY <1>1, LogStoreAssumption DEF Precedes, Numbers
  <1>. QED
    BY <1>1 DEF Precede, LogGood

(* A command is a line, the barrier of a Tail or that of a Close. *)
LEMMA CommandsDiffer ==
    /\ \A m, n : Line(m) = Line(n) => m = n
    /\ \A n : Line(n) # Barrier /\ Line(n) # Close
    /\ \A command \in Commands : command.what = "line" => \E n \in 1 .. MaxLines : command = Line(n)
  <1>1. \A m, n : Line(m) = Line(n) => m = n
    <2>1. \A n : Line(n).line = n
      BY DEF Line
    <2>. QED
      BY <2>1
  <1>2. \A n : Line(n).what = "line"
    BY DEF Line
  <1>3. Barrier.what = "barrier" /\ Close.what = "close"
    BY DEF Barrier, Close
  <1>. QED
    BY <1>1, <1>2, <1>3 DEF Commands

(* What the writer has in its hands. *)
LEMMA WriterIs ==
    ASSUME NEW w, IsWriter(w)
    PROVE  /\ w.at \in {"marker", "command"} => w.then \in Commands
           /\ w.at = "marker" => w.bytes \in Nat
  <1>1. \A bytes, command : /\ Owes(bytes, command).at = "marker" /\ Owes(bytes, command).then = command
                            /\ Owes(bytes, command).bytes = bytes
    BY DEF Owes
  <1>2. Waiting.at = "idle"
    BY DEF Waiting
  <1>3. CASE w = Waiting \/ w = [at |-> "stopped"]
    BY <1>2, <1>3
  <1>4. CASE \E bytes \in Nat, command \in Commands : w = Owes(bytes, command)
    BY <1>1, <1>4
  <1>5. CASE \E command \in Commands : w = [at |-> "command", then |-> command]
    BY <1>5
  <1>. QED
    BY <1>3, <1>4, <1>5, Zenon DEF IsWriter

-----------------------------------------------------------------------------
\* What a step does that leaves the log and the page as they are.
LogRests == UNCHANGED << file, ends, archive, generation, cursor, view >> /\ (fileOpen' => fileOpen)

LEMMA LogRestsKeeps ==
    ASSUME LogGood, LogRests
    PROVE  /\ LogGood' /\ (PageNeverRepeats => PageNeverRepeats')
           /\ \A n : Precede(n) => Precede(n)'
  BY DEF LogGood, LogRests, LogKeepsOrder, Increasing, Before, EndsGrow, End, CursorTells, Unseen,
         PageNeverRepeats, Precede, Precedes

\* What a write that succeeds or fails may do to the file and its archives.
Appends(line) ==
    /\ file' = Append(file, line) /\ ends' = Append(ends, Size + LineBytes[line])
    /\ UNCHANGED << archive, generation >>
RotatesTo(line) ==
    /\ file' = << line >> /\ ends' = << LineBytes[line] >>
    /\ archive' = Rotated /\ generation' = generation + 1
Empties ==
    /\ file' = << >> /\ ends' = << >> /\ archive' = Rotated
    /\ generation' = generation + 1 \/ (generation' = generation /\ fileOpen' = FALSE)
Breaks == \E i \in 1 .. Archives : archive' = Shifted(i) /\ UNCHANGED << file, ends, generation >>

LEMMA WriteDoes ==
    ASSUME NEW line, Write(line) \/ WriteLoses(line)
    PROVE  /\ fileOpen' => fileOpen
           /\ \/ Appends(line) \/ RotatesTo(line) \/ Empties \/ Breaks
              \/ UNCHANGED << file, ends, archive, generation >>
  BY DEF Write, WriteLoses, NewFile, RotationFails, Appends, RotatesTo, Empties, Breaks, disk

LEMMA AppendsKeeps ==
    ASSUME LogGood, NEW line \in Numbers, line # 0 => Precede(line), Appends(line), UNCHANGED << cursor, view >>,
           fileOpen' => fileOpen
    PROVE  /\ LogGood'
           /\ \A n \in Nat : line < n /\ Precede(n) => Precede(n)'
  <1>0. /\ line \in Nat /\ Numbers \subseteq Nat /\ LineBytes[line] \in Nat \ {0}
        /\ Len(file) \in Nat
    BY LogStoreAssumption DEF Numbers, LogGood
  <1>01. PICK last \in Nat : last = Len(file) + 1
    BY <1>0
  <1>1. /\ last \in Nat /\ last = Len(file) + 1
        /\ line \in Nat /\ LineBytes[line] \in Nat \ {0}
        /\ Len(file) \in Nat /\ \A i \in 1 .. Len(file) : file[i] \in Nat /\ ends[i] \in Nat
    <2>1. \A i \in 1 .. Len(file) : file[i] \in Numbers /\ ends[i] \in Nat
      BY DEF LogGood
    <2>. QED
      BY <1>0, <1>01, <2>1
  <1>2. Size \in Nat
    BY <1>1 DEF Size, End, LogGood
  <1>3. /\ file' \in Seq(Numbers) /\ ends' \in Seq(Nat) /\ Len(file') = last /\ Len(ends') = last
        /\ file'[last] = line /\ ends'[last] = Size + LineBytes[line]
        /\ \A i \in 1 .. Len(file) : file'[i] = file[i] /\ ends'[i] = ends[i]
    BY <1>1, <1>2 DEF Appends, LogGood
  <1>4. DOMAIN file' = 1 .. last /\ DOMAIN file = 1 .. Len(file)
    BY <1>3 DEF LogGood
  <1>5. LogKeepsOrder'
    <2>1. Increasing(file)'
      <3>1. ASSUME NEW i \in 1 .. last, NEW j \in 1 .. last, i < j, file'[i] # 0, file'[j] # 0
            PROVE  file'[i] < file'[j]
        <4>1. i \in 1 .. Len(file)
          BY <1>1, <3>1
        <4>2. CASE j = last
          BY <1>3, <1>4, <3>1, <4>1, <4>2 DEF Precede, Precedes
        <4>3. CASE j # last
          <5>1. j \in 1 .. Len(file)
            BY <1>1, <4>3
          <5>. QED
            BY <1>3, <1>4, <3>1, <4>1, <5>1 DEF LogGood, LogKeepsOrder, Increasing
        <4>. QED
          BY <4>2, <4>3
      <3>. QED
        BY <1>4, <3>1 DEF Increasing
    <2>2. ASSUME NEW k \in 1 .. Archives PROVE Before(archive[k], file')
      <3>1. ASSUME NEW i \in DOMAIN archive[k], NEW j \in 1 .. last, archive[k][i] # 0, file'[j] # 0
            PROVE  archive[k][i] < file'[j]
        <4>1. CASE j = last
          BY <1>3, <3>1, <4>1 DEF Precede, Precedes
        <4>2. CASE j # last
          <5>1. j \in 1 .. Len(file)
            BY <1>1, <4>2
          <5>. QED
            BY <1>3, <1>4, <3>1, <5>1 DEF LogGood, LogKeepsOrder, Before
        <4>. QED
          BY <4>1, <4>2
      <3>. QED
        BY <1>4, <3>1 DEF Before
    <2>. QED
      BY <2>1, <2>2 DEF Appends, LogGood, LogKeepsOrder, Increasing, Before
  <1>6. \A i \in 0 .. Len(file) : End(i)' = End(i) /\ End(i) \in Nat
    BY <1>1, <1>3 DEF End
  <1>7. End(last)' = Size + LineBytes[line] /\ Size = End(Len(file))
    BY <1>1, <1>3 DEF End, Size
  <1>8. EndsGrow'
    <2>1. ASSUME NEW i \in 0 .. last, NEW j \in 0 .. last, i < j PROVE End(i)' < End(j)'
      <3>1. i \in 0 .. Len(file)
        BY <1>1, <2>1
      <3>2. CASE j = last
        <4>1. End(i) <= Size
          <5>1. i = Len(file) \/ i < Len(file)
            BY <1>1, <3>1
          <5>2. Len(file) \in 0 .. Len(file) /\ i \in 0 .. Len(file)
            BY <1>1, <3>1
          <5>3. CASE i < Len(file)
            <6>1. End(i) < End(Len(file))
              BY <5>2, <5>3 DEF LogGood, EndsGrow
            <6>. QED
              BY <1>2, <1>6, <1>7, <5>2, <6>1
          <5>. QED
            BY <1>2, <1>7, <5>1, <5>3
        <4>. QED
          BY <1>1, <1>2, <1>6, <1>7, <3>1, <3>2, <4>1
      <3>3. CASE j # last
        <4>1. j \in 0 .. Len(file)
          BY <1>1, <3>3
        <4>. QED
          BY <1>6, <2>1, <3>1, <4>1 DEF LogGood, EndsGrow
      <3>. QED
        BY <3>2, <3>3
    <2>. QED
      BY <1>3, <2>1 DEF EndsGrow
  <1>9. CursorTells'
    <2>1. ASSUME NEW n \in 0 .. Len(file), Unseen(n) PROVE Unseen(n)' /\ n \in 0 .. Len(file')
      <3>1. ASSUME NEW i \in DOMAIN view, NEW j \in 1 .. last, n < j, view[i] # 0, file'[j] # 0
            PROVE  view[i] < file'[j]
        <4>1. CASE j = last
          BY <1>3, <3>1, <4>1 DEF Precede, Precedes
        <4>2. CASE j # last
          <5>1. j \in 1 .. Len(file)
            BY <1>1, <4>2
          <5>. QED
            BY <1>3, <1>4, <2>1, <3>1, <5>1 DEF Unseen
        <4>. QED
          BY <4>1, <4>2
      <3>2. cursor'.offset = End(n)'
        BY <1>6, <2>1 DEF Unseen
      <3>3. Unseen(n)'
        BY <1>4, <3>1, <3>2 DEF Unseen
      <3>. QED
        BY <1>1, <1>3, <3>3
    <2>. QED
      BY <2>1 DEF CursorTells, Appends, LogGood
  <1>10. ASSUME NEW n \in Nat, line < n, Precede(n) PROVE Precede(n)'
    <2>1. ASSUME NEW i \in 1 .. last PROVE file'[i] < n
      <3>1. CASE i = last
        BY <1>3, <1>10, <3>1
      <3>2. CASE i # last
        <4>1. i \in 1 .. Len(file)
          BY <1>1, <3>2
        <4>. QED
          BY <1>3, <1>4, <1>10, <4>1 DEF Precede, Precedes
      <3>. QED
        BY <3>1, <3>2
    <2>2. Precedes(file, n)'
      BY <1>4, <2>1 DEF Precedes
    <2>. QED
      BY <1>10, <2>2 DEF Precede, Precedes, Appends
  <1>. QED
    BY <1>3, <1>5, <1>8, <1>9, <1>10 DEF Appends, LogGood

LEMMA RotationKeeps ==
    ASSUME LogGood, NEW line \in Numbers, line # 0 => Precede(line), RotatesTo(line), UNCHANGED << cursor, view >>
    PROVE  /\ LogGood'
           /\ \A n \in Nat : line < n /\ Precede(n) => Precede(n)'
  <1>1. line \in Nat /\ LineBytes[line] \in Nat \ {0} /\ Archives \in Nat
    BY LogStoreAssumption DEF Numbers
  <1>2. /\ file' \in Seq(Numbers) /\ ends' \in Seq(Nat) /\ Len(file') = 1 /\ Len(ends') = 1
        /\ DOMAIN file' = {1} /\ file'[1] = line /\ ends'[1] = LineBytes[line]
    BY <1>1 DEF RotatesTo
  <1>3. /\ archive' \in [1 .. Archives -> Seq(Numbers)]
        /\ \A k \in 1 .. Archives : archive'[k] = IF k = 1 THEN file ELSE archive[k - 1]
        /\ \A k \in 1 .. Archives : k # 1 => k - 1 \in 1 .. Archives
    BY <1>1 DEF RotatesTo, Rotated, LogGood
  <1>4. LogKeepsOrder'
    <2>1. Increasing(file)'
      BY <1>2 DEF Increasing
    <2>2. ASSUME NEW k \in 1 .. Archives PROVE Increasing(archive'[k]) /\ Before(archive'[k], file')
      <3>1. CASE k = 1
        BY <1>2, <1>3, <3>1 DEF LogGood, LogKeepsOrder, Before, Precede, Precedes
      <3>2. CASE k # 1
        BY <1>2, <1>3, <3>2 DEF LogGood, LogKeepsOrder, Before, Precede, Precedes
      <3>. QED
        BY <3>1, <3>2
    <2>3. ASSUME NEW k \in 1 .. Archives, NEW i \in 1 .. k - 1 PROVE Before(archive'[k], archive'[i])
      <3>1. k # 1 /\ k - 1 \in 1 .. Archives /\ i \in 1 .. Archives
        BY <1>1
      <3>2. CASE i = 1
        BY <1>3, <3>1, <3>2 DEF LogGood, LogKeepsOrder
      <3>3. CASE i # 1
        <4>1. i - 1 \in 1 .. (k - 1) - 1
          BY <1>1, <3>1, <3>3
        <4>. QED
          BY <1>3, <3>1, <3>3, <4>1 DEF LogGood, LogKeepsOrder
      <3>. QED
        BY <3>2, <3>3
    <2>. QED
      BY <2>1, <2>2, <2>3 DEF LogKeepsOrder, Increasing, Before
  <1>5. EndsGrow'
    <2>1. End(0)' = 0 /\ End(1)' = LineBytes[line]
      BY <1>2 DEF End
    <2>2. 0 .. Len(file') = {0, 1}
      BY <1>2
    <2>. QED
      BY <1>1, <2>1, <2>2 DEF EndsGrow
  <1>6. CursorTells' /\ generation' \in Nat \ {0}
    BY DEF LogGood, CursorTells, RotatesTo
  <1>7. ASSUME NEW n \in Nat, line < n, Precede(n) PROVE Precede(n)'
    <2>1. Precedes(file, n)'
      BY <1>2, <1>7 DEF Precedes
    <2>2. \A k \in 1 .. Archives : Precedes(archive'[k], n)
      BY <1>3, <1>7 DEF Precede
    <2>. QED
      BY <1>7, <2>1, <2>2 DEF Precede, Precedes
  <1>. QED
    BY <1>2, <1>3, <1>4, <1>5, <1>6, <1>7 DEF LogGood

(* The new file may stay empty, or not be there. *)
LEMMA EmptiesKeeps ==
    ASSUME LogGood, Empties, UNCHANGED << cursor, view >>
    PROVE  /\ LogGood'
           /\ \A n \in Nat : Precede(n) => Precede(n)'
  <1>1. /\ file' \in Seq(Numbers) /\ ends' \in Seq(Nat) /\ Len(file') = 0 /\ Len(ends') = 0
        /\ DOMAIN file' = {} /\ Archives \in Nat
    BY LogStoreAssumption DEF Empties
  <1>2. /\ archive' \in [1 .. Archives -> Seq(Numbers)]
        /\ \A k \in 1 .. Archives : archive'[k] = IF k = 1 THEN file ELSE archive[k - 1]
        /\ \A k \in 1 .. Archives : k # 1 => k - 1 \in 1 .. Archives
    BY <1>1 DEF Empties, Rotated, LogGood
  <1>3. LogKeepsOrder'
    <2>1. Increasing(file)'
      BY <1>1 DEF Increasing
    <2>2. ASSUME NEW k \in 1 .. Archives PROVE Increasing(archive'[k]) /\ Before(archive'[k], file')
      BY <1>1, <1>2 DEF LogGood, LogKeepsOrder, Before
    <2>3. ASSUME NEW k \in 1 .. Archives, NEW i \in 1 .. k - 1 PROVE Before(archive'[k], archive'[i])
      <3>1. k # 1 /\ k - 1 \in 1 .. Archives /\ i \in 1 .. Archives
        BY <1>1
      <3>2. CASE i = 1
        BY <1>2, <3>1, <3>2 DEF LogGood, LogKeepsOrder
      <3>3. CASE i # 1
        <4>1. i - 1 \in 1 .. (k - 1) - 1
          BY <1>1, <3>1, <3>3
        <4>. QED
          BY <1>2, <3>1, <3>3, <4>1 DEF LogGood, LogKeepsOrder
      <3>. QED
        BY <3>2, <3>3
    <2>. QED
      BY <2>1, <2>2, <2>3 DEF LogKeepsOrder, Increasing, Before
  <1>4. EndsGrow'
    <2>1. 0 .. Len(file') = {0}
      BY <1>1
    <2>. QED
      BY <2>1 DEF EndsGrow
  <1>5. CursorTells' /\ generation' \in Nat \ {0}
    BY DEF LogGood, CursorTells, Empties
  <1>6. ASSUME NEW n \in Nat, Precede(n) PROVE Precede(n)'
    <2>1. \A k \in 1 .. Archives : Precedes(archive'[k], n)
      BY <1>2, <1>6 DEF Precede
    <2>. QED
      BY <1>1, <1>6, <2>1 DEF Precede, Precedes
  <1>. QED
    BY <1>1, <1>2, <1>3, <1>4, <1>5, <1>6 DEF LogGood

LEMMA BreaksKeeps ==
    ASSUME LogGood, Breaks, UNCHANGED << cursor, view >>, fileOpen' => fileOpen
    PROVE  /\ LogGood'
           /\ \A n \in Nat : Precede(n) => Precede(n)'
  <1>1. PICK gap \in 1 .. Archives : archive' = Shifted(gap)
    BY DEF Breaks
  <1>2. UNCHANGED << file, ends, generation >> /\ Archives \in Nat
    BY LogStoreAssumption DEF Breaks
  <1>3. \A k \in 1 .. Archives : gap < k => k - 1 \in 1 .. Archives
    BY <1>2
  <1>4. /\ archive' \in [1 .. Archives -> Seq(Numbers)]
        /\ \A k \in 1 .. Archives : /\ k < gap => archive'[k] = archive[k]
                                    /\ k = gap => archive'[k] = << >>
                                    /\ gap < k => archive'[k] = archive[k - 1]
    BY <1>1, <1>2, <1>3 DEF Shifted, LogGood
  <1>5. ASSUME NEW k \in 1 .. Archives PROVE k < gap \/ k = gap \/ gap < k
    BY <1>2
  <1>6. \A lines : Increasing(<< >>) /\ Before(<< >>, lines) /\ Before(lines, << >>)
    BY DEF Increasing, Before
  <1>7. LogKeepsOrder'
    <2>1. ASSUME NEW k \in 1 .. Archives PROVE Increasing(archive'[k]) /\ Before(archive'[k], file)
      BY <1>3, <1>4, <1>5, <1>6 DEF LogGood, LogKeepsOrder
    <2>2. ASSUME NEW k \in 1 .. Archives, NEW i \in 1 .. k - 1 PROVE Before(archive'[k], archive'[i])
      <3>1. i \in 1 .. Archives
        BY <1>2
      <3>2. CASE k = gap \/ i = gap
        BY <1>4, <1>6, <3>1, <3>2
      <3>3. CASE k < gap
        <4>1. i < gap
          BY <1>2, <3>3
        <4>. QED
          BY <1>4, <3>1, <3>3, <4>1 DEF LogGood, LogKeepsOrder
      <3>4. CASE i < gap /\ gap < k
        <4>1. i \in 1 .. (k - 1) - 1
          BY <1>2, <3>4
        <4>. QED
          BY <1>3, <1>4, <3>1, <3>4, <4>1 DEF LogGood, LogKeepsOrder
      <3>5. CASE gap < i
        <4>1. gap < k /\ i - 1 \in 1 .. (k - 1) - 1
          BY <1>2, <3>5
        <4>. QED
          BY <1>3, <1>4, <3>1, <3>5, <4>1 DEF LogGood, LogKeepsOrder
      <3>. QED
        BY <1>2, <1>5, <3>1, <3>2, <3>3, <3>4, <3>5
    <2>. QED
      BY <1>2, <2>1, <2>2 DEF LogGood, LogKeepsOrder, Increasing, Before
  <1>8. EndsGrow' /\ CursorTells'
    BY <1>2 DEF LogGood, EndsGrow, End, CursorTells, Unseen
  <1>9. ASSUME NEW n \in Nat, Precede(n) PROVE Precede(n)'
    <2>1. Precedes(<< >>, n)
      BY DEF Precedes
    <2>2. \A k \in 1 .. Archives : Precedes(archive'[k], n)
      BY <1>3, <1>4, <1>5, <1>9, <2>1 DEF Precede
    <2>. QED
      BY <1>2, <1>9, <2>2 DEF Precede, Precedes
  <1>. QED
    BY <1>2, <1>4, <1>7, <1>8, <1>9 DEF LogGood

(* A line that comes after all that was written is written in its place, or not. *)
LEMMA WriteKeeps ==
    ASSUME LogGood, NEW line \in Numbers, line # 0 => Precede(line), UNCHANGED << cursor, view >>,
           Write(line) \/ WriteLoses(line)
    PROVE  /\ LogGood'
           /\ \A n \in Nat : line < n /\ Precede(n) => Precede(n)'
  <1>1. ASSUME UNCHANGED << file, ends, archive, generation >>
        PROVE  LogGood' /\ \A n \in Nat : Precede(n) => Precede(n)'
    BY <1>1, WriteDoes DEF LogGood, LogKeepsOrder, Increasing, Before, EndsGrow, End, CursorTells, Unseen,
                Precede, Precedes
  <1>. QED
    BY <1>1, WriteDoes, AppendsKeeps, RotationKeeps, EmptiesKeeps, BreaksKeeps

-----------------------------------------------------------------------------
(* What goes into the queue goes behind what is there. *)
LEMMA QueueGets ==
    ASSUME LogTyped, NEW command \in Commands, queue' = Append(queue, command), UNCHANGED writer
    PROVE  /\ queue' \in Seq(Commands) /\ Pending' = Pending
           /\ command \in {Barrier, Close} => Queued' = Queued
           /\ \A n \in 1 .. MaxLines : command = Line(n) => Queued' = Queued \cup {n}
           /\ QueueKeepsOrder /\ appended <= appended' /\ appended' \in Nat
                /\ (\A n \in 1 .. MaxLines : command = Line(n) => appended < n /\ n <= appended')
              => QueueKeepsOrder'
  <1>1. PICK last \in Nat : last = Len(queue) + 1
    BY DEF LogTyped
  <1>2. /\ queue' \in Seq(Commands) /\ DOMAIN queue' = 1 .. last /\ queue'[last] = command
        /\ \A i \in DOMAIN queue : queue'[i] = queue[i] /\ i < last
        /\ \A i \in DOMAIN queue' : i # last => i \in DOMAIN queue
        /\ DOMAIN queue \subseteq DOMAIN queue' /\ last \in DOMAIN queue'
    BY <1>1 DEF LogTyped
  <1>3. Pending' = Pending
    BY DEF Pending
  <1>4. \A n \in 1 .. MaxLines : n \in Queued' <=> n \in Queued \/ command = Line(n)
    BY <1>2 DEF Queued
  <1>5. Queued \subseteq 1 .. MaxLines /\ Queued' \subseteq 1 .. MaxLines
    BY DEF Queued
  <1>6. command \in {Barrier, Close} => Queued' = Queued
    BY <1>4, <1>5, CommandsDiffer
  <1>7. \A n \in 1 .. MaxLines : command = Line(n) => Queued' = Queued \cup {n}
    BY <1>4, <1>5, CommandsDiffer
  <1>8. ASSUME QueueKeepsOrder, appended <= appended', appended' \in Nat,
               \A n \in 1 .. MaxLines : command = Line(n) => appended < n /\ n <= appended'
        PROVE  QueueKeepsOrder'
    <2>1. Pending \subseteq 1 .. MaxLines /\ appended \in Nat /\ MaxLines \in Nat
      BY LogStoreAssumption DEF Pending, LogTyped
    <2>2. ASSUME NEW i \in DOMAIN queue', NEW j \in DOMAIN queue', NEW m \in 1 .. MaxLines, NEW n \in 1 .. MaxLines,
                 i < j, queue'[i] = Line(m), queue'[j] = Line(n)
          PROVE  m < n
      <3>1. i \in DOMAIN queue
        BY <1>1, <1>2, <2>2
      <3>2. CASE j = last
        <4>1. m \in Queued
          BY <1>2, <2>2, <3>1 DEF Queued
        <4>. QED
          BY <1>2, <1>8, <2>1, <2>2, <3>2, <4>1 DEF QueueKeepsOrder
      <3>3. CASE j # last
        BY <1>2, <1>8, <2>2, <3>1, <3>3 DEF QueueKeepsOrder
      <3>. QED
        BY <3>2, <3>3
    <2>3. ASSUME NEW m \in Pending', NEW n \in Queued' PROVE m < n
      <3>1. m \in Pending /\ m <= appended /\ m \in Nat
        BY <1>3, <1>8, <2>1, <2>3 DEF QueueKeepsOrder
      <3>2. CASE n \in Queued
        BY <1>8, <3>1, <3>2 DEF QueueKeepsOrder
      <3>3. CASE command = Line(n)
        BY <1>5, <1>8, <2>1, <2>3, <3>1, <3>3
      <3>. QED
        BY <1>4, <1>5, <2>3, <3>2, <3>3
    <2>4. ASSUME NEW n \in Pending' \cup Queued' PROVE n <= appended'
      <3>1. n \in Pending \/ n \in Queued \/ (command = Line(n) /\ n \in 1 .. MaxLines)
        <4>1. CASE n \in Pending'
          BY <1>3, <4>1
        <4>2. CASE n \in Queued'
          <5>1. n \in 1 .. MaxLines
            BY <1>5, <4>2
          <5>. QED
            BY <1>4, <4>2, <5>1
        <4>. QED
          BY <2>4, <4>1, <4>2
      <3>2. CASE n \in Pending \/ n \in Queued
        <4>1. n \in Nat /\ n <= appended
          <5>1. n \in 1 .. MaxLines
            BY <1>5, <2>1, <3>2
          <5>2. \A k \in Pending \cup Queued : k <= appended
            BY <1>8 DEF QueueKeepsOrder
          <5>. QED
            BY <3>2, <5>1, <5>2
        <4>. QED
          BY <1>8, <2>1, <4>1
      <3>. QED
        BY <1>8, <3>1, <3>2
    <2>. QED
      BY <2>2, <2>3, <2>4 DEF QueueKeepsOrder
  <1>. QED
    BY <1>2, <1>3, <1>6, <1>7, <1>8

LEMMA AppendLineKeeps == ASSUME LogInv, AppendLine PROVE LogInv'
  <1>1. LogGood' /\ PageNeverRepeats' /\ \A n : Precede(n) => Precede(n)'
    BY LogRestsKeeps DEF LogInv, AppendLine, reader, disk, LogRests
  <1>2. /\ appended \in Nat /\ appended' = appended + 1 /\ appended' \in 0 .. MaxLines /\ appended' \in 1 .. MaxLines
        /\ writer' = writer /\ UNCHANGED << marked, unmarked >> /\ reported' = reported /\ MaxLines \in Nat
        /\ LineBytes[appended'] \in Nat
    BY LogStoreAssumption DEF AppendLine, LogInv, LogTyped, reader, markers
  <1>3. LogTyped /\ QueueKeepsOrder /\ WrittenPrecedes /\ LogGood
    BY DEF LogInv
  <1>4. \A n \in Pending \cup Queued : n <= appended /\ n \in Nat
    BY <1>3 DEF QueueKeepsOrder, Pending, Queued
  <1>5. ASSUME NEW n \in {appended + 1, appended' + 1} PROVE Precede(n)'
    <2>1. Precede(appended + 1) /\ appended + 1 \in Nat /\ appended + 1 <= appended' + 1 /\ appended' + 1 \in Nat
      BY <1>2, <1>3 DEF WrittenPrecedes
    <2>2. Precede(n)
      BY <1>2, <1>3, <2>1, PrecedeMore
    <2>. QED
      BY <1>1, <2>2
  <1>6. CASE Refuse(appended')
    <2>1. queue' = queue /\ Pending' = Pending /\ Queued' = Queued
      BY <1>2, <1>6 DEF Refuse, Pending, Queued
    <2>2. LogTyped' /\ RefusalsAreCounted'
      <3>1. /\ dropped \in Nat /\ unreported \in Nat /\ lost \in Nat /\ reported \in Nat
            /\ marked \in Nat /\ unmarked \in Nat
        BY <1>3 DEF LogTyped
      <3>2. writer.at = "marker" => writer.bytes \in Nat
        BY <1>3, WriterIs DEF LogTyped
      <3>3. dropped' \in Nat /\ unreported' \in Nat /\ lost' \in Nat
        BY <1>2, <1>6, <3>1 DEF Refuse
      <3>4. LogTyped'
        BY <1>2, <1>3, <2>1, <3>1, <3>3 DEF LogTyped
      <3>5. RefusalsAreCounted
        BY DEF LogInv
      <3>6. RefusalsAreCounted'
        <4>1. PICK bytes \in Nat : dropped' = dropped + bytes /\ unreported' = unreported + bytes /\ lost' = lost + bytes
          BY <1>2, <1>6 DEF Refuse
        <4>2. CASE writer.at = "marker"
          BY <1>2, <3>1, <3>2, <3>5, <4>1, <4>2 DEF RefusalsAreCounted
        <4>3. CASE writer.at # "marker"
          BY <1>2, <3>1, <3>5, <4>1, <4>3 DEF RefusalsAreCounted
        <4>. QED
          BY <4>2, <4>3
      <3>. QED
        BY <3>4, <3>6
    <2>3. QueueKeepsOrder'
      <3>1. \A n \in Pending \cup Queued : n <= appended'
        BY <1>2, <1>4
      <3>. QED
        BY <1>3, <2>1, <3>1 DEF QueueKeepsOrder
    <2>4. WrittenPrecedes'
      BY <1>1, <1>3, <1>5, <2>1 DEF WrittenPrecedes
    <2>. QED
      BY <1>1, <2>2, <2>3, <2>4 DEF LogInv
  <1>7. CASE queue' = Append(queue, Line(appended')) /\ UNCHANGED << dropped, unreported, lost >>
    <2>1. PICK command \in Commands : command = Line(appended')
      BY <1>2 DEF Commands
    <2>2. \A n : command = Line(n) => n = appended'
      BY <2>1, CommandsDiffer
    <2>3. /\ queue' \in Seq(Commands) /\ Pending' = Pending /\ Queued' = Queued \cup {appended'}
          /\ QueueKeepsOrder'
      BY <1>2, <1>3, <1>7, <2>1, <2>2, QueueGets
    <2>4. LogTyped' /\ RefusalsAreCounted'
      BY <1>2, <1>7, <2>3 DEF LogInv, LogTyped, RefusalsAreCounted
    <2>5. WrittenPrecedes'
      BY <1>1, <1>2, <1>3, <1>5, <2>3 DEF WrittenPrecedes
    <2>. QED
      BY <1>1, <2>3, <2>4, <2>5 DEF LogInv
  <1>. QED
    BY <1>6, <1>7 DEF AppendLine

LEMMA TakeKeeps == ASSUME LogInv, Take PROVE LogInv'
  <1>1. LogGood' /\ PageNeverRepeats' /\ \A n : Precede(n) => Precede(n)'
    BY LogRestsKeeps DEF LogInv, Take, reader, disk, LogRests
  <1>2. PICK command \in Commands : command = Head(queue)
    BY DEF LogInv, LogTyped, Take
  <1>3. /\ queue' \in Seq(Commands) /\ DOMAIN queue = 1 .. Len(queue) /\ DOMAIN queue' = 1 .. Len(queue) - 1
        /\ \A i \in DOMAIN queue' : i + 1 \in DOMAIN queue /\ queue'[i] = queue[i + 1]
        /\ 1 \in DOMAIN queue /\ queue[1] = command /\ Len(queue) \in Nat
    BY <1>2 DEF LogInv, LogTyped, Take
  <1>4. /\ writer'.at = "marker" /\ writer'.then = command /\ writer'.bytes = dropped
        /\ IsWriter(writer') /\ writer.at = "idle"
    BY <1>2 DEF Take, Owes, IsWriter, LogInv, LogTyped, Waiting
  <1>5. LogTyped' /\ RefusalsAreCounted'
    BY <1>3, <1>4 DEF LogInv, LogTyped, Take, reader, markers, RefusalsAreCounted
  <1>6. Pending' \subseteq Queued /\ Queued' \subseteq Queued /\ \A n \in Pending' : queue[1] = Line(n)
    BY <1>3, <1>4 DEF Pending, Queued
  <1>7. QueueKeepsOrder'
    <2>1. ASSUME NEW i \in DOMAIN queue', NEW j \in DOMAIN queue', NEW m \in 1 .. MaxLines, NEW n \in 1 .. MaxLines,
                 i < j, queue'[i] = Line(m), queue'[j] = Line(n)
          PROVE  m < n
      <3>1. /\ i + 1 \in DOMAIN queue /\ j + 1 \in DOMAIN queue /\ i + 1 < j + 1
            /\ queue[i + 1] = Line(m) /\ queue[j + 1] = Line(n)
        BY <1>3, <2>1
      <3>. QED
        BY <3>1 DEF LogInv, QueueKeepsOrder
    <2>2. ASSUME NEW m \in Pending', NEW n \in Queued' PROVE m < n
      <3>1. m \in 1 .. MaxLines /\ n \in 1 .. MaxLines /\ queue[1] = Line(m)
        BY <1>6, <2>2 DEF Pending, Queued
      <3>2. PICK i \in DOMAIN queue' : queue'[i] = Line(n)
        BY <2>2 DEF Queued
      <3>3. i + 1 \in DOMAIN queue /\ queue[i + 1] = Line(n) /\ 1 < i + 1
        BY <1>3, <3>2
      <3>. QED
        BY <1>3, <3>1, <3>3 DEF LogInv, QueueKeepsOrder
    <2>3. \A n \in Pending' \cup Queued' : n <= appended'
      BY <1>6 DEF LogInv, QueueKeepsOrder, Take
    <2>. QED
      BY <2>1, <2>2, <2>3 DEF QueueKeepsOrder
  <1>8. WrittenPrecedes'
    BY <1>1, <1>6 DEF LogInv, WrittenPrecedes, Take
  <1>. QED
    BY <1>1, <1>5, <1>7, <1>8 DEF LogInv

(* The marker is no line: it takes its place without overtaking. *)
LEMMA MarkerKeeps == ASSUME LogInv, WriteMarker PROVE LogInv'
  <1>1. /\ writer.then \in Commands /\ writer.bytes \in Nat /\ writer'.at = "command"
        /\ writer'.then = writer.then /\ IsWriter(writer') /\ writer.at = "marker"
    BY WriterIs DEF LogInv, LogTyped, WriteMarker, IsWriter
  <1>2. LogTyped' /\ RefusalsAreCounted'
    <2>1. /\ dropped \in Nat /\ unreported \in Nat /\ lost \in Nat /\ reported \in Nat
          /\ marked \in Nat /\ unmarked \in Nat
          /\ lost = reported + unreported /\ lost = marked + unmarked + dropped + writer.bytes
      BY <1>1 DEF LogInv, LogTyped, RefusalsAreCounted
    <2>2. /\ marked' \in Nat /\ unmarked' \in Nat /\ marked' + unmarked' = marked + unmarked + writer.bytes
          /\ UNCHANGED << appended, queue, dropped, unreported, lost, reported >>
      BY <1>1, <2>1 DEF WriteMarker, entry, reader, markers
    <2>3. LogTyped'
      BY <1>1, <2>1, <2>2 DEF LogInv, LogTyped
    <2>4. lost' = marked' + unmarked' + dropped' /\ lost' = reported' + unreported'
      <3>1. PICK bytes \in Nat : bytes = writer.bytes
        BY <1>1
      <3>2. lost = marked + unmarked + dropped + bytes /\ marked' + unmarked' = marked + unmarked + bytes
        BY <2>1, <2>2, <3>1
      <3>3. lost' = lost /\ dropped' = dropped /\ reported' = reported /\ unreported' = unreported
        BY <2>2
      <3>4. \A m, u \in Nat : m + u = marked + unmarked + bytes => m + u + dropped = marked + unmarked + dropped + bytes
        BY <2>1
      <3>5. marked' + unmarked' + dropped = marked + unmarked + dropped + bytes
        BY <2>2, <3>2, <3>4
      <3>. QED
        BY <2>1, <3>2, <3>3, <3>5
    <2>5. RefusalsAreCounted'
      BY <1>1, <2>1, <2>2, <2>4 DEF RefusalsAreCounted
    <2>. QED
      BY <2>3, <2>5
  <1>3. Pending' = Pending /\ Queued' = Queued /\ QueueKeepsOrder'
    <2>1. Pending' = Pending /\ Queued' = Queued
      BY <1>1 DEF WriteMarker, Pending, Queued
    <2>. QED
      BY <2>1 DEF LogInv, QueueKeepsOrder, WriteMarker, entry
  <1>4. ASSUME NEW n \in Pending \cup Queued \cup {appended + 1} PROVE n \in Nat /\ 0 < n
    BY DEF Pending, Queued, LogInv, LogTyped
  <1>5. LogGood' /\ \A n \in Nat : 0 < n /\ Precede(n) => Precede(n)'
    <2>1. CASE writer.bytes > 0
      <3>1. 0 \in Numbers /\ (Write(0) \/ WriteLoses(0)) /\ UNCHANGED << cursor, view >>
        BY <2>1, LogStoreAssumption DEF WriteMarker, reader, Numbers
      <3>. QED
        BY <3>1, WriteKeeps DEF LogInv
    <2>2. CASE ~(writer.bytes > 0)
      <3>1. LogRests
        BY <2>2 DEF WriteMarker, reader, disk, LogRests
      <3>. QED
        BY <3>1, LogRestsKeeps DEF LogInv
    <2>. QED
      BY <2>1, <2>2
  <1>6. WrittenPrecedes'
    BY <1>3, <1>4, <1>5 DEF LogInv, WrittenPrecedes, WriteMarker, entry
  <1>7. PageNeverRepeats'
    BY DEF LogInv, PageNeverRepeats, Increasing, WriteMarker, reader
  <1>. QED
    BY <1>2, <1>3, <1>5, <1>6, <1>7 DEF LogInv

LEMMA CommandKeeps == ASSUME LogInv, WriteCommand PROVE LogInv'
  <1>1. writer.at = "command" /\ writer.then \in Commands
    BY WriterIs DEF LogInv, LogTyped, WriteCommand
  <1>2. /\ writer'.at \in {"idle", "stopped"} /\ IsWriter(writer')
        /\ UNCHANGED << queue, appended, cursor, view, dropped, unreported, lost, reported, marked, unmarked >>
    BY DEF WriteCommand, Waiting, IsWriter, entry, markers
  <1>3. LogTyped' /\ RefusalsAreCounted'
    BY <1>1, <1>2 DEF LogInv, LogTyped, RefusalsAreCounted
  <1>4. Pending' = {} /\ Queued' = Queued /\ QueueKeepsOrder'
    <2>1. Pending' = {} /\ Queued' = Queued
      BY <1>2 DEF Pending, Queued
    <2>. QED
      BY <1>2, <2>1 DEF LogInv, QueueKeepsOrder
  <1>5. PageNeverRepeats'
    BY <1>2 DEF LogInv, PageNeverRepeats, Increasing
  <1>6. CASE writer.then.what = "line" /\ (Write(writer.then.line) \/ WriteLoses(writer.then.line))
    <2>1. PICK n \in 1 .. MaxLines : writer.then = Line(n)
      BY <1>1, <1>6, CommandsDiffer
    <2>2. n \in Pending /\ writer.then.line = n
      BY <1>1, <2>1 DEF Pending, Line
    <2>3. n \in Numbers /\ (Write(n) \/ WriteLoses(n)) /\ Precede(n)
      BY <1>6, <2>2, LogStoreAssumption DEF Numbers, LogInv, WrittenPrecedes
    <2>4. LogGood' /\ \A m \in Nat : n < m /\ Precede(m) => Precede(m)'
      BY <1>2, <2>3, WriteKeeps DEF LogInv
    <2>5. ASSUME NEW m \in Queued \cup {appended + 1} PROVE Precede(m)'
      <3>1. m \in Nat /\ Precede(m)
        BY DEF Queued, LogInv, LogTyped, WrittenPrecedes
      <3>2. n < m
        BY <2>2 DEF LogInv, LogTyped, QueueKeepsOrder
      <3>. QED
        BY <2>4, <3>1, <3>2
    <2>6. WrittenPrecedes'
      BY <1>2, <1>4, <2>5 DEF WrittenPrecedes
    <2>. QED
      BY <1>3, <1>4, <1>5, <2>4, <2>6 DEF LogInv
  <1>7. CASE LogRests
    <2>1. LogGood' /\ \A n : Precede(n) => Precede(n)'
      BY <1>7, LogRestsKeeps DEF LogInv
    <2>2. WrittenPrecedes'
      BY <1>2, <1>4, <2>1 DEF LogInv, WrittenPrecedes
    <2>. QED
      BY <1>3, <1>4, <1>5, <2>1, <2>2 DEF LogInv
  <1>. QED
    BY <1>2, <1>6, <1>7 DEF WriteCommand, disk, LogRests

(* Nothing that is written or counted moves, and a barrier may be queued. *)
LEMMA LogOutside ==
    ASSUME LogInv, UNCHANGED << appended, unreported, lost, dropped, reported, marked, unmarked, writer >>, LogRests,
           \/ UNCHANGED queue
           \/ \E command \in {Barrier, Close} : queue' = Append(queue, command)
    PROVE  LogInv'
  <1>1. LogGood' /\ PageNeverRepeats' /\ \A n : Precede(n) => Precede(n)'
    BY LogRestsKeeps DEF LogInv
  <1>2. queue' \in Seq(Commands) /\ Pending' = Pending /\ Queued' = Queued /\ QueueKeepsOrder'
    <2>1. CASE UNCHANGED queue
      <3>1. Pending' = Pending /\ Queued' = Queued
        BY <2>1 DEF Pending, Queued
      <3>. QED
        BY <2>1, <3>1 DEF LogInv, LogTyped, QueueKeepsOrder
    <2>2. CASE \E command \in {Barrier, Close} : queue' = Append(queue, command)
      <3>1. PICK command \in {Barrier, Close} : queue' = Append(queue, command)
        BY <2>2
      <3>2. command \in Commands /\ \A n : command # Line(n)
        BY CommandsDiffer DEF Commands
      <3>3. LogTyped /\ QueueKeepsOrder /\ appended' = appended /\ appended \in Nat
        BY DEF LogInv, LogTyped
      <3>. QED
        BY <3>1, <3>2, <3>3, QueueGets
    <2>. QED
      BY <2>1, <2>2
  <1>3. LogTyped' /\ RefusalsAreCounted'
    BY <1>2 DEF LogInv, LogTyped, RefusalsAreCounted
  <1>4. WrittenPrecedes'
    BY <1>1, <1>2 DEF LogInv, WrittenPrecedes
  <1>. QED
    BY <1>1, <1>2, <1>3, <1>4 DEF LogInv

(* A line that nobody takes leaves the rest as it is. *)
LEMMA IgnoredKeeps == ASSUME LogInv, AppendIgnored PROVE LogInv'
  <1>1. LogGood' /\ PageNeverRepeats' /\ \A n : Precede(n) => Precede(n)'
    BY LogRestsKeeps DEF LogInv, AppendIgnored, reader, disk, LogRests
  <1>2. /\ appended \in Nat /\ appended' = appended + 1 /\ appended' \in 0 .. MaxLines
        /\ UNCHANGED << queue, writer, dropped, unreported, lost, reported, marked, unmarked >>
    BY LogStoreAssumption DEF AppendIgnored, LogInv, LogTyped, reader, markers
  <1>3. Pending' = Pending /\ Queued' = Queued
    BY <1>2 DEF Pending, Queued
  <1>4. LogTyped' /\ RefusalsAreCounted'
    BY <1>2 DEF LogInv, LogTyped, RefusalsAreCounted
  <1>5. QueueKeepsOrder'
    <2>1. \A n \in Pending \cup Queued : n <= appended /\ n \in Nat
      BY DEF LogInv, QueueKeepsOrder, Pending, Queued
    <2>2. \A n \in Pending \cup Queued : n <= appended'
      BY <1>2, <2>1
    <2>. QED
      BY <1>2, <1>3, <2>2 DEF LogInv, QueueKeepsOrder
  <1>6. WrittenPrecedes'
    <2>1. Precede(appended + 1) /\ appended + 1 \in Nat /\ appended' + 1 \in Nat /\ appended + 1 <= appended' + 1
      BY <1>2 DEF LogInv, WrittenPrecedes
    <2>2. PICK next \in Nat : next = appended' + 1
      BY <2>1
    <2>3. Precede(next)
      BY <2>1, <2>2, PrecedeMore DEF LogInv
    <2>4. Precede(next)'
      BY <1>1, <2>3
    <2>5. \A n \in Pending \cup Queued : Precede(n)'
      BY <1>1 DEF LogInv, WrittenPrecedes
    <2>. QED
      BY <1>3, <2>2, <2>4, <2>5 DEF WrittenPrecedes
  <1>. QED
    BY <1>1, <1>4, <1>5, <1>6 DEF LogInv

-----------------------------------------------------------------------------
(* What a Tail returns *)

(* The lines that end before an offset are at least the first n, if those do. *)
LEMMA LinesBeforeIs ==
    ASSUME LogGood, NEW n \in 0 .. Len(file), NEW offset \in Nat, End(n) <= offset
    PROVE  LinesBefore(offset) \in Nat /\ n <= LinesBefore(offset)
  <1>. DEFINE S == {i \in DOMAIN file : End(i) <= offset}
  <1>1. DOMAIN file = 1 .. Len(file) /\ Len(file) \in Nat /\ n \in Nat /\ DOMAIN ends = 1 .. Len(file)
    BY DEF LogGood
  <1>2. IsFiniteSet(S) /\ Cardinality(S) \in Nat
    <2>1. IsFiniteSet(1 .. Len(file)) /\ S \in SUBSET (1 .. Len(file))
      BY <1>1, FS_Interval
    <2>2. IsFiniteSet(S)
      BY <2>1, FS_Subset
    <2>. QED
      BY <2>2, FS_CardinalityType
  <1>3. \A i \in 0 .. Len(file) : End(i) \in Nat
    BY <1>1 DEF LogGood, End
  <1>4. 1 .. n \subseteq S
    <2>1. ASSUME NEW i \in 1 .. n PROVE i \in S
      <3>1. i \in 0 .. Len(file) /\ i \in DOMAIN file /\ (i = n \/ i < n)
        BY <1>1
      <3>2. End(i) \in Nat /\ End(n) \in Nat /\ (i = n \/ End(i) < End(n))
        BY <1>3, <3>1 DEF LogGood, EndsGrow
      <3>3. End(i) <= offset
        BY <3>2
      <3>. QED
        BY <3>1, <3>3
    <2>. QED
      BY <2>1
  <1>5. Cardinality(1 .. n) = n
    BY <1>1, FS_Interval
  <1>6. Cardinality(1 .. n) <= Cardinality(S)
    BY <1>2, <1>4, FS_Subset
  <1>. QED
    BY <1>2, <1>5, <1>6 DEF LinesBefore

(* The end of a list. *)
LEMMA EndOfList ==
    ASSUME NEW S, NEW list \in Seq(S), NEW first \in Nat \ {0}
    PROVE  LET rest == SubSeq(list, first, Len(list)) IN
           /\ rest \in Seq(S)
           /\ \A k \in DOMAIN rest : first - 1 + k \in DOMAIN list /\ rest[k] = list[first - 1 + k]
  OBVIOUS

(* A window that starts where the first n lines end, or later, shows lines    *)
(* behind those only, side by side.                                           *)
LEMMA ReturnedIs ==
    ASSUME LogGood, NEW n \in 0 .. Len(file), Base = End(n)
    PROVE  /\ Returned \in Seq(Numbers)
           /\ \E skip \in Nat : n <= skip /\ \A k \in DOMAIN Returned :
                skip + k \in DOMAIN file /\ Returned[k] = file[skip + k]
  <1>1. Len(file) \in Nat /\ n \in Nat /\ \A i \in 0 .. Len(file) : End(i) \in Nat
    BY DEF LogGood, End
  <1>2. TailBytes \in Nat /\ TailLines \in Nat
    BY LogStoreAssumption
  <1>3. Base \in Nat /\ Size \in Nat
    BY <1>1 DEF Size
  <1>4. Start \in Nat /\ Base <= Start
    BY <1>2, <1>3 DEF Start, OverBudget
  <1>5. FirstLine \in Nat \ {0} /\ n < FirstLine
    <2>1. CASE Start = 0
      <3>1. End(n) = 0 /\ End(0) = 0 /\ 0 \in 0 .. Len(file)
        BY <1>1, <1>3, <1>4, <2>1 DEF End
      <3>2. n = 0
        BY <1>1, <3>1 DEF LogGood, EndsGrow
      <3>. QED
        BY <2>1, <3>2 DEF FirstLine
    <2>2. CASE Start # 0
      <3>1. LinesBefore(Start) \in Nat /\ n <= LinesBefore(Start)
        BY <1>4, LinesBeforeIs
      <3>2. FirstLine = LinesBefore(Start) + 2
        BY <2>2 DEF FirstLine
      <3>. QED
        BY <1>1, <3>1, <3>2
    <2>. QED
      BY <2>1, <2>2
  <1>6. /\ Window \in Seq(Numbers)
        /\ \A k \in DOMAIN Window : FirstLine - 1 + k \in DOMAIN file /\ Window[k] = file[FirstLine - 1 + k]
    BY <1>5, EndOfList DEF LogGood, Window
  <1>7. Surplus \in Nat
    BY <1>2, <1>6 DEF Surplus
  <1>8. /\ Returned \in Seq(Numbers)
        /\ \A k \in DOMAIN Returned : Surplus + k \in DOMAIN Window /\ Returned[k] = Window[Surplus + k]
    <2>1. Surplus + 1 \in Nat \ {0} /\ (Surplus + 1) - 1 = Surplus
      BY <1>7
    <2>. QED
      BY <1>6, <2>1, EndOfList DEF Returned
  <1>9. PICK skip \in Nat : skip = FirstLine - 1 + Surplus
    BY <1>5, <1>7
  <1>10. n <= skip
    BY <1>1, <1>5, <1>7, <1>9
  <1>11. ASSUME NEW k \in DOMAIN Returned PROVE skip + k \in DOMAIN file /\ Returned[k] = file[skip + k]
    <2>1. k \in Nat
      BY <1>8
    <2>2. FirstLine - 1 + (Surplus + k) = skip + k
      BY <1>5, <1>7, <1>9, <2>1
    <2>. QED
      BY <1>6, <1>8, <2>2
  <1>. QED
    BY <1>8, <1>10, <1>11

(* The page, with what a Tail returned behind it. *)
LEMMA PageGrows ==
    ASSUME NEW old \in Seq(Numbers), NEW more \in Seq(Numbers), Increasing(old), Increasing(more), Before(old, more)
    PROVE  /\ old \o more \in Seq(Numbers) /\ Increasing(old \o more)
           /\ \A n : Precedes(old, n) /\ Precedes(more, n) => Precedes(old \o more, n)
  <1>. DEFINE page == old \o more
  <1>1. /\ page \in Seq(Numbers) /\ Len(old) \in Nat /\ Len(more) \in Nat /\ Len(page) = Len(old) + Len(more)
        /\ DOMAIN old = 1 .. Len(old) /\ DOMAIN more = 1 .. Len(more) /\ DOMAIN page = 1 .. Len(page)
    OBVIOUS
  <1>2. ASSUME NEW i \in DOMAIN page
        PROVE  \/ i \in DOMAIN old /\ page[i] = old[i]
               \/ i - Len(old) \in DOMAIN more /\ page[i] = more[i - Len(old)] /\ Len(old) < i
    OBVIOUS
  <1>. HIDE DEF page
  <1>3. ASSUME NEW i \in DOMAIN page, NEW j \in DOMAIN page, i < j, page[i] # 0, page[j] # 0 PROVE page[i] < page[j]
    <2>1. CASE i \in DOMAIN old /\ page[i] = old[i]
      <3>1. CASE j \in DOMAIN old /\ page[j] = old[j]
        BY <1>3, <2>1, <3>1 DEF Increasing
      <3>2. CASE j - Len(old) \in DOMAIN more /\ page[j] = more[j - Len(old)]
        BY <1>3, <2>1, <3>2 DEF Before
      <3>. QED
        BY <1>2, <3>1, <3>2
    <2>2. CASE i - Len(old) \in DOMAIN more /\ page[i] = more[i - Len(old)] /\ Len(old) < i
      <3>1. j - Len(old) \in DOMAIN more /\ page[j] = more[j - Len(old)]
        BY <1>1, <1>2, <1>3, <2>2
      <3>2. i - Len(old) < j - Len(old)
        BY <1>1, <1>3
      <3>. QED
        BY <1>3, <2>2, <3>1, <3>2 DEF Increasing
    <2>. QED
      BY <1>2, <2>1, <2>2
  <1>4. \A n : Precedes(old, n) /\ Precedes(more, n) => Precedes(page, n)
    BY <1>2 DEF Precedes
  <1>. QED
    BY <1>1, <1>3, <1>4 DEF Increasing, page

LEMMA ReadKeeps == ASSUME LogInv, ReadTail PROVE LogInv'
  <1>1. UNCHANGED << appended, queue, dropped, lost, marked, unmarked, writer, file, ends, archive, generation, fileOpen >>
    BY DEF ReadTail, disk, markers
  <1>2. Pending' = Pending /\ Queued' = Queued
    BY <1>1 DEF Pending, Queued
  <1>3. QueueKeepsOrder' /\ LogTyped' /\ RefusalsAreCounted'
    <2>1. QueueKeepsOrder'
      BY <1>1, <1>2 DEF LogInv, QueueKeepsOrder
    <2>2. /\ dropped \in Nat /\ unreported \in Nat /\ lost \in Nat /\ reported \in Nat
          /\ marked \in Nat /\ unmarked \in Nat
      BY DEF LogInv, LogTyped
    <2>3. unreported' \in Nat /\ reported' \in Nat /\ reported' + unreported' = reported + unreported
      BY <2>2 DEF ReadTail
    <2>. QED
      BY <1>1, <2>1, <2>2, <2>3 DEF LogInv, LogTyped, RefusalsAreCounted
  <1>4. CASE ~fileOpen
    <2>1. LogRests
      BY <1>1, <1>4 DEF ReadTail, LogRests
    <2>2. LogGood' /\ PageNeverRepeats' /\ \A n : Precede(n) => Precede(n)'
      BY <2>1, LogRestsKeeps DEF LogInv
    <2>3. WrittenPrecedes'
      BY <1>1, <1>2, <2>2 DEF LogInv, WrittenPrecedes
    <2>. QED
      BY <1>3, <2>2, <2>3 DEF LogInv
  <1>5. CASE fileOpen
    <2>. DEFINE old == IF WasRotated THEN << >> ELSE view
    <2>1. cursor' = [generation |-> generation, offset |-> Size] /\ view' = old \o Returned
      BY <1>5 DEF ReadTail
    <2>2. LogGood /\ Increasing(view)
      BY DEF LogInv, PageNeverRepeats
    <2>3. PICK n \in 0 .. Len(file) :
             /\ Base = End(n)
             /\ \A i \in DOMAIN old, j \in DOMAIN file : n < j /\ old[i] # 0 /\ file[j] # 0 => old[i] < file[j]
      <3>1. 0 \in 0 .. Len(file) /\ End(0) = 0
        BY <2>2 DEF LogGood, End
      <3>2. CASE Latest
        <4>1. Base = 0 /\ old = << >>
          BY <2>2, <3>2 DEF Base, Latest, LogGood, CursorTells
        <4>. QED
          BY <3>1, <4>1
      <3>3. CASE ~Latest
        <4>1. cursor.generation = generation /\ Base = cursor.offset /\ old = view
          BY <3>3 DEF Latest, WasRotated, Base
        <4>. QED
          BY <1>5, <2>2, <4>1 DEF LogGood, CursorTells, Unseen
      <3>. QED
        BY <3>2, <3>3
    <2>4. PICK skip \in Nat : n <= skip /\ \A k \in DOMAIN Returned :
             skip + k \in DOMAIN file /\ Returned[k] = file[skip + k]
      BY <2>2, <2>3, ReturnedIs
    <2>5. Returned \in Seq(Numbers)
      BY <2>2, <2>3, ReturnedIs
    <2>6. \A k \in DOMAIN Returned : k \in Nat \ {0}
      BY <2>5
    <2>7. Increasing(Returned)
      BY <2>2, <2>4, <2>6 DEF LogGood, LogKeepsOrder, Increasing
    <2>8. Before(old, Returned)
      <3>1. n \in Nat
        OBVIOUS
      <3>. HIDE DEF old
      <3>2. \A k \in DOMAIN Returned : n < skip + k
        BY <2>4, <2>6, <3>1
      <3>. QED
        BY <2>3, <2>4, <3>2 DEF Before
    <2>9. old \in Seq(Numbers) /\ Increasing(old) /\ \A m : Precedes(view, m) => Precedes(old, m)
      BY <2>2 DEF LogGood, Increasing, Precedes
    <2>10. /\ view' \in Seq(Numbers) /\ PageNeverRepeats'
           /\ \A m : Precedes(old, m) /\ Precedes(Returned, m) => Precedes(view', m)
      <3>. HIDE DEF old
      <3>. QED
        BY <2>1, <2>5, <2>7, <2>8, <2>9, PageGrows DEF PageNeverRepeats
    <2>11. \A m : Precede(m) => Precede(m)'
      <3>1. \A m : Precedes(file, m) => Precedes(Returned, m)
        BY <2>4 DEF Precedes
      <3>. HIDE DEF old
      <3>2. \A m : Precede(m) => Precedes(view', m)
        BY <2>9, <2>10, <3>1 DEF Precede
      <3>3. ASSUME NEW m, Precede(m) PROVE Precede(m)'
        BY <1>1, <3>2, <3>3 DEF Precede, Precedes
      <3>. QED
        BY <3>3
    <2>12. WrittenPrecedes'
      BY <1>1, <1>2, <2>11 DEF LogInv, WrittenPrecedes
    <2>13. CursorTells' /\ cursor' \in [generation : Nat, offset : Nat]
      <3>1. generation \in Nat \ {0} /\ Len(file) \in Nat /\ DOMAIN file = 1 .. Len(file)
        BY <2>2 DEF LogGood
      <3>2. PICK last \in 0 .. Len(file) : last = Len(file)
        <4>1. Len(file) \in 0 .. Len(file)
          BY <3>1
        <4>. QED
          BY <4>1, Zenon
      <3>3. Size = End(last) /\ Size \in Nat
        BY <2>2, <3>1, <3>2 DEF Size, End, LogGood
      <3>4. Unseen(last)'
        BY <1>1, <2>1, <3>1, <3>2, <3>3 DEF Unseen, End
      <3>5. cursor' # NoCursor
        BY <2>1, <3>1 DEF NoCursor
      <3>. QED
        BY <1>1, <2>1, <3>1, <3>3, <3>4, <3>5 DEF CursorTells
    <2>14. LogKeepsOrder' /\ EndsGrow'
      BY <1>1, <2>2 DEF LogGood, LogKeepsOrder, Increasing, Before, EndsGrow, End
    <2>15. LogGood'
      <3>. HIDE DEF old
      <3>. QED
        BY <1>1, <2>2, <2>10, <2>13, <2>14 DEF LogGood
    <2>. QED
      BY <1>3, <2>10, <2>12, <2>15 DEF LogInv
  <1>. QED
    BY <1>4, <1>5

-----------------------------------------------------------------------------
(* The invariant holds at first, and every step keeps it. *)

LEMMA LogStarts == ASSUME LogInit PROVE LogInv
  <1>1. /\ file = << >> /\ ends = << >> /\ view = << >> /\ queue = << >> /\ writer = Waiting
        /\ archive = [i \in 1 .. Archives |-> << >>] /\ generation = 1 /\ cursor = NoCursor
        /\ appended = 0 /\ MaxLines \in Nat
        /\ dropped = 0 /\ unreported = 0 /\ lost = 0 /\ reported = 0 /\ marked = 0 /\ unmarked = 0
    BY LogStoreAssumption DEF LogInit
  <1>2. LogTyped /\ RefusalsAreCounted
    BY <1>1 DEF LogTyped, RefusalsAreCounted, IsWriter, Waiting
  <1>3. Pending = {} /\ Queued = {}
    BY <1>1 DEF Pending, Queued, Waiting
  <1>4. QueueKeepsOrder /\ WrittenPrecedes /\ PageNeverRepeats
    BY <1>1, <1>3 DEF QueueKeepsOrder, WrittenPrecedes, Precede, Precedes, PageNeverRepeats, Increasing
  <1>5. LogKeepsOrder
    BY <1>1 DEF LogKeepsOrder, Increasing, Before
  <1>6. EndsGrow /\ CursorTells
    BY <1>1 DEF EndsGrow, CursorTells, NoCursor
  <1>7. cursor \in [generation : Nat, offset : Nat]
    BY <1>1 DEF NoCursor
  <1>. QED
    BY <1>1, <1>2, <1>4, <1>5, <1>6, <1>7 DEF LogInv, LogGood

LEMMA LogNextKeeps == ASSUME LogInv, [LogNext]_logVars PROVE LogInv'
  <1>1. CASE UNCHANGED logVars
    BY <1>1, LogOutside DEF logVars, LogRests
  <1>2. CASE BeginTail \/ LockForTail \/ BeginClose \/ LockForClose \/ EndClose
    BY <1>2, LogOutside DEF BeginTail, LockForTail, BeginClose, LockForClose, EndClose, LogRests, entry, disk, reader, markers
  <1>3. CASE SendBarrier \/ QueueClose
    BY <1>3, LogOutside DEF SendBarrier, QueueClose, LogRests, entry, disk, reader, markers
  <1>. QED
    BY <1>1, <1>2, <1>3, AppendLineKeeps, IgnoredKeeps, TakeKeeps, MarkerKeeps, CommandKeeps, ReadKeeps
       DEF LogNext, Writer, Poll, Closer

LEMMA LogInvHolds == LogSpec => []LogInv
  <1>1. LogInit => LogInv
    BY LogStarts
  <1>2. LogInv /\ [LogNext]_logVars => LogInv'
    BY LogNextKeeps
  <1>. QED
    BY <1>1, <1>2, PTL DEF LogSpec

(* The source loses no refused byte from its two counts, wherever the queue is *)
(* full, the writer takes the count, a Tail fails or the source is closed: the *)
(* page was told of it or its next Tail that succeeds will, and the file got a *)
(* marker for it unless the write of the marker failed (append, run,           *)
(* flushDropped, logStore.Tail).                                               *)
THEOREM RefusedBytesAreTold == LogSpec => []RefusalsAreCounted
  <1>1. LogInv => RefusalsAreCounted
    BY DEF LogInv
  <1>. QED
    BY <1>1, LogInvHolds, PTL

(* The files are in the order of the calls of Append, through every rotation,  *)
(* a failed one too (writeLine, rotateLocked).                                 *)
THEOREM LogOrderHolds == LogSpec => []LogKeepsOrder
  <1>1. LogInv => LogKeepsOrder
    BY DEF LogInv, LogGood
  <1>. QED
    BY <1>1, LogInvHolds, PTL

(* The page shows no line twice, whatever is written and rotated between two   *)
(* polls (logSourceState.tail).                                                *)
THEOREM PageRepeatsNothing == LogSpec => []PageNeverRepeats
  <1>1. LogInv => PageNeverRepeats
    BY DEF LogInv
  <1>. QED
    BY <1>1, LogInvHolds, PTL

=============================================================================
