--------------------------- MODULE CaddySupervisor ---------------------------
(***************************************************************************)
(* The Adapter of internal/caddy: it owns at most one Caddy process, starts *)
(* it, reloads it over the process's admin socket and stops it.  a.mu is    *)
(* held for a whole call, but Caddy, the port and the certificate store go  *)
(* their own way: Caddy may die at any time, answer a /load after the two   *)
(* seconds the client waits, or not heed a /stop.                           *)
(*                                                                         *)
(* A configuration is a value; its digest is itself.  Each call of the file *)
(* system and of the programs it runs may fail.                             *)
(***************************************************************************)
EXTENDS Naturals

CONSTANTS
    Configs,        \* route configurations
    MaxStarts,      \* bound on the processes started
    MaxCalls,       \* bound on the calls of Apply and Stop
    MaxFaults       \* bound on failing calls, deaths, rotations, ports taken

ASSUME CaddyAssumption == MaxStarts \in Nat /\ MaxCalls \in Nat /\ MaxFaults \in Nat

NoConfig == "none"
Sockets == {"a", "b"}
Other(socket) == IF socket = "a" THEN "b" ELSE "a"
Pids == 1..MaxStarts

VARIABLES
    process,    \* a.process: the owned process, 0 for none
    socket,     \* a.adminSocket, which a.httpClient dials
    digest,     \* a.lastDigest, NoConfig without hasDigest
    lastError,  \* a.lastError is not empty
    call,       \* the call that holds a.mu
    outcome,    \* what the last call returned
    alive,      \* the processes that run
    killed,     \* those that were sent a kill
    serving,    \* what each process serves
    bound,      \* which process listens on a socket file, 0 for none
    loading,    \* a /load that was not answered in time
    taken,      \* another program listens on the HTTPS port
    rotated,    \* the leaf certificates are not of the current root
    overtaken,  \* history: a load took effect after its call had returned
    calls, started, faults

adapter == << process, socket, digest, lastError, call, outcome >>
world == << alive, killed, serving, bound, loading, taken, rotated, overtaken >>
vars == << adapter, world, calls, started, faults >>

NoLoad == [config |-> NoConfig, target |-> "a", pid |-> 0]

\* clean is history: nothing went wrong during this call.
Idle == [pc |-> "idle", config |-> NoConfig, target |-> "a", deadline |-> FALSE, clean |-> TRUE]

Fault == faults < MaxFaults /\ faults' = faults + 1
GoesTo(step) == call' = [call EXCEPT !.pc = step]
Returns(result) ==
    /\ call' = Idle
    /\ outcome' = [result |-> result, clean |-> call.clean]

\* A failing step of the call itself, or of Caddy.
FailsBy(clean) ==
    /\ call' = Idle /\ lastError' = TRUE
    /\ outcome' = [result |-> "error", clean |-> clean]
Fails == FailsBy(FALSE)

\* Mutant: the error is returned but not kept for Status.
FailsSilently(clean) == Returns("error") /\ UNCHANGED lastError

ReloadFails(clean) == FailsBy(clean)

-----------------------------------------------------------------------------
(* The owned process                                                       *)

Running == process # 0 /\ process \in alive
Forgotten == process' = 0 /\ digest' = NoConfig

\* clearProcessLocked also removes the socket file.
Unbound(sockets) == [s \in Sockets |-> IF s \in sockets THEN 0 ELSE bound[s]]
Clears == Forgotten /\ bound' = Unbound({socket})

\* ownedRunningLocked forgets a process that has exited.
NoticesExit ==
    IF process # 0 /\ process \notin alive THEN Clears ELSE UNCHANGED << process, digest, bound >>

Exits(pid) ==
    /\ alive' = alive \ {pid}
    /\ serving' = [serving EXCEPT ![pid] = NoConfig]
    /\ bound' = [s \in Sockets |-> IF bound[s] = pid THEN 0 ELSE bound[s]]

PortFree == ~taken /\ alive = {}

-----------------------------------------------------------------------------
(* Apply: up to the choice between a reload and a start                    *)

BeginApply(config) ==
    /\ call.pc = "idle" /\ calls < MaxCalls /\ started < MaxStarts /\ calls' = calls + 1
    /\ NoticesExit
    /\ IF Running /\ digest = config
       THEN Returns("unchanged")
       ELSE /\ call' = [pc |-> "validate", config |-> config, deadline |-> FALSE, clean |-> TRUE,
                        target |-> IF Running THEN Other(socket) ELSE socket]
            /\ UNCHANGED outcome
    /\ UNCHANGED << socket, lastError, alive, killed, serving, loading, taken, rotated, overtaken, started, faults >>

\* No binary, a wrong checksum, no runtime directory, a configuration that is
\* refused, an unreadable cache of certificates.
ValidationFails ==
    /\ call.pc = "validate" /\ Fault /\ Fails
    /\ UNCHANGED << process, socket, digest, world, calls, started >>

\* purgeStaleLocalCertificateCache: Caddy must be started anew.
PurgesStaleLeaves ==
    /\ call.pc = "validate" /\ rotated
    /\ rotated' = FALSE
    /\ NoticesExit
    /\ GoesTo(IF Running THEN "stop" ELSE "start")
    /\ UNCHANGED << socket, lastError, outcome, alive, killed, serving, loading, taken, overtaken, calls, started, faults >>

Validated ==
    /\ call.pc = "validate" /\ ~rotated
    /\ NoticesExit
    /\ GoesTo(IF Running THEN "load" ELSE "start")
    /\ UNCHANGED << socket, lastError, outcome, alive, killed, serving, loading, taken, rotated, overtaken, calls, started, faults >>

-----------------------------------------------------------------------------
(* Apply: hot reload                                                       *)

\* Caddy moves its admin endpoint to the target and closes the old one.
Loads(pid, config, target) ==
    /\ serving' = [serving EXCEPT ![pid] = config]
    /\ bound' = [s \in Sockets |-> IF s = target THEN pid ELSE IF bound[s] = pid THEN 0 ELSE bound[s]]

\* The file of the target is removed first, whoever listens there.
Load ==
    /\ call.pc = "load" /\ GoesTo("reloaded")
    /\ bound[socket] = process /\ process \in alive
    /\ Loads(process, call.config, call.target)
    /\ UNCHANGED << process, socket, digest, lastError, outcome, alive, killed, loading, taken, rotated, overtaken, calls, started, faults >>

\* Refused, or not reachable at the socket any more: the error is kept aside.
LoadRefused ==
    /\ call.pc = "load"
    /\ call' = [call EXCEPT !.pc = "reloaded", !.clean = FALSE]
    /\ IF bound[socket] = process /\ process \in alive THEN Fault ELSE UNCHANGED faults
    /\ bound' = Unbound({call.target})
    /\ UNCHANGED << process, socket, digest, lastError, outcome, alive, killed, serving, loading, taken, rotated, overtaken, calls, started >>

\* No answer within the timeout of the client.
LoadUnanswered ==
    /\ call.pc = "load" /\ Fault
    /\ bound[socket] = process /\ process \in alive
    /\ call' = [call EXCEPT !.pc = "reloaded", !.clean = FALSE]
    /\ bound' = Unbound({call.target})
    /\ loading' = [config |-> call.config, target |-> call.target, pid |-> process]
    /\ UNCHANGED << process, socket, digest, lastError, outcome, alive, killed, serving, taken, rotated, overtaken, calls, started >>

\* The new endpoint answers, whatever /load said.
ReloadReady ==
    /\ call.pc = "reloaded" /\ bound[call.target] = process /\ process \in alive
    /\ socket' = call.target
    /\ bound' = Unbound({socket})
    /\ GoesTo("write")
    /\ UNCHANGED << process, digest, lastError, outcome, alive, killed, serving, loading, taken, rotated, overtaken, calls, started, faults >>

\* The readiness timeout, or the process exited.
ReloadNotReady ==
    /\ call.pc = "reloaded" /\ bound[call.target] # process
    /\ ReloadFails(call.clean /\ process \in alive)
    /\ UNCHANGED << process, socket, digest, world, calls, started, faults >>

Marked(config) == digest' = config /\ lastError' = FALSE

WriteActive ==
    /\ call.pc = "write" /\ Marked(call.config) /\ Returns("applied")
    /\ UNCHANGED << process, socket, world, calls, started, faults >>

WriteFails ==
    /\ call.pc = "write" /\ Fault /\ ReloadFails(FALSE)
    /\ UNCHANGED << process, socket, digest, world, calls, started >>

-----------------------------------------------------------------------------
(* Apply: cold start                                                       *)

PortConflict ==
    /\ call.pc = "start" /\ ~PortFree
    /\ lastError' = TRUE /\ Returns("port_conflict")
    /\ UNCHANGED << process, socket, digest, world, calls, started, faults >>

\* No file, no log, no process.
StartFails ==
    /\ call.pc = "start" /\ PortFree /\ Fault /\ Fails
    /\ UNCHANGED << process, socket, digest, world, calls, started >>

StartProcess ==
    /\ call.pc = "start" /\ PortFree
    /\ started' = started + 1
    /\ process' = started' /\ alive' = alive \cup {started'}
    /\ GoesTo("started")
    /\ UNCHANGED << socket, digest, lastError, outcome, killed, serving, bound, loading, taken, rotated, overtaken, calls, faults >>

StartReady ==
    /\ call.pc = "started" /\ bound[socket] = process /\ process \in alive
    /\ Marked(call.config) /\ Returns("applied")
    /\ UNCHANGED << process, socket, world, calls, started, faults >>

\* The port was taken meanwhile, Caddy is slow, or listens somewhere else.
StartTimesOut ==
    /\ call.pc = "started" /\ bound[socket] # process
    /\ call' = [call EXCEPT !.pc = "kill",
                            !.clean = @ /\ process \in alive /\ serving[process] = call.config]
    /\ UNCHANGED << process, socket, digest, lastError, outcome, world, calls, started, faults >>

\* Mutant: the process is given up without a kill.
KillsNothing == UNCHANGED killed

SendsKill == killed' = killed \cup {process}

Kill ==
    /\ call.pc = "kill" /\ GoesTo("reap")
    /\ SendsKill
    /\ UNCHANGED << process, socket, digest, lastError, outcome, alive, serving, bound, loading, taken, rotated, overtaken, calls, started, faults >>

\* <-done without a deadline, then the port tells a conflict from an error.
Reap ==
    /\ call.pc = "reap" /\ process \notin alive
    /\ Clears /\ lastError' = TRUE
    /\ Returns(IF PortFree THEN "error" ELSE "port_conflict")
    /\ UNCHANGED << socket, alive, killed, serving, loading, taken, rotated, overtaken, calls, started, faults >>

-----------------------------------------------------------------------------
(* Stop                                                                    *)

\* Its callers give it five seconds; Apply stops with a context that has none.
BeginStop ==
    /\ call.pc = "idle" /\ calls < MaxCalls /\ calls' = calls + 1
    /\ IF Running
       THEN call' = [Idle EXCEPT !.pc = "stop", !.deadline = TRUE] /\ UNCHANGED << process, digest, bound, outcome >>
       ELSE Clears /\ Returns("stopped")
    /\ UNCHANGED << socket, lastError, alive, killed, serving, loading, taken, rotated, overtaken, started, faults >>

\* Whether /stop is received or not, the wait for the exit is the same.
PostStop ==
    /\ call.pc = "stop"
    /\ \/ bound[socket] = process /\ GoesTo("asked") /\ UNCHANGED << lastError, faults >>
       \/ /\ lastError' = TRUE
          /\ call' = [call EXCEPT !.pc = "ignored", !.clean = FALSE]
          /\ IF bound[socket] = process THEN Fault ELSE UNCHANGED faults
    /\ UNCHANGED << process, socket, digest, outcome, world, calls, started >>

Waits == call.pc \in {"asked", "ignored"}

Stopped ==
    /\ Waits /\ process \notin alive
    /\ Clears
    /\ IF call.deadline THEN Returns("stopped") ELSE GoesTo("start") /\ UNCHANGED outcome
    /\ UNCHANGED << socket, lastError, alive, killed, serving, loading, taken, rotated, overtaken, calls, started, faults >>

\* Mutant: only the exit of the process ends the wait.
NeverOverdue == FALSE

Overdue == Waits /\ call.deadline /\ process \in alive

\* A kill and two more seconds; then the process is forgotten, dead or not.
StopTimesOut ==
    /\ Overdue
    /\ SendsKill
    /\ \/ Exits(process) /\ Forgotten
       \/ UNCHANGED << alive, serving >> /\ Clears
    /\ Returns("stop_deadline")
    /\ UNCHANGED << socket, lastError, loading, taken, rotated, overtaken, calls, started, faults >>

-----------------------------------------------------------------------------
(* The others                                                              *)

\* A started Caddy binds the port and the socket of its configuration, or exits.
Boot ==
    /\ call.pc = "started" /\ process \in alive \ killed /\ serving[process] = NoConfig
    /\ IF taken THEN Exits(process) ELSE Loads(process, call.config, call.target) /\ UNCHANGED alive
    /\ UNCHANGED << adapter, killed, loading, taken, rotated, overtaken, calls, started, faults >>

Dies ==
    /\ Fault
    /\ \E pid \in alive : Exits(pid)
    /\ call' = [call EXCEPT !.clean = FALSE]
    /\ UNCHANGED << process, socket, digest, lastError, outcome, killed, loading, taken, rotated, overtaken, calls, started >>

\* What was killed, or took the /stop, goes; a graceful stop may take for ever.
ExitsKilled ==
    /\ \E pid \in killed \cap alive : Exits(pid)
    /\ UNCHANGED << adapter, killed, loading, taken, rotated, overtaken, calls, started, faults >>
ExitsAsked ==
    /\ call.pc = "asked" /\ process \in alive /\ Exits(process)
    /\ UNCHANGED << adapter, killed, loading, taken, rotated, overtaken, calls, started, faults >>

\* The /load nobody waits for any more takes effect.
LoadsLate ==
    /\ loading # NoLoad /\ loading' = NoLoad
    /\ IF loading.pid \in alive THEN Loads(loading.pid, loading.config, loading.target) ELSE UNCHANGED << serving, bound >>
    /\ overtaken' = (overtaken \/ call.pc # "reloaded" \/ call.config # loading.config)
    /\ UNCHANGED << adapter, alive, killed, taken, rotated, calls, started, faults >>

PortChanges ==
    /\ IF taken THEN taken' = FALSE /\ UNCHANGED faults ELSE alive = {} /\ Fault /\ taken' = TRUE
    /\ call' = [call EXCEPT !.clean = FALSE]
    /\ UNCHANGED << process, socket, digest, lastError, outcome, alive, killed, serving, bound, loading, rotated, overtaken, calls, started >>

Rotates ==
    /\ ~rotated /\ call.pc = "idle" /\ Fault /\ rotated' = TRUE
    /\ UNCHANGED << adapter, alive, killed, serving, bound, loading, taken, overtaken, calls, started >>

-----------------------------------------------------------------------------

Init ==
    /\ process = 0 /\ socket = "a" /\ digest = NoConfig /\ lastError = FALSE
    /\ call = Idle /\ outcome = [result |-> "none", clean |-> TRUE]
    /\ alive = {} /\ killed = {} /\ serving = [p \in Pids |-> NoConfig]
    /\ bound = [s \in Sockets |-> 0] /\ loading = NoLoad
    /\ taken \in BOOLEAN /\ rotated = FALSE /\ overtaken = FALSE
    /\ calls = 0 /\ started = 0 /\ faults = 0

Steps ==
    \/ ValidationFails \/ PurgesStaleLeaves \/ Validated
    \/ Load \/ LoadRefused \/ LoadUnanswered \/ ReloadReady \/ ReloadNotReady \/ WriteActive \/ WriteFails
    \/ PortConflict \/ StartFails \/ StartProcess \/ StartReady \/ StartTimesOut \/ Kill \/ Reap
    \/ PostStop \/ Stopped \/ StopTimesOut

Next ==
    \/ \E config \in Configs : BeginApply(config)
    \/ BeginStop
    \/ Steps
    \/ Boot \/ Dies \/ ExitsKilled \/ ExitsAsked \/ LoadsLate \/ PortChanges \/ Rotates

\* The goroutine of a call runs on; the kernel ends what was killed.
Spec == Init /\ [][Next]_vars /\ WF_vars(Steps) /\ WF_vars(ExitsKilled)

-----------------------------------------------------------------------------
(* Properties                                                              *)

\* No Caddy is left running that the Adapter neither owns nor has killed: it
\* would hold the HTTPS port, and nothing would ever stop it (adapter.go:339-342, 373-379).
NoStrayCaddy == alive \ {process} \subseteq killed

\* Status and the `unchanged` of the next Apply go by the digest of the last
\* configuration applied.  Caddy serves another one only after an Apply that
\* failed, which lastError tells, or when a /load was answered too late.
DigestIsServed ==
    call.pc = "idle" /\ Running /\ digest # NoConfig /\ ~lastError /\ ~overtaken
        => serving[process] = digest

\* Every call returns and gives a.mu back, but for an Apply that stops Caddy for
\* its stale certificates: that one waits for a Caddy that does not stop, with a
\* context that never ends (adapter.go:284).
WaitsForever == Waits /\ ~call.deadline
CallsReturn == call.pc # "idle" ~> call.pc = "idle" \/ WaitsForever

\* "must be purged before the start or reload, and Caddy issues a new chain"
\* (adapter.go:276-278): an Apply during which nothing fails does not fail.
FaultlessApplySucceeds == outcome.result = "error" => ~outcome.clean

=============================================================================
