-------------------------- MODULE PrivilegedSession --------------------------
(***************************************************************************)
(* Linux: linuxPrivilegedSession of internal/helper, the root helper it     *)
(* starts through pkexec, and the LocalCATrust that changes the system's CA *)
(* store through it.                                                       *)
(*                                                                         *)
(* Session n of the GUI process is polkit's temporary authorization n and   *)
(* helper process n.  One worker calls (RouterBiz.mu serialises it) and one *)
(* quitter closes the session on shutdown; s.mu, held over the prompt, the  *)
(* request and the wait for the helper's exit, is the variable held.  The   *)
(* helper and polkit go their own way: the helper may die, ends by itself   *)
(* after five minutes, and polkit forgets an authorization as old as that.  *)
(***************************************************************************)
EXTENDS Naturals

CONSTANTS
    MaxSessions,    \* bound on the sessions of a behaviour
    MaxFaults,      \* bound on denials, failing calls, late and dying helpers
    MaxCrashes      \* bound on crashes of the GUI

ASSUME SessionAssumption ==
    MaxSessions \in Nat /\ MaxFaults \in Nat /\ MaxCrashes \in Nat

Sessions == 1..MaxSessions
Requests == {"hosts", "trust", "untrust"}

VARIABLES
    work,       \* the worker: its operation and the next step of it
    quit,       \* the quitter: no, lock, inside, done
    held,       \* the critical section under s.mu
    closed,     \* s.closed
    current,    \* the session of s.connection, 0 for none
    last,       \* what the worker's last session call returned
    helper,     \* each root process
    wire,       \* the request in the pipe and the reply to it
    eof,        \* the sessions whose stdin was closed
    granted,    \* the temporary authorizations polkit keeps
    leaked,     \* history: those whose revocation failed or was not sent
    installed,  \* the CA file is in the system's trust store
    record,     \* ca-trust.json names the CA
    excused,    \* history: a fault parted installed and record
    sessions,   \* sessions asked for so far
    old,        \* the sessions past their TTL
    faults, crashes

gui == << work, quit, held, closed, current, last >>
root == << helper, wire, eof >>
polkit == << granted, leaked >>
disk == << installed, record, excused >>
bounds == << sessions, old, faults, crashes >>
vars == << gui, root, polkit, disk, bounds >>

Idle == [op |-> "none", pc |-> "idle", request |-> "none", present |-> FALSE]
Free == [by |-> "nobody", pc |-> "free", session |-> 0, request |-> "none",
         renewing |-> FALSE, failed |-> FALSE, late |-> FALSE, ran |-> 0]
Silence == [request |-> "none", reply |-> "none"]

Gone(n) == helper[n] \in {"ended", "broken"}
Fault == faults < MaxFaults /\ faults' = faults + 1
NoFault == UNCHANGED faults

-----------------------------------------------------------------------------
(* What a session call returns to the worker                               *)

\* The next step of LocalCATrust after its AddDER or RemoveSHA256.
AfterCall(ok) ==
    CASE work.pc = "call" /\ work.op = "trust" /\ ok -> [work EXCEPT !.pc = "record"]
      [] work.pc = "call" /\ work.op = "untrust" /\ ok -> [work EXCEPT !.pc = "forget"]
      [] OTHER -> Idle

\* The error of the undo is ignored.
Returns(ok) ==
    /\ held' = Free
    /\ work' = AfterCall(ok)
    /\ last' = [ok |-> ok, ran |-> held.ran, renewing |-> held.renewing]
    /\ excused' = (excused \/ (work.pc = "undo" /\ ~ok))
    /\ UNCHANGED << quit, installed, record >>

ReturnsToQuitter ==
    /\ held' = Free /\ quit' = "done"
    /\ UNCHANGED << work, last, disk >>

\* Mutant: an early return that does not unlock.
ReturnsLocked(ok) ==
    /\ held' = [held EXCEPT !.pc = "returned"]
    /\ UNCHANGED << work, last, disk, quit >>

Refused(ok) == Returns(ok)

-----------------------------------------------------------------------------
(* LocalCATrust and the hosts operator                                     *)

Calls(op, request, present) ==
    work' = [op |-> op, pc |-> "call", request |-> request, present |-> present]

\* ContainsSHA256 reads the CA file itself, without the helper.
Contains == installed

\* EnsureCurrentCaddyCATrusted adds only what the store does not contain.
BeginTrust ==
    \/ ~Contains /\ Calls("trust", "trust", FALSE)
    \/ Contains /\ work' = [op |-> "trust", pc |-> "record", request |-> "none", present |-> TRUE]

\* RemoveCurrentCaddyCA has nothing to do without a record.
BeginUntrust == record /\ Calls("untrust", "untrust", TRUE)

BeginHosts == Calls("hosts", "hosts", FALSE)

BeginWork ==
    /\ work.pc = "idle" /\ quit # "done" /\ sessions + 2 <= MaxSessions
    /\ BeginHosts \/ BeginTrust \/ BeginUntrust
    /\ UNCHANGED << quit, held, closed, current, last, root, polkit, disk, bounds >>

WriteRecord ==
    /\ work.pc = "record"
    /\ work' = Idle /\ record' = TRUE /\ excused' = FALSE
    /\ UNCHANGED << quit, held, closed, current, last, root, polkit, installed, bounds >>

\* Only a CA that this call added is taken back.
Undoes == ~work.present

\* Mutant: a CA that was there before is taken back too.
UndoesAlways == TRUE

TakesBack == Undoes

WriteRecordFails ==
    /\ work.pc = "record" /\ Fault
    /\ work' = IF TakesBack THEN [work EXCEPT !.pc = "undo", !.request = "untrust"] ELSE Idle
    /\ UNCHANGED << quit, held, closed, current, last, root, polkit, disk, sessions, old, crashes >>

RemoveRecord ==
    /\ work.pc = "forget" /\ work' = Idle
    /\ \/ record' = FALSE /\ excused' = FALSE /\ NoFault
       \/ Fault /\ excused' = TRUE /\ UNCHANGED record
    /\ UNCHANGED << quit, held, closed, current, last, root, polkit, installed,
                    sessions, old, crashes >>

-----------------------------------------------------------------------------
(* Call, TrustCurrentCaddyCA, UntrustCurrentCaddyCA and Close              *)

GoesTo(step) == held' = [held EXCEPT !.pc = step]

\* revokeAndCloseLocked forgets the session and sends its own revoke.
Revokes(by, renewing) ==
    /\ held' = [Free EXCEPT !.by = by, !.pc = "send", !.session = current,
                            !.request = "revoke", !.renewing = renewing]
    /\ current' = 0

\* An expired session is revoked first, a live one is used.
Ensures ==
    LET section == [Free EXCEPT !.by = "worker", !.session = current]
    IN \/ current = 0 /\ UNCHANGED current /\ held' = [section EXCEPT !.pc = "authorize"]
       \/ /\ current # 0 /\ current \notin old /\ UNCHANGED current
          /\ held' = [section EXCEPT !.pc = "send", !.request = work.request]
       \/ current # 0 /\ current \in old /\ Revokes("worker", TRUE)

LockForCall ==
    /\ work.pc \in {"call", "undo"} /\ held.pc = "free" /\ ~closed
    /\ Ensures
    /\ UNCHANGED << work, quit, closed, last, root, polkit, disk, bounds >>

LockAfterClose ==
    /\ work.pc \in {"call", "undo"} /\ held.pc = "free" /\ closed
    /\ Returns(FALSE)
    /\ UNCHANGED << closed, current, root, polkit, bounds >>

BeginQuit ==
    /\ quit = "no" /\ quit' = "lock"
    /\ UNCHANGED << work, held, closed, current, last, root, polkit, disk, bounds >>

LockForQuit ==
    /\ quit = "lock" /\ held.pc = "free"
    /\ closed' = TRUE
    /\ \/ current = 0 /\ quit' = "done" /\ UNCHANGED << held, current >>
       \/ current # 0 /\ quit' = "inside" /\ Revokes("quitter", FALSE)
    /\ UNCHANGED << work, last, root, polkit, disk, bounds >>

\* The prompt: the user grants, or denies, or the caller's context ends.
Authorize ==
    /\ held.pc = "authorize" /\ sessions < MaxSessions
    /\ sessions' = sessions + 1
    /\ granted' = granted \cup {sessions'}
    /\ held' = [held EXCEPT !.pc = "start", !.session = sessions']
    /\ UNCHANGED << work, quit, closed, current, last, root, leaked, disk, old, faults, crashes >>

AuthorizeFails ==
    /\ held.pc = "authorize" /\ Fault
    /\ Refused(FALSE)
    /\ UNCHANGED << closed, current, root, polkit, sessions, old, crashes >>

\* Start runs pkexec and does not wait for the helper to serve.
Start ==
    /\ held.pc = "start"
    /\ helper' = [helper EXCEPT ![held.session] = "starting"]
    /\ current' = held.session
    /\ held' = [held EXCEPT !.pc = "send", !.request = work.request]
    /\ UNCHANGED << work, quit, closed, last, wire, eof, polkit, disk, bounds >>

\* The revocation's own error is dropped here.
StartFails ==
    /\ held.pc = "start" /\ Fault
    /\ \/ granted' = granted \ {held.session} /\ UNCHANGED leaked
       \/ leaked' = leaked \cup {held.session} /\ UNCHANGED granted
    /\ Returns(FALSE)
    /\ UNCHANGED << closed, current, root, sessions, old, crashes >>

\* connection.Call failed: callLocked forgets the session, and both ways go on
\* with Close.
CallBreaks ==
    /\ current' = 0
    /\ held' = [held EXCEPT !.pc = "close", !.failed = TRUE]

Send ==
    /\ held.pc = "send"
    /\ \/ /\ ~Gone(held.session)
          /\ wire' = [request |-> held.request, reply |-> "none"]
          /\ GoesTo("await") /\ UNCHANGED current
       \/ Gone(held.session) /\ CallBreaks /\ UNCHANGED wire
    /\ UNCHANGED << work, quit, closed, last, helper, eof, polkit, disk, bounds >>

\* The reply to a revoke is not looked at.  A refusal keeps the session.
ReadReply ==
    /\ held.pc = "await" /\ wire.reply # "none"
    /\ wire' = Silence
    /\ \/ held.request = "revoke" /\ GoesTo("close") /\ UNCHANGED << work, quit, last, disk >>
       \/ held.request # "revoke" /\ Returns(wire.reply = "ok")
    /\ UNCHANGED << closed, current, helper, eof, polkit, bounds >>

ReadBreaks ==
    /\ held.pc = "await" /\ wire.reply = "none" /\ Gone(held.session)
    /\ wire' = Silence
    /\ CallBreaks
    /\ UNCHANGED << work, quit, closed, last, helper, eof, polkit, disk, bounds >>

-----------------------------------------------------------------------------
(* Close of the connection, and the revocation of the authorization        *)

CloseInput ==
    /\ held.pc = "close"
    /\ eof' = eof \cup {held.session}
    /\ GoesTo("wait")
    /\ UNCHANGED << work, quit, closed, current, last, helper, wire, polkit, disk, bounds >>

\* cleanupCtx covers the revoke, the wait and the revocation, but a Call under
\* way does not heed it.
CleanupTimesOut ==
    /\ held.pc \in {"close", "wait", "unauthorize"} \/ (held.pc = "await" /\ held.request = "revoke")
    /\ ~held.late /\ Fault
    /\ held' = [held EXCEPT !.late = TRUE]
    /\ UNCHANGED << work, quit, closed, current, last, root, polkit, disk, sessions, old, crashes >>

\* Process.Kill after the deadline; the kernel may refuse it for a root process,
\* then nothing happens.
Kill ==
    /\ held.pc = "wait" /\ held.late /\ ~Gone(held.session)
    /\ helper' = [helper EXCEPT ![held.session] = "broken"]
    /\ UNCHANGED << gui, wire, eof, polkit, disk, bounds >>

\* After the deadline too, Close waits for the exit.
MayReap == Gone(held.session)

\* Mutant: it does not wait after the kill.
MayAbandon == Gone(held.session) \/ held.late

Reaps == MayReap

Reap ==
    /\ held.pc = "wait" /\ Reaps
    /\ held' = [held EXCEPT !.pc = "unauthorize",
                            !.failed = held.failed \/ held.late \/ helper[held.session] = "broken"]
    /\ UNCHANGED << work, quit, closed, current, last, root, polkit, disk, bounds >>

\* A revoked session that was cleaned up without an error is replaced.
CleanedUp(failed) ==
    \/ held.by = "quitter" /\ ReturnsToQuitter
    \/ held.by = "worker" /\ (failed \/ ~held.renewing) /\ Returns(FALSE)
    \/ /\ held.by = "worker" /\ held.renewing /\ ~failed
       /\ GoesTo("authorize")
       /\ UNCHANGED << work, quit, last, disk >>

\* Mutant: callLocked sends its request again over a new session.
CleanedUpRetrying(failed) ==
    \/ held.by = "quitter" /\ ReturnsToQuitter
    \/ /\ held.by = "worker"
       /\ held' = [held EXCEPT !.pc = "authorize", !.failed = FALSE, !.late = FALSE]
       /\ UNCHANGED << work, quit, last, disk >>

Cleaned(failed) == CleanedUp(failed)

Withdrawn == granted \ {held.session}

\* Mutant: after a broken call only the connection is closed.
WithdrawnByRevoke ==
    IF held.request = "revoke" THEN granted \ {held.session} ELSE granted

Remaining == Withdrawn

Unauthorize ==
    /\ held.pc = "unauthorize" /\ ~held.late
    /\ granted' = Remaining
    /\ Cleaned(held.failed)
    /\ UNCHANGED << closed, current, root, leaked, bounds >>

\* Revoke fails, or is not sent as its context is over.
UnauthorizeFails ==
    /\ held.pc = "unauthorize"
    /\ IF held.late THEN NoFault ELSE Fault
    /\ leaked' = leaked \cup {held.session}
    /\ Cleaned(TRUE)
    /\ UNCHANGED << closed, current, root, granted, sessions, old, crashes >>

-----------------------------------------------------------------------------
(* The root helper                                                         *)

Ends(n, state) == helper' = [helper EXCEPT ![n] = state]

\* pkexec, the bond to its parent and the choice of effects may each fail.
HelperStarts(n) ==
    /\ helper[n] = "starting"
    /\ \/ Ends(n, "serving") /\ NoFault
       \/ Ends(n, "broken") /\ Fault
    /\ UNCHANGED << gui, wire, eof, polkit, disk, sessions, old, crashes >>

Reads(n) == helper[n] = "serving" /\ held.session = n /\ wire.request # "none"

\* The reply is in the pipe before a helper that leaves after it has exited.
Replies(reply) == wire' = [request |-> "none", reply |-> reply]

\* The helper asks polkit for the exact authorization before every effect.
Inactive(n) == n \notin granted

\* The parent cannot be read, or polkit cannot be asked.
CheckFails == Fault

\* A failed check is answered, and ends the helper.
HelperRejects(n) ==
    /\ Reads(n)
    /\ (wire.request # "revoke" /\ Inactive(n) /\ NoFault) \/ CheckFails
    /\ Ends(n, "failing") /\ Replies("refused")
    /\ UNCHANGED << gui, eof, polkit, disk, sessions, old, crashes >>

HelperRevokes(n) ==
    /\ Reads(n) /\ wire.request = "revoke"
    /\ Ends(n, "leaving") /\ Replies("revoked")
    /\ UNCHANGED << gui, eof, polkit, disk, bounds >>

HelperExits(n) ==
    /\ \/ helper[n] = "leaving" /\ Ends(n, "ended")
       \/ helper[n] = "failing" /\ Ends(n, "broken")
    /\ UNCHANGED << gui, wire, eof, polkit, disk, bounds >>

Effects(n) == Reads(n) /\ wire.request # "revoke" /\ ~Inactive(n)
Ran == held' = [held EXCEPT !.ran = held.ran + 1]

ApplyHosts == wire.request = "hosts" /\ UNCHANGED installed
AddCA == wire.request = "trust" /\ installed' = TRUE
RemoveCA == wire.request = "untrust" /\ installed' = FALSE
Does == (ApplyHosts \/ AddCA \/ RemoveCA) /\ UNCHANGED record

HelperDoes(n) ==
    /\ Effects(n) /\ Ran
    /\ Does /\ UNCHANGED excused
    /\ Replies("ok")
    /\ UNCHANGED << work, quit, closed, current, last, helper, eof, polkit, bounds >>

\* The trust store cannot be refreshed: a CA just written is removed again, which
\* may fail; a CA just removed stays away.
RefreshFails == (AddCA \/ RemoveCA) /\ excused' = TRUE

HelperFails(n) ==
    /\ Effects(n) /\ Fault
    /\ Replies("refused")
    /\ RefreshFails \/ UNCHANGED << installed, excused >>
    /\ UNCHANGED << gui, record, helper, eof, polkit, sessions, old, crashes >>

\* The helper dies between two requests, before an effect, or after it and
\* before the reply.
HelperDies(n) ==
    /\ helper[n] \in {"starting", "serving"} /\ Fault
    /\ Ends(n, "broken")
    /\ wire' = IF held.session = n THEN [wire EXCEPT !.request = "none"] ELSE wire
    /\ \/ UNCHANGED << held, disk >>
       \/ Effects(n) /\ Ran /\ Does /\ excused' = (wire.request # "hosts" \/ excused)
    /\ UNCHANGED << work, quit, closed, current, last, eof, polkit, sessions, old, crashes >>

\* Its own timer, started after the GUI's, and the end of its input.
HelperEnds(n) ==
    /\ helper[n] = "serving" /\ n \in old \cup eof
    /\ Ends(n, "ended")
    /\ wire' = IF held.session = n THEN [wire EXCEPT !.request = "none"] ELSE wire
    /\ UNCHANGED << gui, eof, polkit, disk, bounds >>

-----------------------------------------------------------------------------
(* Time, and the end of the GUI process                                    *)

\* polkit counts from the grant, the GUI from the start of pkexec.
Lapse(n) ==
    /\ n \in granted /\ ~(held.pc = "start" /\ held.session = n)
    /\ granted' = granted \ {n}
    /\ UNCHANGED << gui, root, leaked, disk, bounds >>

Expire(n) ==
    /\ n \notin old \cup granted /\ helper[n] # "none"
    /\ old' = old \cup {n}
    /\ UNCHANGED << gui, root, polkit, disk, sessions, faults, crashes >>

\* The kernel signals a helper whose parent has gone.
Orphaned == [n \in Sessions |-> IF helper[n] = "none" THEN "none" ELSE "broken"]

\* polkit drops what was granted to the process.  An effect under way may have
\* been done.
Restart ==
    /\ \/ quit = "done" /\ UNCHANGED crashes
       \/ crashes < MaxCrashes /\ crashes' = crashes + 1
    /\ work' = Idle /\ quit' = "no" /\ held' = Free /\ closed' = FALSE /\ current' = 0
    /\ helper' = Orphaned
    /\ wire' = Silence /\ eof' = {}
    /\ granted' = {}
    /\ \/ UNCHANGED installed
       \/ \E n \in Sessions : Effects(n) /\ Does
    /\ excused' = (excused \/ work.pc # "idle")
    /\ UNCHANGED << last, leaked, record, sessions, old, faults >>

-----------------------------------------------------------------------------
Init ==
    /\ work = Idle /\ quit = "no" /\ held = Free /\ closed = FALSE /\ current = 0
    /\ last = [ok |-> TRUE, ran |-> 1, renewing |-> FALSE]
    /\ helper = [n \in Sessions |-> "none"] /\ wire = Silence /\ eof = {}
    /\ granted = {} /\ leaked = {}
    /\ installed = FALSE /\ record = FALSE /\ excused = FALSE
    /\ sessions = 0 /\ old = {} /\ faults = 0 /\ crashes = 0

WorkerSteps == LockForCall \/ LockAfterClose \/ WriteRecord \/ WriteRecordFails \/ RemoveRecord

SessionSteps ==
    \/ Authorize \/ AuthorizeFails \/ Start \/ StartFails \/ Send \/ ReadReply \/ ReadBreaks
    \/ CloseInput \/ Reap \/ Unauthorize \/ UnauthorizeFails

HelperSteps(n) ==
    \/ HelperStarts(n) \/ HelperRejects(n) \/ HelperRevokes(n)
    \/ HelperDoes(n) \/ HelperFails(n) \/ HelperEnds(n) \/ HelperExits(n)

Next ==
    \/ BeginWork \/ WorkerSteps \/ SessionSteps
    \/ BeginQuit \/ LockForQuit
    \/ CleanupTimesOut \/ Kill
    \/ \E n \in Sessions : HelperSteps(n) \/ HelperDies(n) \/ Lapse(n) \/ Expire(n)
    \/ Restart

Spec == Init /\ [][Next]_vars

\* The user answers the prompt, the helper serves, goroutines run, a mutex that
\* is free again and again is taken at last; nothing makes time pass.
Fairness ==
    /\ WF_vars(SessionSteps)
    /\ SF_vars(WorkerSteps) /\ SF_vars(LockForQuit)
    /\ \A n \in Sessions : WF_vars(HelperSteps(n))

FairSpec == Spec /\ Fairness

-----------------------------------------------------------------------------
(* Properties                                                              *)

(* The GUI knows every root process it started: a helper that has not exited is
   the current session's, or the one a caller inside s.mu closes and waits for. *)
OneRootHelper ==
    \A n \in Sessions :
        helper[n] \in {"starting", "serving", "leaving", "failing"}
            => n = current \/ (n = held.session /\ held.pc # "free")

(* An authorization polkit still keeps belongs to the current session, or to the
   one under cleanup, or its revocation failed: the three ways out of a session
   (a broken call, its expiry, Close) withdraw exactly what they were granted. *)
AuthorizationsAreAccounted ==
    granted \subseteq ({current, held.session} \cup leaked)

(* A call never has its effect twice, although the helper may die after it and
   the session be renewed before it, and one that succeeded has had it. *)
OneEffectPerCall ==
    last.ran <= 1 /\ (last.ok => last.ran = 1)

(* At rest the record says what the trust store holds, although the record's
   write may fail after the CA was added, unless the fault left no way to tell:
   a lost reply, a failed compensation, a crash, a shutdown before the undo. *)
TrustMatchesRecord ==
    work.pc = "idle" /\ ~excused => (installed <=> record)

(* Every operation returns, and so does the shutdown's Close, whatever dies or
   is late, as long as the prompt is answered. *)
CallsReturn ==
    /\ work.pc # "idle" ~> work.pc = "idle"
    /\ quit = "lock" ~> quit # "lock" /\ quit # "inside"

(* What the test of the TTL says: a call that finds its session expired revokes
   it and goes on with a new one. *)
RenewalSucceeds == last.renewing => last.ok
-----------------------------------------------------------------------------
(* The inductive invariant of the proofs                                   *)

Called == Requests \cup {"none", "revoke"}
Operation ==
    [op : Requests \cup {"none"}, pc : {"idle", "call", "record", "undo", "forget"},
     request : Requests \cup {"none"}, present : BOOLEAN]
Steps == {"free", "authorize", "start", "send", "await", "close", "wait", "unauthorize"}
Section ==
    [by : {"nobody", "worker", "quitter"}, pc : Steps,
     session : 0..MaxSessions, request : Called,
     renewing : BOOLEAN, failed : BOOLEAN, late : BOOLEAN, ran : {0, 1}]

Pipe == [request : Called, reply : {"none", "ok", "refused", "revoked"}]
Helpers == [Sessions -> {"none", "starting", "serving", "leaving", "failing", "ended", "broken"}]

\* The section under s.mu, the connection, the root processes and the pipe.
TypeOK ==
    /\ work \in Operation /\ held \in Section
    /\ current \in 0..MaxSessions /\ sessions \in 0..MaxSessions
    /\ helper \in Helpers /\ wire \in Pipe
    /\ granted \subseteq Sessions

Live(n) == helper[n] \in {"starting", "serving", "leaving", "failing"}

\* What the section under s.mu holds: nothing between two calls, no connection
\* while one is made or closed, and the connection's session while it is used.
SectionMeans ==
    /\ held.pc = "free" => held.session = 0 /\ held.ran = 0
    /\ held.pc \in {"authorize", "start"} => current = 0 /\ held.ran = 0
    /\ held.pc = "send" => held.ran = 0
    /\ held.pc \in {"send", "await"} => current = IF held.request = "revoke" THEN 0 ELSE held.session
    /\ held.pc \in {"close", "wait", "unauthorize"} =>
         current = 0 /\ (held.failed = TRUE \/ held.request = "revoke")
    /\ held.request = "revoke" => held.ran = 0

\* A helper outlives neither its connection nor the wait for its exit.
HelpersKnown ==
    \A n \in Sessions :
        Live(n) => n = current \/ (n = held.session /\ held.pc \in {"send", "await", "close", "wait"})

\* An authorization outlives neither its connection nor the attempt to revoke it.
GrantsKnown ==
    \A n \in granted :
        n \in leaked \/ n = current
            \/ (n = held.session /\ held.pc \notin {"free", "authorize"})

\* Only a caller that waits has something in the pipe: a request has had no
\* effect yet, an ok has had its own.
EffectsCounted ==
    /\ wire.request # "none" \/ wire.reply # "none" => held.pc = "await"
    /\ wire.request # "none" => held.request = wire.request /\ held.ran = 0
    /\ wire.reply = "ok" => held.ran = 1

IInv == TypeOK /\ SectionMeans /\ HelpersKnown /\ GrantsKnown /\ EffectsCounted /\ OneEffectPerCall

\* The section under s.mu is the worker's, while it calls, or the quitter's, which
\* only revokes; a request of the worker's is the one its operation makes.
SectionIsOwned ==
    /\ held.by = "nobody" => held.pc = "free"
    /\ held.by = "worker" => work.pc \in {"call", "undo"}
    /\ held.by = "quitter" => held.request = "revoke" /\ held.pc \notin {"authorize", "start"}
    /\ held.pc \in {"send", "await"} => held.request \in {"revoke", work.request}

\* What an operation has reached, whatever faults came before it.
WorkMeans ==
    /\ work.pc = "call" => work.op # "none" /\ work.request = work.op
    /\ work.pc = "call" /\ work.op = "trust" => work.present = FALSE
    /\ work.pc = "record" => installed = TRUE
    /\ work.pc = "undo" => work.request = "untrust"
    /\ work.pc = "forget" => installed = FALSE
    /\ wire.reply = "ok" /\ work.request # "hosts" =>
         installed = (work.request = "trust")

\* Without a fault: where installed and record agree, and where one is ahead.  An
\* effect that was had is one whose ok is on its way.
TrustKnown ==
    excused = FALSE =>
        /\ work.pc = "idle" \/ (work.pc = "call" /\ work.op = "hosts") => installed = record
        /\ work.pc = "call" /\ work.op # "hosts" =>
             /\ IF work.op = "untrust" THEN record = TRUE ELSE record = FALSE
             /\ held.ran = 0 => installed = record
             /\ held.ran = 1 => wire.reply = "ok"
        /\ work.pc = "record" => record = work.present
        /\ work.pc = "undo" => record = FALSE

TrustTyped == installed \in BOOLEAN /\ record \in BOOLEAN /\ excused \in BOOLEAN
TrustInv == TrustTyped /\ SectionIsOwned /\ WorkMeans /\ TrustKnown
=============================================================================
