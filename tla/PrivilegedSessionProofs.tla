----------------------- MODULE PrivilegedSessionProofs -----------------------
(***************************************************************************)
(* The inductive invariants of PrivilegedSession hold for any number of     *)
(* sessions, faults and crashes: IInv, of s.mu's section, the root helpers  *)
(* and polkit, and on top of it TrustInv, of the trust store and its record.*)
(* A step either leaves the section as it is (OutsideKeeps, RootKeeps),     *)
(* opens it (OpeningKeeps), closes a connection in it (ClosingKeeps), or    *)
(* leaves it (LeavingKeeps).                                                *)
(***************************************************************************)
EXTENDS PrivilegedSession, TLAPS

USE DEF Pipe, Helpers

\* The updates of a section, named so that the lemmas below can be cited.
MovedTo(h, s) == [h EXCEPT !.pc = s]
InSession(h, s, n) == [h EXCEPT !.pc = s, !.session = n]
Asking(h, s, r) == [h EXCEPT !.pc = s, !.request = r]
Judged(h, s, f) == [h EXCEPT !.pc = s, !.failed = f]
Delayed(h) == [h EXCEPT !.late = TRUE]
Counted(h) == [h EXCEPT !.ran = h.ran + 1]
Opened(n) == [Free EXCEPT !.by = "worker", !.session = n]
Revoking(n, b, f) ==
    [Free EXCEPT !.by = b, !.pc = "send", !.session = n, !.request = "revoke", !.renewing = f]

(* What a critical section becomes when it only goes on to another step. *)
LEMMA Moves ==
    ASSUME NEW h \in Section, NEW s \in Steps
    PROVE  /\ MovedTo(h, s) \in Section /\ MovedTo(h, s).pc = s
           /\ MovedTo(h, s).by = h.by /\ MovedTo(h, s).session = h.session /\ MovedTo(h, s).request = h.request
           /\ MovedTo(h, s).ran = h.ran /\ (h.failed = TRUE => MovedTo(h, s).failed = TRUE)
  BY DEF MovedTo, Section, Called, Requests, Steps

(* ... and when the user has granted session n, *)
LEMMA MovesToSession ==
    ASSUME NEW h \in Section, NEW s \in Steps, NEW n \in 0..MaxSessions
    PROVE  /\ InSession(h, s, n) \in Section /\ InSession(h, s, n).pc = s
           /\ InSession(h, s, n).by = h.by /\ InSession(h, s, n).session = n /\ InSession(h, s, n).request = h.request
           /\ InSession(h, s, n).ran = h.ran
  BY DEF InSession, Section, Called, Requests, Steps

(* ... when it sends a request, *)
LEMMA MovesToSend ==
    ASSUME NEW h \in Section, NEW s \in Steps, NEW r \in Called
    PROVE  /\ Asking(h, s, r) \in Section /\ Asking(h, s, r).pc = s
           /\ Asking(h, s, r).by = h.by /\ Asking(h, s, r).session = h.session /\ Asking(h, s, r).request = r
           /\ Asking(h, s, r).ran = h.ran
  BY DEF Asking, Section, Called, Requests, Steps

(* ... when its call broke or its helper was reaped, *)
LEMMA MovesFailed ==
    ASSUME NEW h \in Section, NEW s \in Steps, NEW f \in BOOLEAN
    PROVE  /\ Judged(h, s, f) \in Section /\ Judged(h, s, f).pc = s
           /\ Judged(h, s, f).by = h.by /\ Judged(h, s, f).session = h.session /\ Judged(h, s, f).request = h.request
           /\ Judged(h, s, f).ran = h.ran /\ (f = TRUE => Judged(h, s, f).failed = TRUE)
  BY DEF Judged, Section, Called, Requests, Steps

(* ... when its cleanup is late, *)
LEMMA IsLate ==
    ASSUME NEW h \in Section
    PROVE  /\ Delayed(h) \in Section /\ Delayed(h).pc = h.pc
           /\ Delayed(h).by = h.by /\ Delayed(h).session = h.session /\ Delayed(h).request = h.request
           /\ Delayed(h).ran = h.ran /\ (h.failed = TRUE => Delayed(h).failed = TRUE)
  BY DEF Delayed, Section, Called, Requests, Steps

(* ... and when the helper did what it asked for. *)
LEMMA HasRun ==
    ASSUME NEW h \in Section, h.ran = 0
    PROVE  /\ Counted(h) \in Section /\ Counted(h).pc = h.pc
           /\ Counted(h).by = h.by /\ Counted(h).session = h.session /\ Counted(h).request = h.request
           /\ Counted(h).ran = 1 /\ (h.failed = TRUE => Counted(h).failed = TRUE)
  BY DEF Counted, Section, Called, Requests, Steps

(* The section between two calls, *)
LEMMA FreeIs ==
    /\ Free \in Section /\ Free.by = "nobody" /\ Free.pc = "free"
    /\ Free.session = 0 /\ Free.request = "none" /\ Free.ran = 0
  BY SessionAssumption DEF Free, Section, Called, Requests, Steps

(* ... the one a worker opens, *)
LEMMA Opens ==
    ASSUME NEW n \in 0..MaxSessions
    PROVE  /\ Opened(n) \in Section /\ Opened(n).session = n /\ Opened(n).request = "none"
           /\ Opened(n).ran = 0 /\ Opened(n).by = "worker"
  BY DEF Opened, Free, Section, Called, Requests, Steps

(* ... and the one that begins with the end of the session. *)
LEMMA BeginsRevoking ==
    ASSUME NEW n \in 0..MaxSessions, NEW b \in {"worker", "quitter"}, NEW f \in BOOLEAN
    PROVE  /\ Revoking(n, b, f) \in Section /\ Revoking(n, b, f).pc = "send"
           /\ Revoking(n, b, f).session = n /\ Revoking(n, b, f).request = "revoke"
           /\ Revoking(n, b, f).ran = 0 /\ Revoking(n, b, f).by = b
  BY DEF Revoking, Free, Section, Called, Requests, Steps

(* The worker's next step is one of its steps. *)
LEMMA WorkMoves ==
    ASSUME NEW w \in Operation,
           NEW s \in {"idle", "call", "record", "undo", "forget"},
           NEW r \in Requests \cup {"none"}
    PROVE  [w EXCEPT !.pc = s] \in Operation /\ [w EXCEPT !.pc = s, !.request = r] \in Operation
  BY DEF Operation, Requests

(* A worker without an operation has its type, and asks for none but its own. *)
LEMMA IdleIs == Idle \in Operation /\ \A w \in Operation : w.request \in Called
  BY DEF Idle, Operation, Requests, Called

(* What a call returns counts one effect at most, and one if it succeeded. *)
LEMMA OutcomeIs ==
    ASSUME NEW ok \in BOOLEAN, NEW r \in {0, 1}, ok => r = 1, NEW f, NEW k,
           k = [ok |-> ok, ran |-> r, renewing |-> f]
    PROVE  k.ran <= 1 /\ (k.ok => k.ran = 1)
  OBVIOUS

(* The worker's call returns, and its outcome counts the effect it had. *)
LEMMA Returning ==
    ASSUME TypeOK, NEW ok \in BOOLEAN, Returns(ok), ok => held.ran = 1
    PROVE  held' = Free /\ work' \in Operation /\ OneEffectPerCall'
  <1>1. held' = Free
    BY DEF Returns
  <1>2. work' \in Operation
    <2>1. work' = AfterCall(ok)
      BY DEF Returns
    <2>2. work \in Operation
      BY DEF TypeOK
    <2>3. /\ [work EXCEPT !.pc = "record"] \in Operation
          /\ [work EXCEPT !.pc = "forget"] \in Operation
      BY <2>2, WorkMoves
    <2>. QED
      BY <2>1, <2>3, IdleIs DEF AfterCall
  <1>3. OneEffectPerCall'
    <2>1. held.ran \in {0, 1}
      BY DEF TypeOK, Section
    <2>2. last' = [ok |-> ok, ran |-> held.ran, renewing |-> held.renewing]
      BY DEF Returns
    <2>3. last'.ran <= 1 /\ (last'.ok => last'.ran = 1)
      BY <2>1, <2>2, OutcomeIs
    <2>. QED
      BY <2>3 DEF OneEffectPerCall
  <1>. QED
    BY <1>1, <1>2, <1>3

-----------------------------------------------------------------------------
(* Steps outside of s.mu's section: the helper, the pipe and the connection are
   as before, and polkit may have forgotten an authorization. *)
LEMMA OutsideKeeps ==
    ASSUME IInv, work' \in Operation, granted' \subseteq granted,
           UNCHANGED << held, current, last, helper, wire, leaked, sessions >>
    PROVE  IInv'
  <1>1. TypeOK'
    BY DEF IInv, TypeOK
  <1>2. SectionMeans' /\ EffectsCounted' /\ OneEffectPerCall'
    BY DEF IInv, SectionMeans, EffectsCounted, OneEffectPerCall
  <1>3. HelpersKnown' /\ GrantsKnown'
    BY DEF IInv, HelpersKnown, GrantsKnown, Live
  <1>. QED
    BY <1>1, <1>2, <1>3 DEF IInv

(* Unlocking s.mu is sound when no helper but the connection's is alive, the
   pipe is silent, and the section's authorization was settled. *)
LEMMA LeavingKeeps ==
    ASSUME IInv, held' = Free, work' \in Operation, OneEffectPerCall',
           UNCHANGED << current, helper, sessions >>,
           wire' = Silence \/ (wire' = wire /\ held.pc # "await"),
           granted' \subseteq granted, leaked \subseteq leaked',
           \A n \in Sessions : Live(n) => n = current,
           held.session \notin granted' \/ held.session \in leaked' \/ held.session = current
             \/ held.pc \in {"free", "authorize"}
    PROVE  IInv'
  <1>1. held'.pc = "free" /\ held'.session = 0 /\ held'.request = "none" /\ held'.ran = 0
        /\ held' \in Section
    BY FreeIs
  <1>2. wire'.request = "none" /\ wire'.reply = "none" /\ wire' \in Pipe
    BY DEF Silence, Called, IInv, TypeOK, EffectsCounted
  <1>3. TypeOK'
    BY <1>1, <1>2 DEF IInv, TypeOK
  <1>4. SectionMeans' /\ EffectsCounted'
    BY <1>1, <1>2 DEF SectionMeans, EffectsCounted
  <1>5. HelpersKnown'
    BY DEF HelpersKnown, Live
  <1>6. GrantsKnown'
    BY DEF GrantsKnown, IInv
  <1>. QED
    BY <1>3, <1>4, <1>5, <1>6 DEF IInv

-----------------------------------------------------------------------------
LEMMA WorkerKeeps ==
    IInv /\ (BeginWork \/ WriteRecord \/ WriteRecordFails \/ RemoveRecord) => IInv'
  <1>1. ASSUME IInv, BeginWork PROVE IInv'
    <2>1. \E op \in Requests, r \in Requests \cup {"none"},
             pc \in {"call", "record"}, b \in BOOLEAN :
            work' = [op |-> op, pc |-> pc, request |-> r, present |-> b]
      <3>1. CASE BeginHosts
        BY <3>1 DEF BeginHosts, Calls, Requests
      <3>2. CASE BeginTrust
        BY <3>2 DEF BeginTrust, Calls, Requests
      <3>3. CASE BeginUntrust
        BY <3>3 DEF BeginUntrust, Calls, Requests
      <3>. QED
        BY <1>1, <3>1, <3>2, <3>3 DEF BeginWork
    <2>2. work' \in Operation
      BY <2>1 DEF Operation
    <2>. QED
      BY <1>1, <2>2, OutsideKeeps DEF BeginWork, root, polkit, bounds
  <1>2. ASSUME IInv, WriteRecord PROVE IInv'
    <2>1. work' \in Operation
      BY <1>2, IdleIs DEF WriteRecord
    <2>. QED
      BY <1>2, <2>1, OutsideKeeps DEF WriteRecord, root, polkit, bounds
  <1>3. ASSUME IInv, WriteRecordFails PROVE IInv'
    <2>1. work' = [work EXCEPT !.pc = "undo", !.request = "untrust"] \/ work' = Idle
      BY <1>3 DEF WriteRecordFails
    <2>2. work \in Operation /\ "untrust" \in Requests \cup {"none"}
      BY <1>3 DEF IInv, TypeOK, Requests
    <2>3. [work EXCEPT !.pc = "undo", !.request = "untrust"] \in Operation
      BY <2>2, WorkMoves
    <2>4. work' \in Operation
      BY <2>1, <2>3, IdleIs
    <2>. QED
      BY <1>3, <2>4, OutsideKeeps DEF WriteRecordFails, root, polkit
  <1>4. ASSUME IInv, RemoveRecord PROVE IInv'
    <2>1. work' \in Operation
      BY <1>4, IdleIs DEF RemoveRecord
    <2>. QED
      BY <1>4, <2>1, OutsideKeeps DEF RemoveRecord, root, polkit
  <1>. QED
    BY <1>1, <1>2, <1>3, <1>4

LEMMA ElsewhereKeeps ==
    ASSUME IInv, BeginQuit \/ (\E n \in Sessions : Lapse(n) \/ Expire(n))
    PROVE  IInv'
  <1>1. work' \in Operation
    BY DEF IInv, TypeOK, BeginQuit, Lapse, Expire, gui
  <1>2. granted' \subseteq granted
    BY DEF BeginQuit, Lapse, Expire, polkit
  <1>3. UNCHANGED << held, current, last, helper, wire, leaked, sessions >>
    BY DEF BeginQuit, Lapse, Expire, gui, root, polkit, bounds
  <1>. QED
    BY <1>1, <1>2, <1>3, OutsideKeeps

-----------------------------------------------------------------------------
(* Opening a section: it has had no effect, and nothing is in the pipe. *)
LEMMA OpeningKeeps ==
    ASSUME IInv, held.pc = "free", held' \in Section, held'.ran = 0,
           held'.session = current, work' = work,
           UNCHANGED << last, helper, wire, granted, leaked, sessions >>,
           \/ current = 0 /\ current' = 0 /\ held'.pc = "authorize"
           \/ current # 0 /\ current' = current /\ held'.pc = "send" /\ held'.request # "revoke"
           \/ current # 0 /\ current' = 0 /\ held'.pc = "send" /\ held'.request = "revoke"
    PROVE  IInv'
  <1>1. TypeOK'
    BY SessionAssumption DEF IInv, TypeOK
  <1>2. SectionMeans'
    BY DEF SectionMeans
  <1>3. EffectsCounted' /\ OneEffectPerCall'
    BY DEF IInv, EffectsCounted, OneEffectPerCall
  <1>4. HelpersKnown'
    BY DEF IInv, SectionMeans, HelpersKnown, Live, Sessions
  <1>5. GrantsKnown'
    BY DEF IInv, SectionMeans, GrantsKnown
  <1>. QED
    BY <1>1, <1>2, <1>3, <1>4, <1>5 DEF IInv

LEMMA LockKeeps ==
    ASSUME IInv, LockForCall \/ LockAfterClose \/ LockForQuit
    PROVE  IInv'
  <1>0. /\ held \in Section /\ current \in 0..MaxSessions /\ work \in Operation
        /\ work.request \in Called
    BY IdleIs DEF IInv, TypeOK
  <1>1. CASE LockForCall
    <2>1. /\ held.pc = "free" /\ work' = work
          /\ UNCHANGED << last, helper, wire, granted, leaked, sessions >>
      BY <1>1 DEF LockForCall, root, polkit, bounds
    <2>2. PICK section : section = Opened(current)
      OBVIOUS
    <2>3. /\ section \in Section /\ section.session = current /\ section.request = "none"
          /\ section.ran = 0
      BY <1>0, <2>2, Opens
    <2>4. \/ current = 0 /\ current' = current /\ held' = MovedTo(section, "authorize")
          \/ /\ current # 0 /\ current' = current
             /\ held' = Asking(section, "send", work.request)
          \/ current # 0 /\ Revokes("worker", TRUE)
      BY <1>1, <2>2 DEF LockForCall, Ensures, Opened, MovedTo, Asking
    <2>5. CASE current = 0 /\ current' = current /\ held' = MovedTo(section, "authorize")
      <3>1. /\ held' \in Section /\ held'.pc = "authorize" /\ held'.session = current
            /\ held'.ran = 0
        BY <2>3, <2>5, Moves DEF Steps
      <3>. QED
        BY <2>1, <2>5, <3>1, OpeningKeeps
    <2>6. CASE /\ current # 0 /\ current' = current
               /\ held' = Asking(section, "send", work.request)
      <3>1. /\ held' \in Section /\ held'.pc = "send" /\ held'.session = current
            /\ held'.request = work.request /\ held'.ran = 0
        <4>1. "send" \in Steps
          BY DEF Steps
        <4>. QED
          BY <1>0, <2>3, <2>6, <4>1, MovesToSend
      <3>2. work.request # "revoke"
        BY <1>0 DEF Operation, Requests
      <3>. QED
        BY <2>1, <2>6, <3>1, <3>2, OpeningKeeps
    <2>7. CASE current # 0 /\ Revokes("worker", TRUE)
      <3>0. held' = Revoking(current, "worker", TRUE) /\ current' = 0
        BY <2>7 DEF Revokes, Revoking
      <3>1. /\ held' \in Section /\ held'.pc = "send" /\ held'.session = current
            /\ held'.request = "revoke" /\ held'.ran = 0
        BY <1>0, <3>0, BeginsRevoking
      <3>. QED
        BY <2>1, <2>7, <3>0, <3>1, OpeningKeeps
    <2>. QED
      BY <2>4, <2>5, <2>6, <2>7
  <1>2. CASE LockAfterClose
    <2>1. /\ held.pc = "free" /\ Returns(FALSE)
          /\ UNCHANGED << current, helper, wire, granted, leaked, sessions >>
      BY <1>2 DEF LockAfterClose, root, polkit, bounds
    <2>2. held' = Free /\ work' \in Operation /\ OneEffectPerCall'
      BY <2>1, Returning DEF IInv
    <2>3. \A n \in Sessions : Live(n) => n = current
      BY <2>1 DEF IInv, HelpersKnown
    <2>. QED
      BY <2>1, <2>2, <2>3, LeavingKeeps
  <1>3. CASE LockForQuit
    <2>1. /\ held.pc = "free" /\ work' = work
          /\ UNCHANGED << last, helper, wire, granted, leaked, sessions >>
      BY <1>3 DEF LockForQuit, root, polkit, bounds
    <2>2. CASE current = 0 /\ UNCHANGED << held, current >>
      BY <1>0, <2>1, <2>2, OutsideKeeps
    <2>3. CASE current # 0 /\ Revokes("quitter", FALSE)
      <3>0. held' = Revoking(current, "quitter", FALSE) /\ current' = 0
        BY <2>3 DEF Revokes, Revoking
      <3>1. /\ held' \in Section /\ held'.pc = "send" /\ held'.session = current
            /\ held'.request = "revoke" /\ held'.ran = 0
        BY <1>0, <3>0, BeginsRevoking
      <3>. QED
        BY <2>1, <2>3, <3>0, <3>1, OpeningKeeps
    <2>. QED
      BY <1>3, <2>2, <2>3 DEF LockForQuit
  <1>. QED
    BY <1>1, <1>2, <1>3

-----------------------------------------------------------------------------
(* From a broken call or a revoke to the end of the wait: the connection is
   forgotten first, and the section goes past the wait without a live helper. *)
LEMMA ClosingKeeps ==
    ASSUME IInv, held' \in Section, held'.session = held.session,
           held'.request = held.request, held'.ran = held.ran,
           held.pc \in {"send", "await", "close", "wait"},
           held'.pc \in {"close", "wait", "unauthorize"}, current' = 0,
           held'.failed = TRUE \/ held'.request = "revoke",
           UNCHANGED << work, last, helper, granted, leaked, sessions >>,
           wire' = Silence \/ (wire' = wire /\ held.pc # "await"),
           held'.pc = "unauthorize" => Gone(held.session)
    PROVE  IInv'
  <1>1. wire'.request = "none" /\ wire'.reply = "none" /\ wire' \in Pipe
    BY DEF Silence, Called, IInv, TypeOK, EffectsCounted
  <1>2. TypeOK'
    BY <1>1, SessionAssumption DEF IInv, TypeOK
  <1>3. SectionMeans'
    BY DEF IInv, SectionMeans
  <1>4. EffectsCounted' /\ OneEffectPerCall'
    BY <1>1 DEF IInv, EffectsCounted, OneEffectPerCall
  <1>5. ASSUME NEW n \in Sessions, Live(n)'
        PROVE  n = held.session /\ held'.pc \in {"close", "wait"}
    <2>1. Live(n) /\ n # 0
      BY <1>5 DEF Live, Sessions
    <2>2. n = held.session
      BY <2>1 DEF IInv, HelpersKnown, SectionMeans
    <2>3. ~Gone(n)
      BY <2>1 DEF Live, Gone
    <2>. QED
      BY <2>2, <2>3
  <1>6. HelpersKnown'
    BY <1>5 DEF HelpersKnown
  <1>7. GrantsKnown'
    BY DEF IInv, GrantsKnown, SectionMeans
  <1>. QED
    BY <1>2, <1>3, <1>4, <1>6, <1>7 DEF IInv

(* Steps of the root process and of the clock, which leave the section where it
   is and bring no helper to life. *)
LEMMA RootKeeps ==
    ASSUME IInv, held' \in Section, held'.pc = held.pc, held'.session = held.session,
           held'.request = held.request, held.failed = TRUE => held'.failed = TRUE,
           held'.ran = held.ran \/ (held.pc = "await" /\ held.request # "revoke"),
           UNCHANGED << work, current, last, granted, leaked, sessions >>,
           helper' \in Helpers,
           \A n \in Sessions : Live(n)' => Live(n),
           wire' \in Pipe,
           EffectsCounted'
    PROVE  IInv'
  <1>1. TypeOK'
    BY DEF IInv, TypeOK
  <1>2. SectionMeans'
    BY DEF IInv, SectionMeans
  <1>3. OneEffectPerCall' /\ HelpersKnown' /\ GrantsKnown'
    BY DEF IInv, OneEffectPerCall, HelpersKnown, GrantsKnown
  <1>. QED
    BY <1>1, <1>2, <1>3 DEF IInv

-----------------------------------------------------------------------------
LEMMA OpeningASession ==
    ASSUME IInv, Authorize \/ AuthorizeFails \/ Start \/ StartFails
    PROVE  IInv'
  <1>0. /\ held \in Section /\ current \in 0..MaxSessions /\ sessions \in 0..MaxSessions
        /\ held.session \in 0..MaxSessions /\ work.request \in Called
        /\ "start" \in Steps /\ "send" \in Steps
    BY IdleIs DEF IInv, TypeOK, Section, Steps
  <1>1. CASE Authorize
    <2>1. /\ held.pc = "authorize" /\ sessions' = sessions + 1 /\ sessions < MaxSessions
          /\ held' = InSession(held, "start", sessions') /\ granted' = granted \cup {sessions'}
          /\ UNCHANGED << work, current, last, helper, wire, leaked >>
      BY <1>1 DEF Authorize, root, InSession
    <2>2. sessions' \in 0..MaxSessions /\ sessions' \in Sessions
      BY <1>0, <2>1, SessionAssumption DEF Sessions
    <2>3. /\ held' \in Section /\ held'.pc = "start" /\ held'.session = sessions'
          /\ held'.request = held.request /\ held'.ran = held.ran
      <3>1. PICK n \in 0..MaxSessions : n = sessions'
        BY <2>2
      <3>2. held' = InSession(held, "start", n)
        BY <2>1, <3>1
      <3>3. held \in Section /\ "start" \in Steps
        BY <1>0
      <3>4. /\ InSession(held, "start", n) \in Section
            /\ InSession(held, "start", n).pc = "start"
            /\ InSession(held, "start", n).session = n
            /\ InSession(held, "start", n).request = held.request
            /\ InSession(held, "start", n).ran = held.ran
        BY <3>3, MovesToSession
      <3>. QED
        BY <3>1, <3>2, <3>4
    <2>4. current = 0 /\ held.ran = 0
      BY <2>1 DEF IInv, SectionMeans
    <2>5. TypeOK'
      BY <2>1, <2>2, <2>3 DEF IInv, TypeOK
    <2>6. SectionMeans' /\ EffectsCounted' /\ OneEffectPerCall'
      BY <2>1, <2>3, <2>4 DEF IInv, SectionMeans, EffectsCounted, OneEffectPerCall
    <2>7. HelpersKnown'
      BY <2>1, <2>3, <2>4 DEF IInv, HelpersKnown, Live, Sessions
    <2>8. GrantsKnown'
      BY <2>1, <2>3, <2>4 DEF IInv, GrantsKnown
    <2>. QED
      BY <2>5, <2>6, <2>7, <2>8 DEF IInv
  <1>2. CASE AuthorizeFails
    <2>1. /\ held.pc = "authorize" /\ Returns(FALSE)
          /\ UNCHANGED << current, helper, wire, granted, leaked, sessions >>
      BY <1>2 DEF AuthorizeFails, Refused, root, polkit
    <2>2. held' = Free /\ work' \in Operation /\ OneEffectPerCall'
      BY <2>1, Returning DEF IInv
    <2>3. \A n \in Sessions : Live(n) => n = current
      BY <2>1 DEF IInv, HelpersKnown
    <2>. QED
      BY <2>1, <2>2, <2>3, LeavingKeeps
  <1>3. CASE Start
    <2>1. /\ held.pc = "start" /\ helper' = [helper EXCEPT ![held.session] = "starting"]
          /\ current' = held.session /\ held' = Asking(held, "send", work.request)
          /\ UNCHANGED << work, last, wire, granted, leaked, sessions >>
      BY <1>3 DEF Start, polkit, bounds, Asking
    <2>2. work.request # "revoke"
      BY DEF IInv, TypeOK, Operation, Requests
    <2>3. /\ held' \in Section /\ held'.pc = "send" /\ held'.session = held.session
          /\ held'.request = work.request /\ held'.ran = held.ran
      BY <1>0, <2>1, MovesToSend
    <2>4. current = 0 /\ held.ran = 0
      BY <2>1 DEF IInv, SectionMeans
    <2>5. helper' \in Helpers
      BY <2>1 DEF IInv, TypeOK
    <2>6. TypeOK'
      BY <1>0, <2>1, <2>3, <2>5 DEF IInv, TypeOK
    <2>7. SectionMeans' /\ EffectsCounted' /\ OneEffectPerCall'
      BY <2>1, <2>2, <2>3, <2>4 DEF IInv, SectionMeans, EffectsCounted, OneEffectPerCall
    <2>8. ASSUME NEW n \in Sessions, n # held.session PROVE ~Live(n)'
      <3>1. ~Live(n)
        BY <2>1, <2>4, <2>8 DEF IInv, HelpersKnown, Sessions
      <3>2. helper'[n] = helper[n]
        BY <2>1, <2>8 DEF IInv, TypeOK
      <3>. QED
        BY <3>1, <3>2 DEF Live
    <2>9. HelpersKnown'
      BY <2>1, <2>8 DEF HelpersKnown
    <2>10. GrantsKnown'
      BY <2>1, <2>3, <2>4 DEF IInv, GrantsKnown, TypeOK, Sessions
    <2>. QED
      BY <2>6, <2>7, <2>9, <2>10 DEF IInv
  <1>4. CASE StartFails
    <2>1. /\ held.pc = "start" /\ Returns(FALSE)
          /\ UNCHANGED << current, helper, wire, sessions >>
          /\ \/ granted' = granted \ {held.session} /\ leaked' = leaked
             \/ leaked' = leaked \cup {held.session} /\ granted' = granted
      BY <1>4 DEF StartFails, root
    <2>2. held' = Free /\ work' \in Operation /\ OneEffectPerCall'
      BY <2>1, Returning DEF IInv
    <2>3. \A n \in Sessions : Live(n) => n = current
      BY <2>1 DEF IInv, HelpersKnown
    <2>. QED
      BY <2>1, <2>2, <2>3, LeavingKeeps
  <1>. QED
    BY <1>1, <1>2, <1>3, <1>4

-----------------------------------------------------------------------------
(* A call that broke goes on with the close of its connection. *)
LEMMA BreakingKeeps ==
    ASSUME IInv, held.pc \in {"send", "await"}, CallBreaks,
           UNCHANGED << work, last, helper, granted, leaked, sessions >>,
           wire' = Silence \/ (wire' = wire /\ held.pc # "await")
    PROVE  IInv'
  <1>1. held' = Judged(held, "close", TRUE) /\ current' = 0
    BY DEF CallBreaks, Judged
  <1>2. held \in Section /\ "close" \in Steps /\ TRUE \in BOOLEAN
    BY DEF IInv, TypeOK, Steps
  <1>3. /\ held' \in Section /\ held'.pc = "close" /\ held'.session = held.session
        /\ held'.request = held.request /\ held'.ran = held.ran /\ held'.failed = TRUE
    BY <1>1, <1>2, MovesFailed
  <1>. QED
    BY <1>1, <1>3, ClosingKeeps

LEMMA CallingTheHelper ==
    ASSUME IInv, Send \/ ReadReply \/ ReadBreaks
    PROVE  IInv'
  <1>0. held \in Section /\ "await" \in Steps /\ "close" \in Steps /\ held.ran \in {0, 1}
    BY DEF IInv, TypeOK, Steps, Section
  <1>1. CASE Send
    <2>1. held.pc = "send" /\ UNCHANGED << work, last, helper, granted, leaked, sessions >>
      BY <1>1 DEF Send, polkit, bounds
    <2>2. CASE CallBreaks /\ wire' = wire
      BY <2>1, <2>2, BreakingKeeps
    <2>3. CASE /\ wire' = [request |-> held.request, reply |-> "none"]
               /\ GoesTo("await") /\ current' = current
      <3>1. held' = MovedTo(held, "await")
        BY <2>3 DEF GoesTo, MovedTo
      <3>2. /\ held' \in Section /\ held'.pc = "await" /\ held'.session = held.session
            /\ held'.request = held.request /\ held'.ran = held.ran
        BY <1>0, <3>1, Moves
      <3>3. held.request \in Called /\ held.ran = 0
        BY <1>0, <2>1 DEF Section, IInv, SectionMeans
      <3>4. wire' \in Pipe
            /\ wire'.request = held.request /\ wire'.reply = "none"
        BY <2>3, <3>3
      <3>5. TypeOK'
        BY <2>1, <2>3, <3>2, <3>4 DEF IInv, TypeOK
      <3>6. SectionMeans' /\ EffectsCounted' /\ OneEffectPerCall'
        BY <2>1, <2>3, <3>2, <3>3, <3>4 DEF IInv, SectionMeans, EffectsCounted, OneEffectPerCall
      <3>7. HelpersKnown' /\ GrantsKnown'
        BY <2>1, <2>3, <3>2 DEF IInv, HelpersKnown, GrantsKnown, Live
      <3>. QED
        BY <3>5, <3>6, <3>7 DEF IInv
    <2>. QED
      BY <1>1, <2>2, <2>3 DEF Send
  <1>2. CASE ReadReply
    <2>1. /\ held.pc = "await" /\ wire' = Silence
          /\ UNCHANGED << current, helper, granted, leaked, sessions >>
      BY <1>2 DEF ReadReply, polkit, bounds
    <2>2. CASE held.request = "revoke" /\ GoesTo("close") /\ UNCHANGED << work, last >>
      <3>1. held' = MovedTo(held, "close")
        BY <2>2 DEF GoesTo, MovedTo
      <3>2. /\ held' \in Section /\ held'.pc = "close" /\ held'.session = held.session
            /\ held'.request = held.request /\ held'.ran = held.ran
        BY <1>0, <3>1, Moves
      <3>3. current' = 0
        BY <2>1, <2>2 DEF IInv, SectionMeans
      <3>. QED
        BY <2>1, <2>2, <3>2, <3>3, ClosingKeeps
    <2>3. CASE held.request # "revoke" /\ Returns(wire.reply = "ok")
      <3>1. (wire.reply = "ok") \in BOOLEAN /\ ((wire.reply = "ok") => held.ran = 1)
        BY DEF IInv, EffectsCounted
      <3>2. held' = Free /\ work' \in Operation /\ OneEffectPerCall'
        BY <2>3, <3>1, Returning DEF IInv
      <3>3. current = held.session
        BY <2>1, <2>3 DEF IInv, SectionMeans
      <3>4. \A n \in Sessions : Live(n) => n = current
        BY <3>3 DEF IInv, HelpersKnown
      <3>. QED
        BY <2>1, <3>2, <3>3, <3>4, LeavingKeeps
    <2>. QED
      BY <1>2, <2>2, <2>3 DEF ReadReply
  <1>3. CASE ReadBreaks
    <2>1. /\ held.pc = "await" /\ CallBreaks /\ wire' = Silence
          /\ UNCHANGED << work, last, helper, granted, leaked, sessions >>
      BY <1>3 DEF ReadBreaks, polkit, bounds
    <2>. QED
      BY <2>1, BreakingKeeps
  <1>. QED
    BY <1>1, <1>2, <1>3

-----------------------------------------------------------------------------
LEMMA WaitingForTheExit ==
    ASSUME IInv, CloseInput \/ CleanupTimesOut \/ Kill \/ Reap
    PROVE  IInv'
  <1>0. held \in Section /\ "wait" \in Steps /\ "unauthorize" \in Steps
    BY DEF IInv, TypeOK, Steps
  <1>1. CASE CloseInput
    <2>1. /\ held.pc = "close" /\ GoesTo("wait")
          /\ UNCHANGED << work, current, last, helper, wire, granted, leaked, sessions >>
      BY <1>1 DEF CloseInput, polkit, bounds
    <2>2. held' = MovedTo(held, "wait")
      BY <2>1 DEF GoesTo, MovedTo
    <2>3. /\ held' \in Section /\ held'.pc = "wait" /\ held'.session = held.session
          /\ held'.request = held.request /\ held'.ran = held.ran
          /\ (held.failed = TRUE => held'.failed = TRUE)
      BY <1>0, <2>2, Moves
    <2>4. current = 0 /\ (held.failed = TRUE \/ held.request = "revoke")
      BY <2>1 DEF IInv, SectionMeans
    <2>. QED
      BY <2>1, <2>3, <2>4, ClosingKeeps
  <1>2. CASE CleanupTimesOut
    <2>1. /\ held' = Delayed(held)
          /\ UNCHANGED << work, current, last, helper, wire, granted, leaked, sessions >>
      BY <1>2 DEF CleanupTimesOut, Delayed, root, polkit
    <2>2. /\ held' \in Section /\ held'.pc = held.pc /\ held'.session = held.session
          /\ held'.request = held.request /\ held'.ran = held.ran
          /\ (held.failed = TRUE => held'.failed = TRUE)
      BY <1>0, <2>1, IsLate
    <2>3. EffectsCounted'
      BY <2>1, <2>2 DEF IInv, EffectsCounted
    <2>. QED
      BY <2>1, <2>2, <2>3, RootKeeps DEF IInv, TypeOK, Live
  <1>3. CASE Kill
    <2>1. /\ helper' = [helper EXCEPT ![held.session] = "broken"]
          /\ UNCHANGED << work, held, current, last, wire, granted, leaked, sessions >>
      BY <1>3 DEF Kill, gui, polkit, bounds
    <2>2. helper' \in Helpers
      BY <2>1 DEF IInv, TypeOK
    <2>3. \A n \in Sessions : Live(n)' => Live(n)
      BY <2>1 DEF IInv, TypeOK, Live
    <2>4. EffectsCounted' /\ wire' \in Pipe
      BY <2>1 DEF IInv, EffectsCounted, TypeOK
    <2>. QED
      BY <1>0, <2>1, <2>2, <2>3, <2>4, RootKeeps
  <1>4. CASE Reap
    <2>1. PICK f \in BOOLEAN : f = (held.failed \/ held.late \/ helper[held.session] = "broken")
      OBVIOUS
    <2>2. /\ held.pc = "wait" /\ Gone(held.session) /\ held' = Judged(held, "unauthorize", f)
          /\ UNCHANGED << work, current, last, helper, wire, granted, leaked, sessions >>
      BY <1>4, <2>1 DEF Reap, Reaps, MayReap, Judged, root, polkit, bounds
    <2>3. held.failed = TRUE => f = TRUE
      BY <2>1
    <2>4. /\ held' \in Section /\ held'.pc = "unauthorize" /\ held'.session = held.session
          /\ held'.request = held.request /\ held'.ran = held.ran
          /\ (f = TRUE => held'.failed = TRUE)
      <3>1. /\ Judged(held, "unauthorize", f).pc = "unauthorize"
            /\ Judged(held, "unauthorize", f).session = held.session
            /\ Judged(held, "unauthorize", f).request = held.request
            /\ Judged(held, "unauthorize", f).ran = held.ran
        BY <1>0, MovesFailed
      <3>2. Judged(held, "unauthorize", f) \in Section
        BY <1>0, MovesFailed
      <3>3. f = TRUE => Judged(held, "unauthorize", f).failed = TRUE
        BY <1>0 DEF Judged, Section
      <3>. QED
        BY <2>2, <3>1, <3>2, <3>3
    <2>5. current = 0 /\ (held.failed = TRUE \/ held.request = "revoke")
      BY <2>2 DEF IInv, SectionMeans
    <2>. QED
      BY <2>2, <2>3, <2>4, <2>5, ClosingKeeps
  <1>. QED
    BY <1>1, <1>2, <1>3, <1>4

-----------------------------------------------------------------------------
(* After the cleanup the section ends, or, without an error and for an expired
   session, goes on to the prompt; its authorization is withdrawn or leaked. *)
LEMMA CleanedKeeps ==
    ASSUME IInv, held.pc = "unauthorize", NEW f \in BOOLEAN, Cleaned(f),
           held.failed = TRUE => f = TRUE,
           UNCHANGED << current, helper, wire, sessions >>,
           granted' \subseteq granted, leaked \subseteq leaked',
           held.session \notin granted' \/ held.session \in leaked'
    PROVE  IInv'
  <1>1. \A n \in Sessions : Live(n) => n = current
    BY DEF IInv, HelpersKnown
  <1>2. CASE ReturnsToQuitter
    <2>1. held' = Free /\ UNCHANGED << work, last >>
      BY <1>2 DEF ReturnsToQuitter
    <2>2. work' \in Operation /\ OneEffectPerCall'
      BY <2>1 DEF IInv, TypeOK, OneEffectPerCall
    <2>. QED
      BY <1>1, <2>1, <2>2, LeavingKeeps
  <1>3. CASE Returns(FALSE)
    <2>1. held' = Free /\ work' \in Operation /\ OneEffectPerCall'
      BY <1>3, Returning DEF IInv
    <2>. QED
      BY <1>1, <2>1, LeavingKeeps
  <1>4. CASE ~f /\ GoesTo("authorize") /\ UNCHANGED << work, last >>
    <2>1. held' = MovedTo(held, "authorize") /\ held \in Section /\ "authorize" \in Steps
      BY <1>4 DEF GoesTo, MovedTo, IInv, TypeOK, Steps
    <2>2. /\ held' \in Section /\ held'.pc = "authorize" /\ held'.session = held.session
          /\ held'.request = held.request /\ held'.ran = held.ran
      BY <2>1, Moves
    <2>3. held.failed # TRUE
      BY <1>4
    <2>4. current = 0 /\ held.ran = 0
      BY <2>3 DEF IInv, SectionMeans
    <2>5. TypeOK'
      BY <1>4, <2>2 DEF IInv, TypeOK
    <2>6. SectionMeans' /\ EffectsCounted' /\ OneEffectPerCall'
      BY <1>4, <2>2, <2>4 DEF IInv, SectionMeans, EffectsCounted, OneEffectPerCall
    <2>7. HelpersKnown'
      BY <1>1 DEF HelpersKnown, Live
    <2>8. GrantsKnown'
      BY DEF IInv, GrantsKnown
    <2>. QED
      BY <2>5, <2>6, <2>7, <2>8 DEF IInv
  <1>. QED
    BY <1>2, <1>3, <1>4 DEF Cleaned, CleanedUp, disk

LEMMA WithdrawingTheGrant ==
    ASSUME IInv, Unauthorize \/ UnauthorizeFails
    PROVE  IInv'
  <1>1. CASE Unauthorize
    <2>1. /\ held.pc = "unauthorize" /\ Cleaned(held.failed)
          /\ granted' = granted \ {held.session}
          /\ UNCHANGED << current, helper, wire, leaked, sessions >>
      BY <1>1 DEF Unauthorize, Remaining, Withdrawn, root, bounds
    <2>2. held.failed \in BOOLEAN
      BY DEF IInv, TypeOK, Section
    <2>. QED
      BY <2>1, <2>2, CleanedKeeps
  <1>2. CASE UnauthorizeFails
    <2>1. /\ held.pc = "unauthorize" /\ Cleaned(TRUE) /\ leaked' = leaked \cup {held.session}
          /\ UNCHANGED << current, helper, wire, granted, sessions >>
      BY <1>2 DEF UnauthorizeFails, root
    <2>. QED
      BY <2>1, CleanedKeeps
  <1>. QED
    BY <1>1, <1>2

-----------------------------------------------------------------------------
(* A helper that is alive goes on to another state, *)
LEMMA EndsBringsNoneToLife ==
    ASSUME TypeOK, NEW n \in Sessions, Live(n),
           NEW state \in {"serving", "leaving", "failing", "ended", "broken"}, Ends(n, state)
    PROVE  /\ helper' \in Helpers
           /\ \A m \in Sessions : Live(m)' => Live(m)
  <1>1. helper \in Helpers
        /\ helper' = [helper EXCEPT ![n] = state]
    BY DEF TypeOK, Ends
  <1>2. \A m \in Sessions : m # n => helper'[m] = helper[m]
    BY <1>1
  <1>. QED
    BY <1>1, <1>2 DEF Live

(* ... what it answers finds its caller waiting, *)
LEMMA ReadsMeans ==
    ASSUME IInv, NEW n \in Sessions, Reads(n)
    PROVE  /\ Live(n) /\ held.session = n /\ held.pc = "await"
           /\ held.request = wire.request /\ held.ran = 0
  BY DEF IInv, EffectsCounted, Reads, Live

(* ... and what the pipe holds after its end was never done. *)
LEMMA DropsMeans ==
    ASSUME IInv, NEW n,
           wire' = IF held.session = n THEN [wire EXCEPT !.request = "none"] ELSE wire
    PROVE  /\ wire' \in Pipe
           /\ wire'.reply = wire.reply /\ (wire' = wire \/ wire'.request = "none")
  BY DEF IInv, TypeOK, Called

LEMMA RepliesMeans ==
    ASSUME NEW reply \in {"ok", "refused", "revoked"}, Replies(reply)
    PROVE  /\ wire' \in Pipe
           /\ wire'.request = "none" /\ wire'.reply = reply
  BY DEF Replies, Called

(* A helper that does something else than the effect it was asked for. *)
LEMMA HelperIdles ==
    ASSUME IInv, NEW n \in Sessions,
           \/ HelperStarts(n) \/ HelperRejects(n) \/ HelperRevokes(n)
           \/ HelperFails(n) \/ HelperEnds(n) \/ HelperExits(n)
    PROVE  IInv'
  <1>1. UNCHANGED << work, held, current, last, granted, leaked, sessions >>
    BY DEF HelperStarts, HelperRejects, HelperRevokes, HelperFails, HelperEnds, HelperExits,
           gui, polkit, bounds
  <1>2. held \in Section /\ wire \in Pipe
    BY DEF IInv, TypeOK
  <1>3. CASE HelperStarts(n) \/ HelperExits(n)
    <2>1. Live(n) /\ wire' = wire
      BY <1>3 DEF HelperStarts, HelperExits, Live
    <2>2. PICK state \in {"serving", "ended", "broken"} : Ends(n, state)
      BY <1>3 DEF HelperStarts, HelperExits
    <2>3. EffectsCounted'
      BY <1>1, <2>1 DEF IInv, EffectsCounted
    <2>. QED
      BY <1>1, <1>2, <2>1, <2>2, <2>3, EndsBringsNoneToLife, RootKeeps DEF IInv
  <1>4. CASE HelperRejects(n) \/ HelperRevokes(n)
    <2>1. Reads(n)
      BY <1>4 DEF HelperRejects, HelperRevokes
    <2>2. PICK state \in {"failing", "leaving"}, reply \in {"refused", "revoked"} :
            Ends(n, state) /\ Replies(reply)
      BY <1>4 DEF HelperRejects, HelperRevokes
    <2>3. wire' \in Pipe /\ EffectsCounted'
      BY <1>1, <2>1, <2>2, ReadsMeans, RepliesMeans DEF EffectsCounted
    <2>. QED
      BY <1>1, <1>2, <2>1, <2>2, <2>3, ReadsMeans, EndsBringsNoneToLife, RootKeeps DEF IInv
  <1>5. CASE HelperFails(n)
    <2>1. Reads(n) /\ Replies("refused") /\ helper' = helper
      BY <1>5 DEF HelperFails, Effects
    <2>2. wire' \in Pipe /\ EffectsCounted'
      BY <1>1, <2>1, ReadsMeans, RepliesMeans DEF EffectsCounted
    <2>. QED
      BY <1>1, <1>2, <2>1, <2>2, RootKeeps DEF IInv, TypeOK, Live
  <1>6. CASE HelperEnds(n)
    <2>1. Live(n) /\ Ends(n, "ended")
      BY <1>6 DEF HelperEnds, Live
    <2>2. wire' = IF held.session = n THEN [wire EXCEPT !.request = "none"] ELSE wire
      BY <1>6 DEF HelperEnds
    <2>3. wire' \in Pipe /\ EffectsCounted'
      BY <1>1, <2>2, DropsMeans DEF IInv, EffectsCounted
    <2>. QED
      BY <1>1, <1>2, <2>1, <2>3, EndsBringsNoneToLife, RootKeeps DEF IInv
  <1>. QED
    BY <1>3, <1>4, <1>5, <1>6

(* The helper that does what it was asked for, whether its reply comes back or not. *)
LEMMA HelperActs ==
    ASSUME IInv, NEW n \in Sessions, HelperDoes(n) \/ HelperDies(n)
    PROVE  IInv'
  <1>1. UNCHANGED << work, current, last, granted, leaked, sessions >>
    BY DEF HelperDoes, HelperDies, polkit, bounds
  <1>2. held \in Section
    BY DEF IInv, TypeOK
  <1>3. ASSUME Effects(n), Ran
        PROVE  /\ held' \in Section /\ held'.pc = held.pc /\ held'.session = held.session
               /\ held'.request = held.request /\ held'.ran = 1
               /\ (held.failed = TRUE => held'.failed = TRUE)
               /\ held.pc = "await" /\ held.request # "revoke" /\ held.ran = 0
    <2>1. Reads(n) /\ wire.request # "revoke"
      BY <1>3 DEF Effects
    <2>2. held' = Counted(held)
      BY <1>3 DEF Ran, Counted
    <2>. QED
      BY <1>2, <2>1, <2>2, ReadsMeans, HasRun
  <1>4. CASE HelperDoes(n)
    <2>1. Effects(n) /\ Ran /\ Replies("ok") /\ helper' = helper
      BY <1>4 DEF HelperDoes
    <2>2. wire' \in Pipe /\ EffectsCounted'
      BY <1>3, <2>1, RepliesMeans DEF EffectsCounted
    <2>. QED
      BY <1>1, <1>3, <2>1, <2>2, RootKeeps DEF IInv, TypeOK, Live
  <1>5. CASE HelperDies(n)
    <2>1. Live(n) /\ Ends(n, "broken")
      BY <1>5 DEF HelperDies, Live
    <2>2. wire' = IF held.session = n THEN [wire EXCEPT !.request = "none"] ELSE wire
      BY <1>5 DEF HelperDies
    <2>3. CASE held' = held
      <3>1. wire' \in Pipe /\ EffectsCounted'
        BY <2>2, <2>3, DropsMeans DEF IInv, EffectsCounted
      <3>. QED
        BY <1>1, <1>2, <2>1, <2>3, <3>1, EndsBringsNoneToLife, RootKeeps DEF IInv
    <2>4. CASE Effects(n) /\ Ran
      <3>1. wire' \in Pipe
            /\ wire'.reply = wire.reply /\ wire'.request = "none"
        BY <1>3, <2>2, <2>4, DropsMeans, ReadsMeans DEF Effects
      <3>2. EffectsCounted'
        BY <1>3, <2>4, <3>1 DEF IInv, EffectsCounted
      <3>. QED
        BY <1>1, <1>3, <2>1, <2>4, <3>1, <3>2, EndsBringsNoneToLife, RootKeeps DEF IInv
    <2>. QED
      BY <1>5, <2>3, <2>4 DEF HelperDies
  <1>. QED
    BY <1>4, <1>5

-----------------------------------------------------------------------------
(* A new GUI process knows no session, and no helper of the old one lives on. *)
LEMMA RestartKeeps == ASSUME IInv, Restart PROVE IInv'
  <1>1. /\ work' = Idle /\ held' = Free /\ current' = 0 /\ wire' = Silence /\ granted' = {}
        /\ helper' = [n \in Sessions |-> IF helper[n] = "none" THEN "none" ELSE "broken"]
        /\ UNCHANGED << last, leaked, sessions >>
    BY DEF Restart, Orphaned
  <1>2. /\ held' \in Section /\ held'.pc = "free" /\ held'.session = 0
        /\ held'.request = "none" /\ held'.ran = 0
    BY <1>1, FreeIs
  <1>3. wire'.request = "none" /\ wire'.reply = "none" /\ wire' \in Pipe
    BY <1>1 DEF Silence, Called
  <1>4. helper' \in Helpers
        /\ \A n \in Sessions : ~Live(n)'
    BY <1>1 DEF Live
  <1>5. TypeOK'
    BY <1>1, <1>2, <1>3, <1>4, IdleIs, SessionAssumption DEF IInv, TypeOK
  <1>6. SectionMeans' /\ EffectsCounted' /\ OneEffectPerCall'
    BY <1>1, <1>2, <1>3 DEF IInv, SectionMeans, EffectsCounted, OneEffectPerCall
  <1>7. HelpersKnown' /\ GrantsKnown'
    BY <1>1, <1>4 DEF HelpersKnown, GrantsKnown
  <1>. QED
    BY <1>5, <1>6, <1>7 DEF IInv

-----------------------------------------------------------------------------
LEMMA InitHolds == Init => IInv
  <1>. SUFFICES ASSUME Init PROVE IInv
    OBVIOUS
  <1>1. /\ work = Idle /\ held = Free /\ current = 0 /\ sessions = 0 /\ wire = Silence
        /\ granted = {}
        /\ helper = [n \in Sessions |-> "none"]
        /\ last = [ok |-> TRUE, ran |-> 1, renewing |-> FALSE]
    BY DEF Init
  <1>2. wire.request = "none" /\ wire.reply = "none" /\ wire \in Pipe
    BY <1>1 DEF Silence, Called
  <1>3. TypeOK
    BY <1>1, <1>2, FreeIs, IdleIs, SessionAssumption DEF TypeOK
  <1>4. SectionMeans /\ EffectsCounted
    BY <1>1, <1>2, FreeIs DEF SectionMeans, EffectsCounted
  <1>5. OneEffectPerCall
    BY <1>1 DEF OneEffectPerCall
  <1>6. HelpersKnown /\ GrantsKnown
    BY <1>1 DEF HelpersKnown, GrantsKnown, Live
  <1>. QED
    BY <1>3, <1>4, <1>5, <1>6 DEF IInv

LEMMA NextKeeps == IInv /\ [Next]_vars => IInv'
  <1>. SUFFICES ASSUME IInv, [Next]_vars PROVE IInv'
    OBVIOUS
  <1>1. CASE BeginWork
    BY <1>1, WorkerKeeps
  <1>2. CASE WorkerSteps
    BY <1>2, WorkerKeeps, LockKeeps DEF WorkerSteps
  <1>3. CASE SessionSteps
    BY <1>3, OpeningASession, CallingTheHelper, WaitingForTheExit, WithdrawingTheGrant
       DEF SessionSteps
  <1>4. CASE BeginQuit \/ LockForQuit
    BY <1>4, ElsewhereKeeps, LockKeeps
  <1>5. CASE CleanupTimesOut \/ Kill
    BY <1>5, WaitingForTheExit
  <1>6. ASSUME NEW n \in Sessions, HelperSteps(n) \/ HelperDies(n) PROVE IInv'
    BY <1>6, HelperIdles, HelperActs DEF HelperSteps
  <1>7. ASSUME NEW n \in Sessions, Lapse(n) \/ Expire(n) PROVE IInv'
    BY <1>7, ElsewhereKeeps
  <1>8. CASE Restart
    BY <1>8, RestartKeeps
  <1>9. CASE UNCHANGED vars
    <2>1. /\ work' \in Operation
          /\ UNCHANGED << held, current, last, helper, wire, granted, leaked, sessions >>
      BY <1>9 DEF vars, gui, root, polkit, bounds, IInv, TypeOK
    <2>. QED
      BY <2>1, OutsideKeeps
  <1>. QED
    BY <1>1, <1>2, <1>3, <1>4, <1>5, <1>6, <1>7, <1>8, <1>9 DEF Next

LEMMA InvariantHolds == Spec => []IInv
  BY InitHolds, NextKeeps, PTL DEF Spec

-----------------------------------------------------------------------------
(* What the section, the connection and the pipe hold have their types. *)
THEOREM SessionTypeCorrect == Spec => []TypeOK
  <1>1. IInv => TypeOK
    BY DEF IInv
  <1>. QED
    BY <1>1, InvariantHolds, PTL

(* For any number of sessions, faults and crashes: every root process that runs
   is the connection's, or the caller inside s.mu waits for its exit. *)
THEOREM OneRootHelperHolds == Spec => []OneRootHelper
  <1>1. IInv => OneRootHelper
    BY DEF IInv, HelpersKnown, OneRootHelper, Live
  <1>. QED
    BY <1>1, InvariantHolds, PTL

(* ... and so is every authorization polkit keeps, or its revocation failed. *)
THEOREM AuthorizationsAreAccountedHolds == Spec => []AuthorizationsAreAccounted
  <1>1. IInv => AuthorizationsAreAccounted
    BY DEF IInv, GrantsKnown, AuthorizationsAreAccounted
  <1>. QED
    BY <1>1, InvariantHolds, PTL

(* No call has its effect twice, whatever dies between the request and the reply. *)
THEOREM OneEffectPerCallHolds == Spec => []OneEffectPerCall
  <1>1. IInv => OneEffectPerCall
    BY DEF IInv
  <1>. QED
    BY <1>1, InvariantHolds, PTL

-----------------------------------------------------------------------------
(* The trust store and its record.  A step leaves both and the section alone   *)
(* (TrustStays), goes on inside the section (TrustGoesOn), ends a call         *)
(* (TrustReturns), is the worker's own (TrustWorks), or is the effect.         *)

LEMMA TrustStays ==
    ASSUME TrustInv, UNCHANGED << work, held, installed, record, excused >>,
           wire'.reply = wire.reply
    PROVE  TrustInv'
  BY DEF TrustInv, TrustTyped, SectionIsOwned, WorkMeans, TrustKnown

(* A caller has one of the two parts of the section while an ok is in the pipe:
   the worker's, as a revoke has no effect. *)
LEMMA OkIsTheWorkers ==
    ASSUME IInv, TrustInv, wire.reply = "ok"
    PROVE  /\ held.pc = "await" /\ held.ran = 1 /\ held.request # "revoke"
           /\ work.pc \in {"call", "undo"}
  <1>1. held.pc = "await" /\ held.ran = 1 /\ held.request # "revoke"
    BY DEF IInv, EffectsCounted, SectionMeans
  <1>2. held.by \in {"nobody", "worker", "quitter"}
    BY DEF IInv, TypeOK, Section
  <1>. QED
    BY <1>1, <1>2 DEF TrustInv, SectionIsOwned

LEMMA TrustGoesOn ==
    ASSUME IInv, TrustInv, UNCHANGED << work, installed, record, excused >>,
           held.pc # "free", held'.by = held.by, held'.ran = held.ran,
           held.by = "quitter" => held'.request = "revoke",
           held'.pc \in {"authorize", "start"} => held.by # "quitter",
           held'.pc \in {"send", "await"} => held'.request \in {"revoke", work.request},
           wire'.reply = wire.reply \/ (wire'.reply # "ok" /\ (wire.reply = "ok" => held.ran = 0))
    PROVE  TrustInv'
  <1>1. TrustTyped'
    BY DEF TrustInv, TrustTyped
  <1>2. SectionIsOwned'
    BY DEF TrustInv, SectionIsOwned
  <1>3. WorkMeans'
    BY DEF TrustInv, WorkMeans
  <1>4. TrustKnown'
    BY DEF TrustInv, TrustKnown
  <1>. QED
    BY <1>1, <1>2, <1>3, <1>4 DEF TrustInv

(* The section is opened: it has had no effect. *)
LEMMA TrustOpens ==
    ASSUME IInv, TrustInv, UNCHANGED << work, wire, installed, record, excused >>,
           held.pc = "free", held'.ran = 0,
           \/ held'.by = "worker" /\ work.pc \in {"call", "undo"}
           \/ held'.by = "quitter" /\ held'.request = "revoke" /\ held'.pc = "send",
           held'.pc \in {"send", "await"} => held'.request \in {"revoke", work.request}
    PROVE  TrustInv'
  <1>1. held.ran = 0 /\ wire.reply # "ok"
    BY DEF IInv, SectionMeans, EffectsCounted
  <1>2. TrustTyped'
    BY DEF TrustInv, TrustTyped
  <1>3. SectionIsOwned'
    BY DEF TrustInv, SectionIsOwned
  <1>4. WorkMeans' /\ TrustKnown'
    BY <1>1 DEF TrustInv, WorkMeans, TrustKnown
  <1>. QED
    BY <1>2, <1>3, <1>4 DEF TrustInv

(* The call returns: what its ok says of the store is what the operation goes on
   with, and a call that failed without a fault had no effect. *)
LEMMA TrustReturns ==
    ASSUME IInv, TrustInv, NEW ok \in BOOLEAN, Returns(ok), work.pc \in {"call", "undo"},
           (ok = TRUE) = (wire.reply = "ok"), wire'.reply = "none"
    PROVE  TrustInv'
  <1>1. /\ held' = Free /\ work' = AfterCall(ok)
        /\ installed' = installed /\ record' = record
        /\ excused' = (excused \/ (work.pc = "undo" /\ ~ok))
    BY DEF Returns
  <1>2. /\ held'.by = "nobody" /\ held'.pc = "free" /\ held'.ran = 0
        /\ held'.request = "none"
    BY <1>1, FreeIs
  <1>3. /\ excused' \in BOOLEAN
        /\ excused' = FALSE => excused = FALSE /\ (work.pc = "undo" => ok = TRUE)
    BY <1>1 DEF TrustInv, TrustTyped
  <1>4. held.ran \in {0, 1} /\ work \in Operation
    BY DEF IInv, TypeOK, Section
  <1>5. TrustTyped'
    BY <1>1, <1>3 DEF TrustInv, TrustTyped
  <1>6. SectionIsOwned'
    BY <1>2 DEF SectionIsOwned
  <1>7. CASE work.pc = "call" /\ work.op = "trust" /\ ok = TRUE
    <2>1. work' = [work EXCEPT !.pc = "record"]
      BY <1>1, <1>7 DEF AfterCall
    <2>2. /\ work.request = "trust" /\ work.present = FALSE
          /\ work'.pc = "record" /\ work'.present = FALSE
      BY <1>4, <1>7, <2>1 DEF Operation, TrustInv, WorkMeans
    <2>3. installed' = TRUE
      BY <1>1, <1>7, <2>2 DEF TrustInv, WorkMeans
    <2>4. WorkMeans'
      BY <2>2, <2>3 DEF WorkMeans
    <2>5. TrustKnown'
      BY <1>1, <1>3, <1>7, <2>2 DEF TrustInv, TrustKnown
    <2>. QED
      BY <1>5, <1>6, <2>4, <2>5 DEF TrustInv
  <1>8. CASE work.pc = "call" /\ work.op = "untrust" /\ ok = TRUE
    <2>1. work' = [work EXCEPT !.pc = "forget"]
      BY <1>1, <1>8 DEF AfterCall
    <2>2. work.request = "untrust" /\ work'.pc = "forget"
      BY <1>4, <1>8, <2>1 DEF Operation, TrustInv, WorkMeans
    <2>3. installed' = FALSE
      BY <1>1, <1>8, <2>2 DEF TrustInv, WorkMeans
    <2>4. WorkMeans'
      BY <2>2, <2>3 DEF WorkMeans
    <2>5. TrustKnown'
      BY <2>2 DEF TrustKnown
    <2>. QED
      BY <1>5, <1>6, <2>4, <2>5 DEF TrustInv
  <1>9. CASE ~(work.pc = "call" /\ work.op \in {"trust", "untrust"} /\ ok = TRUE)
    <2>1. work' = Idle
      BY <1>1, <1>9 DEF AfterCall
    <2>2. work'.pc = "idle"
      BY <2>1 DEF Idle
    <2>3. ASSUME excused' = FALSE PROVE installed = record
      <3>1. excused = FALSE /\ (work.pc = "undo" => ok = TRUE)
        BY <1>3, <2>3
      <3>2. CASE work.pc = "undo"
        <4>1. wire.reply = "ok" /\ work.request = "untrust" /\ record = FALSE
          BY <3>1, <3>2 DEF TrustInv, WorkMeans, TrustKnown
        <4>2. installed = FALSE
          BY <4>1 DEF TrustInv, WorkMeans
        <4>. QED
          BY <4>1, <4>2
      <3>3. CASE work.pc = "call" /\ work.op = "hosts"
        BY <3>1, <3>3 DEF TrustInv, TrustKnown
      <3>4. CASE work.pc = "call" /\ work.op # "hosts"
        <4>1. ok = FALSE
          BY <1>4, <1>9, <3>4 DEF Operation, Requests, TrustInv, WorkMeans
        <4>2. held.ran = 0
          BY <1>4, <3>1, <3>4, <4>1 DEF TrustInv, TrustKnown
        <4>. QED
          BY <3>1, <3>4, <4>2 DEF TrustInv, TrustKnown
      <3>. QED
        BY <3>2, <3>3, <3>4
    <2>4. WorkMeans'
      BY <2>2 DEF WorkMeans
    <2>5. TrustKnown'
      BY <1>1, <2>2, <2>3 DEF TrustKnown
    <2>. QED
      BY <1>5, <1>6, <2>4, <2>5 DEF TrustInv
  <1>. QED
    BY <1>7, <1>8, <1>9

(* While the worker is not in a call, the section is the quitter's or nobody's. *)
LEMMA OutsideACall ==
    ASSUME IInv, TrustInv, work.pc \notin {"call", "undo"}
    PROVE  /\ held.by # "worker" /\ held.ran = 0 /\ wire.reply # "ok"
           /\ wire.request \in {"none", "revoke"}
           /\ held.pc \in {"send", "await"} => held.request = "revoke"
  <1>1. held.by \in {"nobody", "quitter"}
    BY DEF IInv, TypeOK, Section, TrustInv, SectionIsOwned
  <1>2. held.pc \in {"send", "await"} => held.request = "revoke"
    BY <1>1 DEF TrustInv, SectionIsOwned
  <1>3. held.ran = 0
    BY <1>1 DEF TrustInv, SectionIsOwned, IInv, SectionMeans
  <1>4. wire.reply # "ok" /\ wire.request \in {"none", "revoke"}
    BY <1>2, <1>3 DEF IInv, EffectsCounted
  <1>. QED
    BY <1>1, <1>2, <1>3, <1>4

LEMMA TrustWorks ==
    ASSUME IInv, TrustInv, BeginWork \/ WriteRecord \/ WriteRecordFails \/ RemoveRecord
    PROVE  TrustInv'
  <1>1. work.pc \notin {"call", "undo"} /\ work \in Operation
    BY DEF BeginWork, WriteRecord, WriteRecordFails, RemoveRecord, IInv, TypeOK
  <1>2. held' = held /\ wire' = wire /\ installed' = installed
    BY DEF BeginWork, WriteRecord, WriteRecordFails, RemoveRecord, root, disk
  <1>3. /\ held.by # "worker" /\ held.ran = 0 /\ wire.reply # "ok"
        /\ held.pc \in {"send", "await"} => held.request = "revoke"
    BY <1>1, OutsideACall
  <1>4. SectionIsOwned'
    BY <1>2, <1>3 DEF TrustInv, SectionIsOwned
  <1>5. Idle.pc = "idle"
    BY DEF Idle
  <1>6. CASE BeginWork
    <2>1. /\ work.pc = "idle" /\ record' = record /\ excused' = excused
          /\ BeginHosts \/ BeginTrust \/ BeginUntrust
      BY <1>6 DEF BeginWork, disk
    <2>2. TrustTyped' /\ TrustTyped
      BY <1>2, <2>1 DEF TrustInv, TrustTyped
    <2>3. excused = FALSE => installed = record
      BY <2>1 DEF TrustInv, TrustKnown
    <2>4. CASE BeginHosts
      <3>1. work'.pc = "call" /\ work'.op = "hosts" /\ work'.request = "hosts"
        BY <2>4 DEF BeginHosts, Calls
      <3>2. WorkMeans'
        BY <3>1 DEF WorkMeans
      <3>3. TrustKnown'
        BY <1>2, <2>1, <2>3, <3>1 DEF TrustKnown
      <3>. QED
        BY <1>4, <2>2, <3>2, <3>3 DEF TrustInv
    <2>5. CASE ~Contains /\ Calls("trust", "trust", FALSE)
      <3>1. /\ work'.pc = "call" /\ work'.op = "trust" /\ work'.request = "trust"
            /\ work'.present = FALSE
        BY <2>5 DEF Calls
      <3>2. installed = FALSE
        BY <2>2, <2>5 DEF Contains, TrustTyped
      <3>3. WorkMeans'
        BY <1>2, <1>3, <3>1 DEF WorkMeans
      <3>4. TrustKnown'
        BY <1>2, <1>3, <2>1, <2>3, <3>1, <3>2 DEF TrustKnown
      <3>. QED
        BY <1>4, <2>2, <3>3, <3>4 DEF TrustInv
    <2>6. CASE Contains /\ work' = [op |-> "trust", pc |-> "record", request |-> "none", present |-> TRUE]
      <3>1. work'.pc = "record" /\ work'.present = TRUE
        BY <2>6
      <3>2. installed = TRUE
        BY <2>2, <2>6 DEF Contains, TrustTyped
      <3>3. WorkMeans'
        BY <1>2, <1>3, <3>1, <3>2 DEF WorkMeans
      <3>4. TrustKnown'
        BY <2>1, <2>3, <3>1, <3>2 DEF TrustKnown
      <3>. QED
        BY <1>4, <2>2, <3>3, <3>4 DEF TrustInv
    <2>7. CASE BeginUntrust
      <3>1. work'.pc = "call" /\ work'.op = "untrust" /\ work'.request = "untrust"
        BY <2>7 DEF BeginUntrust, Calls
      <3>2. record = TRUE
        BY <2>2, <2>7 DEF BeginUntrust, TrustTyped
      <3>3. WorkMeans'
        BY <1>2, <1>3, <3>1 DEF WorkMeans
      <3>4. TrustKnown'
        BY <1>2, <1>3, <2>1, <2>3, <3>1, <3>2 DEF TrustKnown
      <3>. QED
        BY <1>4, <2>2, <3>3, <3>4 DEF TrustInv
    <2>. QED
      BY <2>1, <2>4, <2>5, <2>6, <2>7 DEF BeginTrust
  <1>7. CASE WriteRecord
    <2>1. work.pc = "record" /\ work'.pc = "idle" /\ record' = TRUE /\ excused' = FALSE
      BY <1>5, <1>7 DEF WriteRecord
    <2>2. installed = TRUE
      BY <2>1 DEF TrustInv, WorkMeans
    <2>3. TrustTyped' /\ WorkMeans' /\ TrustKnown'
      BY <1>2, <1>3, <2>1, <2>2 DEF TrustTyped, WorkMeans, TrustKnown
    <2>. QED
      BY <1>4, <2>3 DEF TrustInv
  <1>8. CASE WriteRecordFails
    <2>1. /\ work.pc = "record" /\ record' = record /\ excused' = excused
          /\ work' = IF ~work.present THEN [work EXCEPT !.pc = "undo", !.request = "untrust"] ELSE Idle
      BY <1>8 DEF WriteRecordFails, TakesBack, Undoes, disk
    <2>2. TrustTyped'
      BY <1>2, <2>1 DEF TrustInv, TrustTyped
    <2>3. installed = TRUE /\ (excused = FALSE => record = work.present)
      BY <2>1 DEF TrustInv, WorkMeans, TrustKnown
    <2>4. work.present \in BOOLEAN
      BY <1>1 DEF Operation
    <2>5. CASE work.present = TRUE
      <3>1. work'.pc = "idle"
        BY <1>5, <2>1, <2>5
      <3>2. WorkMeans' /\ TrustKnown'
        BY <1>2, <1>3, <2>1, <2>3, <2>5, <3>1 DEF WorkMeans, TrustKnown
      <3>. QED
        BY <1>4, <2>2, <3>2 DEF TrustInv
    <2>6. CASE work.present = FALSE
      <3>1. work'.pc = "undo" /\ work'.request = "untrust"
        BY <1>1, <2>1, <2>6 DEF Operation
      <3>2. WorkMeans' /\ TrustKnown'
        BY <1>2, <1>3, <2>1, <2>3, <2>6, <3>1 DEF WorkMeans, TrustKnown
      <3>. QED
        BY <1>4, <2>2, <3>2 DEF TrustInv
    <2>. QED
      BY <2>4, <2>5, <2>6
  <1>9. CASE RemoveRecord
    <2>1. /\ work.pc = "forget" /\ work'.pc = "idle"
          /\ \/ record' = FALSE /\ excused' = FALSE
             \/ excused' = TRUE /\ record' = record
      BY <1>5, <1>9 DEF RemoveRecord
    <2>2. installed = FALSE
      BY <2>1 DEF TrustInv, WorkMeans
    <2>3. TrustTyped'
      BY <1>2, <2>1 DEF TrustInv, TrustTyped
    <2>4. WorkMeans' /\ TrustKnown'
      BY <1>2, <1>3, <2>1, <2>2 DEF WorkMeans, TrustKnown
    <2>. QED
      BY <1>4, <2>3, <2>4 DEF TrustInv
  <1>. QED
    BY <1>6, <1>7, <1>8, <1>9

LEMMA TrustLocks ==
    ASSUME IInv, TrustInv, LockForCall \/ LockAfterClose \/ LockForQuit
    PROVE  TrustInv'
  <1>0. /\ held \in Section /\ current \in 0..MaxSessions /\ work.request \in Called
        /\ "authorize" \in Steps /\ "send" \in Steps
    BY IdleIs DEF IInv, TypeOK, Steps
  <1>1. CASE LockForCall
    <2>1. /\ held.pc = "free" /\ work.pc \in {"call", "undo"}
          /\ UNCHANGED << work, wire, installed, record, excused >>
      BY <1>1 DEF LockForCall, root, disk
    <2>2. PICK section : section = Opened(current)
      OBVIOUS
    <2>3. section \in Section /\ section.by = "worker" /\ section.ran = 0
      BY <1>0, <2>2, Opens
    <2>4. \/ held' = MovedTo(section, "authorize")
          \/ held' = Asking(section, "send", work.request)
          \/ held' = Revoking(current, "worker", TRUE)
      BY <1>1, <2>2
         DEF LockForCall, Ensures, Opened, MovedTo, Asking, Revokes, Revoking
    <2>5. /\ held'.by = "worker" /\ held'.ran = 0
          /\ held'.pc \in {"send", "await"} => held'.request \in {"revoke", work.request}
      <3>1. CASE held' = MovedTo(section, "authorize")
        BY <1>0, <2>3, <3>1, Moves
      <3>2. CASE held' = Asking(section, "send", work.request)
        BY <1>0, <2>3, <3>2, MovesToSend
      <3>3. CASE held' = Revoking(current, "worker", TRUE)
        BY <1>0, <3>3, BeginsRevoking
      <3>. QED
        BY <2>4, <3>1, <3>2, <3>3
    <2>. QED
      BY <2>1, <2>5, TrustOpens
  <1>2. CASE LockAfterClose
    <2>1. /\ held.pc = "free" /\ work.pc \in {"call", "undo"} /\ Returns(FALSE)
          /\ wire' = wire
      BY <1>2 DEF LockAfterClose, root
    <2>2. wire.reply = "none"
      BY <2>1 DEF IInv, EffectsCounted
    <2>. QED
      BY <2>1, <2>2, TrustReturns
  <1>3. CASE LockForQuit
    <2>1. held.pc = "free" /\ UNCHANGED << work, wire, installed, record, excused >>
      BY <1>3 DEF LockForQuit, root, disk
    <2>2. CASE held' = held
      BY <2>1, <2>2, TrustStays
    <2>3. CASE held' = Revoking(current, "quitter", FALSE)
      <3>1. /\ held'.by = "quitter" /\ held'.ran = 0 /\ held'.request = "revoke"
            /\ held'.pc = "send"
        BY <1>0, <2>3, BeginsRevoking
      <3>. QED
        BY <2>1, <3>1, TrustOpens
    <2>. QED
      BY <1>3, <2>2, <2>3 DEF LockForQuit, Revokes, Revoking
  <1>. QED
    BY <1>1, <1>2, <1>3

-----------------------------------------------------------------------------
(* A call ends without a reply: nothing is in the pipe. *)
LEMMA TrustGivesUp ==
    ASSUME IInv, TrustInv, held.pc \notin {"free", "await"}, held.by = "worker",
           Returns(FALSE), wire' = wire
    PROVE  TrustInv'
  <1>1. wire.reply = "none"
    BY DEF IInv, EffectsCounted
  <1>2. work.pc \in {"call", "undo"}
    BY DEF TrustInv, SectionIsOwned
  <1>. QED
    BY <1>1, <1>2, TrustReturns

(* Before the connection is used the section is the worker's. *)
LEMMA BeforeTheConnection ==
    ASSUME IInv, TrustInv, held.pc \in {"authorize", "start"}
    PROVE  held.by = "worker" /\ held.ran = 0 /\ wire.reply = "none"
  <1>1. held.by \in {"nobody", "worker", "quitter"}
    BY DEF IInv, TypeOK, Section
  <1>. QED
    BY <1>1 DEF TrustInv, SectionIsOwned, IInv, SectionMeans, EffectsCounted

LEMMA TrustWhileOpening ==
    ASSUME IInv, TrustInv, Authorize \/ AuthorizeFails \/ Start \/ StartFails
    PROVE  TrustInv'
  <1>0. /\ held \in Section /\ "start" \in Steps /\ "send" \in Steps /\ work.request \in Called
        /\ sessions \in 0..MaxSessions
    BY IdleIs DEF IInv, TypeOK, Steps
  <1>1. held.pc \in {"authorize", "start"}
    BY DEF Authorize, AuthorizeFails, Start, StartFails
  <1>2. held.by = "worker" /\ held.ran = 0 /\ wire.reply = "none"
    BY <1>1, BeforeTheConnection
  <1>3. CASE Authorize
    <2>1. /\ held' = InSession(held, "start", sessions + 1) /\ sessions < MaxSessions
          /\ UNCHANGED << work, wire, installed, record, excused >>
      BY <1>3 DEF Authorize, InSession, root, disk
    <2>2. PICK n \in 0..MaxSessions : n = sessions + 1
      BY <1>0, <2>1, SessionAssumption
    <2>3. held'.by = held.by /\ held'.ran = held.ran /\ held'.pc = "start"
      BY <1>0, <2>1, <2>2, MovesToSession
    <2>. QED
      BY <1>1, <1>2, <2>1, <2>3, TrustGoesOn
  <1>4. CASE Start
    <2>1. /\ held' = Asking(held, "send", work.request)
          /\ UNCHANGED << work, wire, installed, record, excused >>
      BY <1>4 DEF Start, Asking, disk
    <2>2. /\ held'.by = held.by /\ held'.ran = held.ran /\ held'.pc = "send"
          /\ held'.request = work.request
      BY <1>0, <2>1, MovesToSend
    <2>. QED
      BY <1>1, <1>2, <2>1, <2>2, TrustGoesOn
  <1>5. CASE AuthorizeFails \/ StartFails
    <2>1. Returns(FALSE) /\ wire' = wire
      BY <1>5 DEF AuthorizeFails, StartFails, Refused, root
    <2>. QED
      BY <1>1, <1>2, <2>1, TrustGivesUp
  <1>. QED
    BY <1>3, <1>4, <1>5

(* A step of a call under way: the section keeps its owner and its request, and
   what is in the pipe is as before, or is dropped before any effect. *)
LEMMA TrustAdvances ==
    ASSUME IInv, TrustInv, UNCHANGED << work, installed, record, excused >>,
           held.pc \in {"send", "await", "close", "wait", "unauthorize"},
           held'.pc \in {"await", "close", "wait", "unauthorize"},
           held'.by = held.by, held'.ran = held.ran, held'.request = held.request,
           held'.pc = "await" => held.pc \in {"send", "await"},
           wire'.reply = wire.reply \/ (wire'.reply # "ok" /\ (wire.reply = "ok" => held.ran = 0))
    PROVE  TrustInv'
  <1>1. held.by = "quitter" => held'.request = "revoke"
    BY DEF TrustInv, SectionIsOwned
  <1>2. held'.pc \in {"send", "await"} => held'.request \in {"revoke", work.request}
    BY DEF TrustInv, SectionIsOwned
  <1>. QED
    BY <1>1, <1>2, TrustGoesOn

LEMMA TrustWhileCalling ==
    ASSUME IInv, TrustInv, Send \/ ReadReply \/ ReadBreaks
    PROVE  TrustInv'
  <1>0. held \in Section /\ "await" \in Steps /\ "close" \in Steps
    BY DEF IInv, TypeOK, Steps
  <1>1. Silence.reply = "none"
    BY DEF Silence
  <1>2. ASSUME CallBreaks
        PROVE  /\ held'.pc = "close" /\ held'.by = held.by /\ held'.ran = held.ran
               /\ held'.request = held.request
    <2>1. held' = Judged(held, "close", TRUE)
      BY <1>2 DEF CallBreaks, Judged
    <2>. QED
      BY <1>0, <2>1, MovesFailed
  <1>3. ASSUME NEW s \in {"await", "close"}, GoesTo(s)
        PROVE  /\ held'.pc = s /\ held'.by = held.by /\ held'.ran = held.ran
               /\ held'.request = held.request
    <2>1. held' = MovedTo(held, s)
      BY <1>3 DEF GoesTo, MovedTo
    <2>. QED
      BY <1>0, <2>1, Moves
  <1>4. CASE Send
    <2>1. held.pc = "send" /\ UNCHANGED << work, installed, record, excused >>
      BY <1>4 DEF Send, disk
    <2>2. wire.reply = "none"
      BY <2>1 DEF IInv, EffectsCounted
    <2>3. wire'.reply = "none" /\ (GoesTo("await") \/ CallBreaks)
      BY <1>4, <2>2 DEF Send
    <2>. QED
      BY <1>2, <1>3, <2>1, <2>2, <2>3, TrustAdvances
  <1>5. CASE ReadReply
    <2>1. held.pc = "await" /\ wire'.reply = "none"
      BY <1>1, <1>5 DEF ReadReply
    <2>2. CASE held.request = "revoke" /\ GoesTo("close") /\ UNCHANGED << work, disk >>
      <3>1. held.ran = 0
        BY <2>2 DEF IInv, SectionMeans
      <3>. QED
        BY <1>3, <2>1, <2>2, <3>1, TrustAdvances DEF disk
    <2>3. CASE held.request # "revoke" /\ Returns(wire.reply = "ok")
      <3>1. held.by = "worker"
        BY <2>1, <2>3, <1>0 DEF TrustInv, SectionIsOwned, Section
      <3>2. work.pc \in {"call", "undo"}
        BY <3>1 DEF TrustInv, SectionIsOwned
      <3>3. PICK ok \in BOOLEAN : ok = (wire.reply = "ok")
        OBVIOUS
      <3>. QED
        BY <2>1, <2>3, <3>2, <3>3, TrustReturns
    <2>. QED
      BY <1>5, <2>2, <2>3 DEF ReadReply
  <1>6. CASE ReadBreaks
    <2>1. /\ held.pc = "await" /\ wire.reply = "none" /\ wire'.reply = "none"
          /\ CallBreaks /\ UNCHANGED << work, installed, record, excused >>
      BY <1>1, <1>6 DEF ReadBreaks, disk
    <2>. QED
      BY <1>2, <2>1, TrustAdvances
  <1>. QED
    BY <1>4, <1>5, <1>6

-----------------------------------------------------------------------------
LEMMA TrustWhileClosing ==
    ASSUME IInv, TrustInv, CloseInput \/ CleanupTimesOut \/ Kill \/ Reap
    PROVE  TrustInv'
  <1>0. held \in Section /\ "wait" \in Steps /\ "unauthorize" \in Steps
    BY DEF IInv, TypeOK, Steps
  <1>1. UNCHANGED << work, wire, installed, record, excused >>
    BY DEF CloseInput, CleanupTimesOut, Kill, Reap, gui, root, disk
  <1>2. CASE CloseInput
    <2>1. held.pc = "close" /\ held' = MovedTo(held, "wait")
      BY <1>2 DEF CloseInput, GoesTo, MovedTo
    <2>2. /\ held'.pc = "wait" /\ held'.by = held.by /\ held'.ran = held.ran
          /\ held'.request = held.request
      BY <1>0, <2>1, Moves
    <2>. QED
      BY <1>1, <2>1, <2>2, TrustAdvances
  <1>3. CASE CleanupTimesOut
    <2>1. held.pc \in {"await", "close", "wait", "unauthorize"} /\ held' = Delayed(held)
      BY <1>3 DEF CleanupTimesOut, Delayed
    <2>2. /\ held'.pc = held.pc /\ held'.by = held.by /\ held'.ran = held.ran
          /\ held'.request = held.request
      BY <1>0, <2>1, IsLate
    <2>. QED
      BY <1>1, <2>1, <2>2, TrustAdvances
  <1>4. CASE Kill
    <2>1. held' = held
      BY <1>4 DEF Kill, gui
    <2>. QED
      BY <1>1, <2>1, TrustStays
  <1>5. CASE Reap
    <2>1. PICK f \in BOOLEAN : f = (held.failed \/ held.late \/ helper[held.session] = "broken")
      OBVIOUS
    <2>2. held.pc = "wait" /\ held' = Judged(held, "unauthorize", f)
      BY <1>5, <2>1 DEF Reap, Judged
    <2>3. /\ held'.pc = "unauthorize" /\ held'.by = held.by /\ held'.ran = held.ran
          /\ held'.request = held.request
      <3>1. /\ Judged(held, "unauthorize", f).pc = "unauthorize"
            /\ Judged(held, "unauthorize", f).by = held.by
            /\ Judged(held, "unauthorize", f).ran = held.ran
            /\ Judged(held, "unauthorize", f).request = held.request
        BY <1>0, MovesFailed
      <3>. QED
        BY <2>2, <3>1
    <2>. QED
      BY <1>1, <2>2, <2>3, TrustAdvances
  <1>. QED
    BY <1>2, <1>3, <1>4, <1>5

(* The quitter has no operation to go on with. *)
LEMMA TrustWhenTheQuitterLeaves ==
    ASSUME IInv, TrustInv, ReturnsToQuitter, wire' = wire, held.pc = "unauthorize",
           held.by = "quitter"
    PROVE  TrustInv'
  <1>1. /\ held'.by = "nobody" /\ held'.pc = "free" /\ held'.ran = 0
        /\ UNCHANGED << work, installed, record, excused >>
    BY FreeIs DEF ReturnsToQuitter, disk
  <1>2. held.ran = 0
    BY DEF TrustInv, SectionIsOwned, IInv, SectionMeans
  <1>3. TrustTyped' /\ SectionIsOwned'
    BY <1>1 DEF TrustInv, TrustTyped, SectionIsOwned
  <1>4. WorkMeans' /\ TrustKnown'
    BY <1>1, <1>2 DEF TrustInv, WorkMeans, TrustKnown
  <1>. QED
    BY <1>3, <1>4 DEF TrustInv

LEMMA TrustWhenCleaned ==
    ASSUME IInv, TrustInv, Unauthorize \/ UnauthorizeFails
    PROVE  TrustInv'
  <1>0. held \in Section /\ "authorize" \in Steps
    BY DEF IInv, TypeOK, Steps
  <1>1. held.pc = "unauthorize" /\ wire' = wire
    BY DEF Unauthorize, UnauthorizeFails, root
  <1>2. \/ held.by = "quitter" /\ ReturnsToQuitter
        \/ held.by = "worker" /\ Returns(FALSE)
        \/ /\ held.by = "worker" /\ GoesTo("authorize")
           /\ UNCHANGED << work, disk >>
    BY DEF Unauthorize, UnauthorizeFails, Cleaned, CleanedUp
  <1>3. CASE held.by = "quitter" /\ ReturnsToQuitter
    BY <1>1, <1>3, TrustWhenTheQuitterLeaves
  <1>4. CASE held.by = "worker" /\ Returns(FALSE)
    BY <1>1, <1>4, TrustGivesUp
  <1>5. CASE held.by = "worker" /\ GoesTo("authorize") /\ UNCHANGED << work, disk >>
    <2>1. held' = MovedTo(held, "authorize") /\ UNCHANGED << work, installed, record, excused >>
      BY <1>5 DEF GoesTo, MovedTo, disk
    <2>2. held'.pc = "authorize" /\ held'.by = held.by /\ held'.ran = held.ran
      BY <1>0, <2>1, Moves
    <2>. QED
      BY <1>1, <1>5, <2>1, <2>2, TrustGoesOn
  <1>. QED
    BY <1>2, <1>3, <1>4, <1>5

-----------------------------------------------------------------------------
(* A request that the helper may act on is the worker's own. *)
LEMMA EffectIsTheWorkers ==
    ASSUME IInv, TrustInv, NEW n \in Sessions, Effects(n)
    PROVE  /\ held.pc = "await" /\ held.by = "worker" /\ held.ran = 0 /\ wire.reply # "ok"
           /\ work.pc \in {"call", "undo"} /\ wire.request = work.request
  <1>1. Reads(n) /\ wire.request # "revoke"
    BY DEF Effects
  <1>2. held.pc = "await" /\ held.request = wire.request /\ held.ran = 0
    BY <1>1, ReadsMeans
  <1>3. held.by = "worker"
    BY <1>1, <1>2 DEF IInv, TypeOK, Section, TrustInv, SectionIsOwned
  <1>4. work.pc \in {"call", "undo"} /\ wire.request = work.request
    BY <1>1, <1>2, <1>3 DEF TrustInv, SectionIsOwned
  <1>5. wire.reply # "ok"
    BY <1>2 DEF IInv, EffectsCounted
  <1>. QED
    BY <1>2, <1>3, <1>4, <1>5

(* What the effect leaves in the trust store. *)
LEMMA EffectIs ==
    ASSUME TrustInv, Does, wire.request = work.request, work.pc \in {"call", "undo"}
    PROVE  /\ installed' \in BOOLEAN /\ record' = record
           /\ work.request # "hosts" => installed' = (work.request = "trust")
           /\ work.request = "hosts" => installed' = installed /\ work.pc = "call" /\ work.op = "hosts"
  <1>1. work.request = "hosts" => work.pc = "call" /\ work.op = "hosts"
    BY DEF TrustInv, WorkMeans
  <1>. QED
    BY <1>1 DEF Does, ApplyHosts, AddCA, RemoveCA, TrustInv, TrustTyped

(* After the effect: its ok is in the pipe, or the fault is told. *)
LEMMA TrustAfterTheEffect ==
    ASSUME IInv, TrustInv, NEW n \in Sessions, Effects(n), Does, work' = work,
           held'.pc = held.pc, held'.by = held.by, held'.request = held.request,
           held'.ran = 1, excused' \in BOOLEAN,
           \/ wire'.reply = "ok" /\ excused' = excused
           \/ wire'.reply # "ok" /\ (excused' = FALSE => excused = FALSE /\ wire.request = "hosts")
    PROVE  TrustInv'
  <1>1. /\ held.pc = "await" /\ held.by = "worker" /\ wire.reply # "ok"
        /\ work.pc \in {"call", "undo"} /\ wire.request = work.request
    BY EffectIsTheWorkers
  <1>2. /\ installed' \in BOOLEAN /\ record' = record
        /\ work.request # "hosts" => installed' = (work.request = "trust")
        /\ work.request = "hosts" => installed' = installed /\ work.pc = "call" /\ work.op = "hosts"
    BY <1>1, EffectIs
  <1>3. TrustTyped'
    BY <1>2 DEF TrustInv, TrustTyped
  <1>4. SectionIsOwned'
    BY <1>1 DEF TrustInv, SectionIsOwned
  <1>5. WorkMeans'
    BY <1>1, <1>2 DEF TrustInv, WorkMeans
  <1>6. TrustKnown'
    BY <1>1, <1>2 DEF TrustInv, WorkMeans, TrustKnown
  <1>. QED
    BY <1>3, <1>4, <1>5, <1>6 DEF TrustInv

LEMMA TrustWithTheHelper ==
    ASSUME IInv, TrustInv, NEW n \in Sessions, HelperSteps(n)
    PROVE  TrustInv'
  <1>1. CASE HelperStarts(n) \/ HelperExits(n) \/ HelperEnds(n)
    <2>1. UNCHANGED << work, held, installed, record, excused >>
      BY <1>1 DEF HelperStarts, HelperExits, HelperEnds, gui, disk
    <2>2. wire'.reply = wire.reply
      BY <1>1, DropsMeans DEF HelperStarts, HelperExits, HelperEnds
    <2>. QED
      BY <2>1, <2>2, TrustStays
  <1>2. CASE HelperRejects(n) \/ HelperRevokes(n)
    <2>1. Reads(n) /\ UNCHANGED << work, held, installed, record, excused >>
      BY <1>2 DEF HelperRejects, HelperRevokes, gui, disk
    <2>2. wire'.reply # "ok"
      BY <1>2 DEF HelperRejects, HelperRevokes, Replies
    <2>. QED
      BY <2>1, <2>2, ReadsMeans, TrustAdvances
  <1>3. CASE HelperDoes(n)
    <2>1. Effects(n) /\ Does /\ work' = work /\ excused' = excused /\ wire'.reply = "ok"
      BY <1>3 DEF HelperDoes, Replies
    <2>2. held' = Counted(held)
      BY <1>3 DEF HelperDoes, Ran, Counted
    <2>3. held \in Section /\ held.ran = 0
      BY <2>1, EffectIsTheWorkers DEF IInv, TypeOK
    <2>4. /\ held'.pc = held.pc /\ held'.by = held.by /\ held'.request = held.request
          /\ held'.ran = 1
      BY <2>2, <2>3, HasRun
    <2>5. excused' \in BOOLEAN
      BY <2>1 DEF TrustInv, TrustTyped
    <2>. QED
      BY <2>1, <2>4, <2>5, TrustAfterTheEffect
  <1>4. CASE HelperFails(n)
    <2>1. Effects(n) /\ work' = work /\ held' = held /\ record' = record /\ wire'.reply # "ok"
      BY <1>4 DEF HelperFails, Replies, gui
    <2>2. held.pc = "await" /\ held.ran = 0 /\ wire.reply # "ok" /\ work.pc \in {"call", "undo"}
      BY <2>1, EffectIsTheWorkers
    <2>3. CASE RefreshFails
      <3>1. installed' \in BOOLEAN /\ excused' = TRUE
        BY <2>3 DEF RefreshFails, AddCA, RemoveCA
      <3>2. TrustTyped' /\ SectionIsOwned'
        BY <2>1, <3>1 DEF TrustInv, TrustTyped, SectionIsOwned
      <3>3. WorkMeans' /\ TrustKnown'
        BY <2>1, <2>2, <3>1 DEF TrustInv, WorkMeans, TrustKnown
      <3>. QED
        BY <3>2, <3>3 DEF TrustInv
    <2>4. CASE UNCHANGED << installed, excused >>
      BY <2>1, <2>2, <2>4, TrustAdvances
    <2>. QED
      BY <1>4, <2>3, <2>4 DEF HelperFails
  <1>. QED
    BY <1>1, <1>2, <1>3, <1>4 DEF HelperSteps

LEMMA TrustWhenTheHelperDies ==
    ASSUME IInv, TrustInv, NEW n \in Sessions, HelperDies(n)
    PROVE  TrustInv'
  <1>1. work' = work
    BY DEF HelperDies
  <1>2. wire'.reply = wire.reply
    BY DropsMeans DEF HelperDies
  <1>3. CASE UNCHANGED << held, disk >>
    BY <1>1, <1>2, <1>3, TrustStays DEF disk
  <1>4. CASE Effects(n) /\ Ran /\ Does /\ excused' = (wire.request # "hosts" \/ excused)
    <2>1. held \in Section /\ held.ran = 0 /\ wire.reply # "ok"
      BY <1>4, EffectIsTheWorkers DEF IInv, TypeOK
    <2>2. held' = Counted(held)
      BY <1>4 DEF Ran, Counted
    <2>3. /\ held'.pc = held.pc /\ held'.by = held.by /\ held'.request = held.request
          /\ held'.ran = 1
      BY <2>1, <2>2, HasRun
    <2>4. excused' \in BOOLEAN
      BY <1>4
    <2>5. excused' = FALSE => excused = FALSE /\ wire.request = "hosts"
      BY <1>4 DEF TrustInv, TrustTyped
    <2>. QED
      BY <1>1, <1>2, <1>4, <2>1, <2>3, <2>4, <2>5, TrustAfterTheEffect
  <1>. QED
    BY <1>3, <1>4 DEF HelperDies

(* A crash inside an operation leaves no way to tell; outside of one no effect is
   under way. *)
LEMMA TrustAfterARestart ==
    ASSUME IInv, TrustInv, Restart
    PROVE  TrustInv'
  <1>1. /\ work'.pc = "idle" /\ held'.by = "nobody" /\ held'.pc = "free" /\ held'.ran = 0
        /\ wire'.reply = "none" /\ record' = record
        /\ excused' = (excused \/ work.pc # "idle")
        /\ installed' = installed \/ \E n \in Sessions : Effects(n) /\ Does
    BY FreeIs DEF Restart, Idle, Silence
  <1>2. installed' \in BOOLEAN /\ excused' \in BOOLEAN
    BY <1>1 DEF TrustInv, TrustTyped, Does, ApplyHosts, AddCA, RemoveCA
  <1>3. ASSUME excused' = FALSE PROVE installed' = record'
    <2>1. excused = FALSE /\ work.pc = "idle"
      BY <1>1, <1>3 DEF TrustInv, TrustTyped
    <2>2. \A n \in Sessions : ~Effects(n)
      BY <2>1, EffectIsTheWorkers
    <2>3. installed' = installed
      BY <1>1, <2>2
    <2>. QED
      BY <1>1, <2>1, <2>3 DEF TrustInv, TrustKnown
  <1>4. TrustTyped' /\ SectionIsOwned'
    BY <1>1, <1>2 DEF TrustInv, TrustTyped, SectionIsOwned
  <1>5. WorkMeans' /\ TrustKnown'
    BY <1>1, <1>3 DEF WorkMeans, TrustKnown
  <1>. QED
    BY <1>4, <1>5 DEF TrustInv

-----------------------------------------------------------------------------
LEMMA TrustAtFirst == ASSUME Init PROVE TrustInv
  <1>1. /\ work.pc = "idle" /\ held.by = "nobody" /\ held.pc = "free" /\ held.ran = 0
        /\ wire.reply = "none"
        /\ installed = FALSE /\ record = FALSE /\ excused = FALSE
    BY FreeIs DEF Init, Idle, Silence
  <1>. QED
    BY <1>1 DEF TrustInv, TrustTyped, SectionIsOwned, WorkMeans, TrustKnown

LEMMA TrustKept == ASSUME IInv, TrustInv, [Next]_vars PROVE TrustInv'
  <1>1. CASE BeginWork
    BY <1>1, TrustWorks
  <1>2. CASE WorkerSteps
    BY <1>2, TrustWorks, TrustLocks DEF WorkerSteps
  <1>3. CASE SessionSteps
    BY <1>3, TrustWhileOpening, TrustWhileCalling, TrustWhileClosing, TrustWhenCleaned
       DEF SessionSteps
  <1>4. CASE LockForQuit
    BY <1>4, TrustLocks
  <1>5. CASE BeginQuit
    BY <1>5, TrustStays DEF BeginQuit, root, disk
  <1>6. CASE CleanupTimesOut \/ Kill
    BY <1>6, TrustWhileClosing
  <1>7. ASSUME NEW n \in Sessions, HelperSteps(n) PROVE TrustInv'
    BY <1>7, TrustWithTheHelper
  <1>8. ASSUME NEW n \in Sessions, HelperDies(n) PROVE TrustInv'
    BY <1>8, TrustWhenTheHelperDies
  <1>9. ASSUME NEW n \in Sessions, Lapse(n) \/ Expire(n) PROVE TrustInv'
    BY <1>9, TrustStays DEF Lapse, Expire, gui, root, disk
  <1>10. CASE Restart
    BY <1>10, TrustAfterARestart
  <1>11. CASE UNCHANGED vars
    BY <1>11, TrustStays DEF vars, gui, root, disk
  <1>. QED
    BY <1>1, <1>2, <1>3, <1>4, <1>5, <1>6, <1>7, <1>8, <1>9, <1>10, <1>11 DEF Next

LEMMA TrustInvariantHolds == Spec => []TrustInv
  <1>1. Init => TrustInv
    BY TrustAtFirst
  <1>2. IInv /\ TrustInv /\ [Next]_vars => TrustInv'
    BY TrustKept
  <1>. QED
    BY <1>1, <1>2, InvariantHolds, PTL DEF Spec

(* At rest the record names the CA exactly when the trust store holds it, for any
   number of failing writes, dying helpers, expiries and crashes, unless one of
   the named faults parted them. *)
THEOREM TrustMatchesRecordHolds == Spec => []TrustMatchesRecord
  <1>1. ASSUME TrustInv PROVE TrustMatchesRecord
    <2>1. SUFFICES ASSUME work.pc = "idle", ~excused PROVE installed <=> record
      BY DEF TrustMatchesRecord
    <2>2. excused = FALSE
      BY <1>1, <2>1 DEF TrustInv, TrustTyped
    <2>3. installed = record
      BY <1>1, <2>1, <2>2 DEF TrustInv, TrustKnown
    <2>. QED
      BY <2>3
  <1>. QED
    BY <1>1, TrustInvariantHolds, PTL

=============================================================================
