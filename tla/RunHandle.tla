------------------------------- MODULE RunHandle -------------------------------
(***************************************************************************)
(* What one running forward promises to RuntimeBiz: the runHandle interface*)
(* of internal/biz/runtime.go, that LocalForward implements (module        *)
(* LocalForward shows it does).  A run is a value; ForwardRuntime keeps one*)
(* per generation.                                                         *)
(*                                                                         *)
(*   life    where the run is between Start and the end of its clean-up    *)
(*   link    the lifecycle monitor's view of the SSH chain                 *)
(*   events  what the Events channel holds                                 *)
(*   lost    an event was dropped (history, read by properties only)       *)
(***************************************************************************)
EXTENDS Naturals, Sequences

CONSTANT EventCapacity  \* the buffer of the Events channel

ASSUME RunAssumption == EventCapacity \in Nat \ {0}

Lives  == {"none", "starting", "failed", "serving", "ended", "stopping", "stopped"}
Links  == {"off", "up", "down"}
Events == {"disconnected", "reconnected"}

Runs == [life : Lives, link : Links, events : Seq(Events), lost : BOOLEAN]

NewRun == [life |-> "none", link |-> "off", events |-> <<>>, lost |-> FALSE]

\* A non-blocking send: a full channel drops the event.
Emit(run, event) ==
    IF Len(run.events) < EventCapacity
    THEN [run EXCEPT !.events = Append(@, event)]
    ELSE [run EXCEPT !.lost = TRUE]

\* Start is entered once; it fails, or returns with the chain up.
CanBegin(run) == run.life = "none"
Begin(run) == [run EXCEPT !.life = "starting"]
CanReturn(run) == run.life = "starting"
ReturnError(run) == [run EXCEPT !.life = "failed"]
ReturnServing(run) == [run EXCEPT !.life = "serving", !.link = "up"]

\* The monitor reports a loss and a reconnection, whatever Stop does meanwhile,
\* and leaves for good when it gave up or noticed the stop.
CanLose(run) == run.link = "up"
Lose(run) == Emit([run EXCEPT !.link = "down"], "disconnected")
CanRestore(run) == run.link = "down"
Restore(run) == Emit([run EXCEPT !.link = "up"], "reconnected")
CanLeave(run) == run.link = "down" \/ (run.link = "up" /\ run.life \in {"stopping", "stopped"})
Leave(run) == [run EXCEPT !.link = "off"]

\* The accept loop is over although nobody called Stop; Err is set.
CanEnd(run) == run.life = "serving"
End(run) == [run EXCEPT !.life = "ended"]

\* Stop begins the clean-up once; the clean-up completes later.
CanStop(run) == run.life \in {"serving", "ended"}
Stop(run) == [run EXCEPT !.life = "stopping"]
CanClean(run) == run.life = "stopping"
Clean(run) == [run EXCEPT !.life = "stopped"]

\* The channel is closed and forgotten when the monitor leaves: a reader that
\* comes later finds nothing.
Subscribe(run) == IF run.link = "off" THEN [run EXCEPT !.events = <<>>, !.lost = TRUE] ELSE run

\* The reader takes the oldest event.
CanTake(run) == run.events # <<>>
Take(run) == [run EXCEPT !.events = Tail(@)]

=============================================================================
