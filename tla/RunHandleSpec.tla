----------------------------- MODULE RunHandleSpec -----------------------------
(***************************************************************************)
(* The runHandle interface as a specification of its own: one run that     *)
(* takes the steps RunHandle allows.  ForwardRuntime relies on nothing     *)
(* else, and LocalForward implements it.                                   *)
(***************************************************************************)
EXTENDS RunHandle

VARIABLE handle

Init == handle = NewRun
Next ==
    \/ CanBegin(handle)   /\ handle' = Begin(handle)
    \/ CanReturn(handle)  /\ handle' \in {ReturnError(handle), ReturnServing(handle)}
    \/ CanLose(handle)    /\ handle' = Lose(handle)
    \/ CanRestore(handle) /\ handle' = Restore(handle)
    \/ CanLeave(handle)   /\ handle' = Leave(handle)
    \/ CanEnd(handle)     /\ handle' = End(handle)
    \/ CanStop(handle)    /\ handle' = Stop(handle)
    \/ CanClean(handle)   /\ handle' = Clean(handle)
    \/ CanTake(handle)    /\ handle' = Take(handle)
Spec == Init /\ [][Next]_handle

=============================================================================
