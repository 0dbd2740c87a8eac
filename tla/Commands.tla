------------------------------ MODULE Commands ------------------------------
(***************************************************************************)
(* The command gate of application.Service: previews that issue one-time   *)
(* tokens, commits that consume them under the mutation lock, the cache of *)
(* recent results that makes a transport retry safe, and the calls that    *)
(* bypass the lock (preferences, StopForward, PreviewRouteChange,          *)
(* StageImport).                                                           *)
(*                                                                         *)
(* The Vault is abstracted to the parts its writers can change: the        *)
(* connection identity of one SSH host, the rest of the catalogue, and     *)
(* what is written without the lock (preferences, host keys).  A write     *)
(* flips its part.  The revision is a digest of the content, so equal      *)
(* content is an equal revision and a value may come back (ABA).  One      *)
(* Forward runs over the host.  The mutation lock lets one command in at a *)
(* time: busy is the command inside, at the point it has reached, and what *)
(* the others may do between two of its points is what takes no lock.      *)
(* Maintenance only refuses callers while CommitRestore holds the lock, so *)
(* Restore is one step here; RestoreTransaction has its detail.            *)
(***************************************************************************)
EXTENDS Naturals, Sequences, FiniteSets, Lists

CONSTANTS
    CommandIDs,     \* ids a client may put on a command
    CacheCapacity,  \* CommandCacheOptions.Capacity
    CacheTTL,       \* CommandCacheOptions.TTL, in clock ticks
    StageTTL,       \* life of a preview token, in clock ticks
    MaxClock,       \* bound on the clock
    MaxTokens,      \* bound on the previews
    MaxRuns,        \* bound on the runs of the Forward
    Mixes,          \* what the clients of one behaviour use: operations, and how many previews
    MaxEdits        \* bound on the writes of callers without a preview or an id

ASSUME CommandsAssumption ==
    /\ CacheCapacity \in Nat \ {0} /\ CacheTTL \in Nat \ {0} /\ StageTTL \in Nat \ {0}
    /\ \A m \in Mixes : m.tokens \in 0 .. MaxTokens
    /\ MaxClock \in Nat /\ MaxTokens \in Nat /\ MaxRuns \in Nat /\ MaxEdits \in Nat

VARIABLES
    clients,    \* the member of Mixes this behaviour has
    vault,      \* content of the Vault
    run,        \* the running Forward
    applied,    \* the Route the system was last brought to (AppliedDesiredRevision)
    blocked,    \* recovery.State: a quarantine or a pending restore journal
    clock,
    cache,      \* recentCommandCache: entries, least recently used first
    saves,      \* SaveSSHHost calls between their preview and their save
    hostStages, \* hostChanges: the staged identity changes
    routeStage, \* routeStages: at most one staged Route change
    importStage,\* importStage: at most one staged import
    tokens,     \* how many tokens were issued
    runs,       \* how many runs were started
    edits,      \* how many writes came without a preview or an id
    busy,       \* the command that holds the mutation lock
    effects,    \* history: how often a token changed the Vault
    acted       \* history: the command ids that changed the Vault (see Forgotten)

vars == << clients, vault, run, applied, blocked, clock, cache, saves, hostStages, routeStage,
           importStage, tokens, runs, edits, busy, effects, acted >>
env == << clients, clock, edits >>
history == << effects, acted >>
stages == << hostStages, routeStage, importStage, tokens >>

Token == 1 .. MaxTokens
None == [token |-> 0]
Idle == [at |-> "idle"]
NoRun == [gen |-> 0]
Content == [ident : 0..1, rest : 0..1, pref : 0..1]

\* A command as the cache sees it: its id, its operation and its payload.
Command == [id : CommandIDs, op : clients.ops \cap {"save", "move"}, arg : {0}]
           \cup [id : CommandIDs, op : clients.ops \cap {"host", "route", "import"}, arg : Token]

\* What no caller without the lock can write: all but the preferences.
Gated(v) == << v.ident, v.rest >>

Edits == edits < MaxEdits /\ edits' = edits + 1
Edited == [vault EXCEPT !.rest = 1 - @]

Fresh(stage) == clock < stage.born + StageTTL

-----------------------------------------------------------------------------
(* recentCommandCache                                                      *)

Unexpired(entry) == clock < entry.born + CacheTTL

PruneExpired == Staying(cache, {i \in DOMAIN cache : Unexpired(cache[i])})

Remembered(id) == LET list == PruneExpired IN \E i \in DOMAIN list : list[i].cmd.id = id
Hit(cmd) == LET list == PruneExpired IN \E i \in DOMAIN list : list[i].cmd = cmd

\* A hit becomes the most recently used entry; it does not live longer.
MoveToBack(cmd) ==
    LET list == PruneExpired
        hit == CHOOSE i \in DOMAIN list : list[i].cmd = cmd
    IN  Append(Staying(list, DOMAIN list \ {hit}), list[hit])

\* store: a new entry at the back; beyond the capacity the front goes.
Stored(cmd) ==
    LET list == PruneExpired
        others == Staying(list, {i \in DOMAIN list : list[i].cmd.id # cmd.id})
        all == Append(others, [cmd |-> cmd, born |-> clock])
    IN  SubSeq(all, (IF Len(all) > CacheCapacity THEN Len(all) - CacheCapacity ELSE 0) + 1, Len(all))

(* What a client may count on is written without looking at the cache:     *)
(* acted[id] tells how often id changed the Vault since it last did, at    *)
(* time born, and which other ids were used since id was last used.        *)
Forgotten == [times |-> 0, born |-> 0, since |-> {}]
Promised(a, time) == a.times > 0 /\ time < a.born + CacheTTL /\ Cardinality(a.since) < CacheCapacity
Lapse(a, time) == [id \in CommandIDs |-> IF Promised(a[id], time) THEN a[id] ELSE Forgotten]

\* cmd ran to its end and its result is kept, whether it changed the Vault or not.
Caches(cmd, changed) ==
    /\ cache' = Stored(cmd)
    /\ acted' = Lapse([id \in CommandIDs |->
                  IF id # cmd.id THEN [acted[id] EXCEPT !.since = @ \cup {cmd.id}]
                  ELSE IF changed THEN [times |-> acted[id].times + 1, born |-> clock, since |-> {}]
                  ELSE acted[id]], clock)

\* The client sends cmd again and gets the first result.
Replays(cmd) ==
    /\ cache' = MoveToBack(cmd)
    /\ acted' = Lapse([id \in CommandIDs |->
                  IF id = cmd.id THEN [acted[id] EXCEPT !.since = {}]
                  ELSE [acted[id] EXCEPT !.since = @ \cup {cmd.id}]], clock)

-----------------------------------------------------------------------------
(* The Forward, as far as the commands see it                              *)

Runs(ident) == [gen |-> runs + 1, ident |-> ident, stopping |-> FALSE]
RunningGeneration == IF run # NoRun /\ ~run.stopping THEN run.gen ELSE 0
SameAffected(stage) == RunningGeneration = stage.gen

\* RuntimeBiz.Start: a new run reads the host from the Vault, or dialling fails.
Starts(content) ==
    \/ /\ run = NoRun /\ runs < MaxRuns
       /\ run' = Runs(content.ident) /\ runs' = runs + 1
    \/ UNCHANGED << run, runs >>

\* StartForwards, through NetworkMutation.
StartForwards ==
    /\ busy = Idle /\ ~blocked /\ run = NoRun
    /\ Starts(vault)
    /\ UNCHANGED << vault, applied, blocked, env, cache, saves, stages, busy, history >>

\* StopForward takes no lock; the clean-up may outlast its deadline.
StopForward ==
    /\ run # NoRun /\ ~run.stopping
    /\ run' \in {NoRun, [run EXCEPT !.stopping = TRUE]}
    /\ UNCHANGED << vault, applied, blocked, env, cache, saves, stages, runs, busy, history >>

\* The clean-up of a stopped run ends, or a run ends by itself.
RunEnds ==
    /\ run # NoRun
    /\ run' = NoRun
    /\ UNCHANGED << vault, applied, blocked, env, cache, saves, stages, runs, busy, history >>

-----------------------------------------------------------------------------
(* Callers without the lock                                                *)

TimePasses ==
    /\ clock < MaxClock
    /\ clock' = clock + 1
    /\ acted' = Lapse(acted, clock')
    /\ UNCHANGED << clients, vault, run, applied, blocked, edits, cache, saves, stages, runs, busy, effects >>

\* SaveUILocale, SetUpdateCheckEnabled, SetAutoRunEnabled, EnrollHostKey and
\* ReplaceHostKey write the store directly.
SavePreference ==
    /\ Edits
    /\ vault' = [vault EXCEPT !.pref = 1 - @]
    /\ UNCHANGED << run, applied, blocked, clients, clock, cache, saves, stages, runs, busy, history >>

\* Tokens are random: no two previews share one.
Issue ==
    /\ tokens < clients.tokens
    /\ tokens' = tokens + 1

\* PreviewRouteChange: the new stage revokes the one before.
PreviewRouteChange ==
    /\ "route" \in clients.ops /\ Issue
    /\ routeStage' = [token |-> tokens + 1, born |-> clock, revision |-> vault, applied |-> applied]
    /\ UNCHANGED << vault, run, applied, blocked, env, cache, saves, hostStages, importStage,
                    runs, busy, history >>

\* StageImport replaces the staged import and destroys the package of the old
\* one, even while a commit of it has not read that package yet.
StageImport(keys) ==
    /\ "import" \in clients.ops /\ Issue
    /\ importStage' = [token |-> tokens + 1, born |-> clock, revision |-> vault, phase |-> "staged", keys |-> keys]
    /\ busy' = IF busy.at = "import" /\ busy.stage.token = importStage.token
               THEN [busy EXCEPT !.whole = FALSE] ELSE busy
    /\ UNCHANGED << vault, run, applied, blocked, env, cache, saves, hostStages, routeStage, runs, history >>

\* SaveImportKeyFile: the last key saved ends the lease of a committed import.
SaveImportKeyFile ==
    /\ importStage # None /\ importStage.phase = "committed" /\ Fresh(importStage)
    /\ importStage' = None
    /\ UNCHANGED << vault, run, applied, blocked, env, cache, saves, hostStages, routeStage,
                    tokens, runs, busy, history >>

-----------------------------------------------------------------------------
(* SaveSSHHost without a new identity: a preview and a save, each under    *)
(* the lock, with the lock free in between                                 *)

BeginSave(cmd) ==
    /\ busy = Idle /\ saves = {} /\ ~Remembered(cmd.id) /\ cmd.op = "save"
    /\ saves' = {[cmd |-> cmd, revision |-> vault]}
    /\ UNCHANGED << vault, run, applied, blocked, env, cache, stages, runs, busy, history >>

\* Mutant: the second look-up is missing.
EndSaveUnchecked(save) ==
    /\ busy = Idle
    /\ saves' \in {saves, saves \ {save}}
    /\ vault = save.revision /\ vault' = Edited /\ Caches(save.cmd, TRUE)
    /\ UNCHANGED << run, applied, blocked, env, stages, runs, busy, effects >>

\* saveSSHHostWithoutIdentityChange looks the id up again under its lock: the
\* same command may have come twice, both copies past the first look-up.
EndSave(save) ==
    /\ busy = Idle
    /\ saves' \in {saves, saves \ {save}}
    /\ \/ Hit(save.cmd) /\ Replays(save.cmd) /\ UNCHANGED vault
       \/ /\ \/ Remembered(save.cmd.id) /\ ~Hit(save.cmd)
             \/ ~Remembered(save.cmd.id) /\ vault # save.revision
          /\ UNCHANGED << vault, cache, acted >>
       \/ /\ ~Remembered(save.cmd.id) /\ vault = save.revision
          /\ vault' = Edited
          /\ Caches(save.cmd, TRUE)
    /\ UNCHANGED << run, applied, blocked, env, stages, runs, busy, effects >>

\* Another transport attempt of a finished command; SaveSSHHost's lookup is lock-free.
Retry(cmd) ==
    /\ Hit(cmd)
    /\ cmd.op # "save" => busy = Idle
    /\ cmd.op \in {"host", "route"} => ~blocked
    /\ Replays(cmd)
    /\ UNCHANGED << vault, run, applied, blocked, env, saves, stages, runs, busy, effects >>

-----------------------------------------------------------------------------
(* PreviewSSHHostChange and CommitSSHHostChange                            *)

PreviewSSHHostChange ==
    /\ "host" \in clients.ops /\ busy = Idle
    /\ Issue
    /\ hostStages' = {s \in hostStages : Fresh(s)} \cup
         {[token |-> tokens + 1, born |-> clock, revision |-> vault, gen |-> RunningGeneration]}
    /\ UNCHANGED << vault, run, applied, blocked, env, cache, saves, routeStage, importStage,
                    runs, busy, history >>

\* The command leaves the lock with a result that is kept, or with an error that is not.
Finish(changed) == busy' = Idle /\ Caches(busy.cmd, changed)

\* Mutant: the Vault may have changed since the preview.
CommitHostChangeStale(cmd, stage) ==
    /\ busy = Idle /\ ~blocked /\ ~Remembered(cmd.id)
    /\ cmd.op = "host" /\ cmd.arg = stage.token
    /\ hostStages' = hostStages \ {stage}
    /\ busy' = IF Fresh(stage) /\ SameAffected(stage)
               THEN [at |-> "preflight", cmd |-> cmd, stage |-> stage, plan |-> 0] ELSE Idle
    /\ UNCHANGED << vault, run, applied, blocked, env, cache, saves, routeStage, importStage,
                    tokens, runs, history >>

\* Mutant: the affected runs are not compared again.
CommitHostChangeUnseen(cmd, stage) ==
    /\ busy = Idle /\ ~blocked /\ ~Remembered(cmd.id)
    /\ cmd.op = "host" /\ cmd.arg = stage.token
    /\ hostStages' = hostStages \ {stage}
    /\ busy' = IF Fresh(stage) /\ vault = stage.revision
               THEN [at |-> "preflight", cmd |-> cmd, stage |-> stage, plan |-> 0] ELSE Idle
    /\ UNCHANGED << vault, run, applied, blocked, env, cache, saves, routeStage, importStage,
                    tokens, runs, history >>

\* The token is gone whatever happens next; then the preview's facts are compared.
CommitHostChange(cmd, stage) ==
    /\ busy = Idle /\ ~blocked /\ ~Remembered(cmd.id)
    /\ cmd.op = "host" /\ cmd.arg = stage.token
    /\ hostStages' = hostStages \ {stage}
    /\ busy' = IF Fresh(stage) /\ vault = stage.revision /\ SameAffected(stage)
               THEN [at |-> "preflight", cmd |-> cmd, stage |-> stage, plan |-> 0] ELSE Idle
    /\ UNCHANGED << vault, run, applied, blocked, env, cache, saves, routeStage, importStage,
                    tokens, runs, history >>

\* The preflight connections fail: the result says so and nothing was touched.
PreflightFails ==
    /\ busy.at = "preflight"
    /\ Finish(FALSE)
    /\ UNCHANGED << vault, run, applied, blocked, env, saves, stages, runs, effects >>

\* Suspend stops the runs that were shown, by id; the plan holds what it stopped.
SuspendRuns ==
    /\ busy.at = "preflight"
    /\ IF busy.stage.gen # 0 /\ RunningGeneration # 0
       THEN run' = NoRun /\ busy' = [busy EXCEPT !.at = "save", !.plan = run.gen]
       ELSE run' = run /\ busy' = [busy EXCEPT !.at = "save"]
    /\ UNCHANGED << vault, applied, blocked, env, cache, saves, stages, runs, history >>

\* A run outlasts the stop deadline: the change is given up before the save.
SuspendFails ==
    /\ busy.at = "preflight" /\ busy.stage.gen # 0 /\ run # NoRun
    /\ run' = [run EXCEPT !.stopping = TRUE]
    /\ Finish(FALSE)
    /\ UNCHANGED << vault, applied, blocked, env, saves, stages, runs, effects >>

SaveHost ==
    /\ busy.at = "save"
    /\ vault' = [vault EXCEPT !.ident = 1 - @]
    /\ effects' = [effects EXCEPT ![busy.cmd.arg] = @ + 1]
    /\ busy' = [busy EXCEPT !.at = "resume"]
    /\ UNCHANGED << run, applied, blocked, env, cache, saves, stages, runs, acted >>

\* Resume starts again what the plan says was stopped; a compensation does so
\* after a failed save, over the old identity.
ResumeRuns ==
    /\ busy.at \in {"save", "resume"}
    /\ IF busy.plan # 0 THEN Starts(vault) ELSE UNCHANGED << run, runs >>
    /\ Finish(busy.at = "resume")
    /\ UNCHANGED << vault, applied, blocked, env, saves, stages, effects >>

-----------------------------------------------------------------------------
(* CommitRouteChange                                                       *)

\* Every rejection is a result and is kept; a missing consent leaves the stage
\* for another try, a stale preview takes it away.
RejectRouteChange(cmd) ==
    /\ busy = Idle /\ ~blocked /\ ~Remembered(cmd.id) /\ cmd.op = "route"
    /\ \/ routeStage' = routeStage
       \/ /\ cmd.arg = routeStage.token /\ routeStage # None
          /\ vault # routeStage.revision \/ applied # routeStage.applied
          /\ routeStage' = None
    /\ Caches(cmd, FALSE)
    /\ UNCHANGED << vault, run, applied, blocked, env, saves, hostStages, importStage, tokens,
                    runs, busy, effects >>

CommitRouteChange(cmd) ==
    /\ busy = Idle /\ ~blocked /\ ~Remembered(cmd.id) /\ cmd.op = "route"
    /\ routeStage # None /\ cmd.arg = routeStage.token /\ Fresh(routeStage)
    /\ vault = routeStage.revision /\ applied = routeStage.applied
    /\ busy' = [at |-> "route", cmd |-> cmd, stage |-> routeStage, plan |-> 0]
    /\ UNCHANGED << vault, run, applied, blocked, env, cache, saves, stages, runs, history >>

\* Mutant: a committed preview stays.
KeepRouteStage == routeStage' = routeStage

\* deleteRouteStage: a preview made meanwhile has another token and stays.
DropRouteStage == routeStage' = IF routeStage.token = busy.cmd.arg THEN None ELSE routeStage

\* Store.Update compares the revision once more, under the store's own lock.
SaveRoute ==
    /\ busy.at = "route"
    /\ DropRouteStage
    /\ \/ /\ vault = busy.stage.revision
          /\ vault' = Edited
          /\ effects' = [effects EXCEPT ![busy.cmd.arg] = @ + 1]
          /\ busy' = [busy EXCEPT !.at = "reconcile"]
          /\ UNCHANGED << cache, acted >>
       \/ Finish(FALSE) /\ UNCHANGED << vault, effects >>
    /\ UNCHANGED << run, applied, blocked, env, saves, hostStages, importStage, tokens, runs >>

\* The saved Route is applied, or the result tells it was saved and not applied.
ReconcileRoute ==
    /\ busy.at = "reconcile"
    /\ applied' \in {applied, vault.rest}
    /\ Finish(TRUE)
    /\ UNCHANGED << vault, run, blocked, env, saves, stages, runs, effects >>

-----------------------------------------------------------------------------
(* CommitImport                                                            *)

\* Neither recovery nor, after the lock, maintenance is asked.
CommitImport(cmd) ==
    /\ busy = Idle /\ ~Remembered(cmd.id) /\ cmd.op = "import"
    /\ importStage # None /\ cmd.arg = importStage.token
    /\ Fresh(importStage) /\ importStage.phase = "staged"
    /\ importStage' = [importStage EXCEPT !.phase = "committing"]
    /\ busy' = [at |-> "import", cmd |-> cmd, stage |-> importStage, whole |-> TRUE]
    /\ UNCHANGED << vault, run, applied, blocked, env, cache, saves, hostStages, routeStage,
                    tokens, runs, history >>

SamePackage == importStage.token = busy.cmd.arg

ImportFails ==
    /\ busy.at = "import"
    /\ busy' = Idle
    /\ importStage' = IF SamePackage THEN [importStage EXCEPT !.phase = "staged"] ELSE importStage
    /\ UNCHANGED << vault, run, applied, blocked, env, cache, saves, hostStages, routeStage,
                    tokens, runs, history >>

\* A package that a newer StageImport destroyed imports as an empty one: all that
\* the Vault gets is the folder around it.  Without keys to export the stage is
\* dropped, and a newer one with it (service.go:1474-1477).
ApplyImport ==
    /\ busy.at = "import" /\ vault = busy.stage.revision
    /\ vault' = Edited
    /\ effects' = IF busy.whole THEN [effects EXCEPT ![busy.cmd.arg] = @ + 1] ELSE effects
    /\ importStage' = IF ~busy.stage.keys THEN None
                      ELSE IF SamePackage THEN [importStage EXCEPT !.phase = "committed"] ELSE importStage
    /\ Finish(TRUE)
    /\ UNCHANGED << run, applied, blocked, env, saves, hostStages, routeStage, tokens, runs >>

-----------------------------------------------------------------------------
(* The other callers of the lock                                           *)

\* CreateFolder, RenameFolder, SaveForward, SaveWebRoute: the Vault alone.
LegacyMutation ==
    /\ Edits
    /\ busy = Idle /\ ~blocked
    /\ vault' = Edited
    /\ UNCHANGED << run, applied, blocked, clients, clock, cache, saves, stages, runs, busy, history >>

\* RemoveRoute, ApplyRoute and DeleteSelection also reconcile; the last one
\* stops the Forwards it deletes and ignores that a stop failed.
RouteMutation ==
    /\ Edits
    /\ busy = Idle /\ ~blocked
    /\ vault' \in {Edited, vault}
    /\ applied' \in {applied, vault'.rest}
    /\ run' \in {run, NoRun} \cup {IF run = NoRun THEN run ELSE [run EXCEPT !.stopping = TRUE]}
    /\ UNCHANGED << blocked, clients, clock, cache, saves, stages, runs, busy, history >>

\* MoveForwards: a cached command of one step, allowed in quarantine.
MoveForwards(cmd) ==
    /\ busy = Idle /\ ~Remembered(cmd.id) /\ cmd.op = "move"
    /\ \/ vault' = Edited /\ Caches(cmd, TRUE)
       \/ vault' = vault /\ Caches(cmd, FALSE)
    /\ UNCHANGED << run, applied, blocked, env, saves, stages, runs, busy, effects >>

\* CommitRestore stops every run, replaces the whole Vault, preferences and host
\* keys included, and leaves a quarantine; one it finds does not stop it.
Restore ==
    /\ Edits
    /\ busy = Idle
    /\ vault' \in Content
    /\ run' = NoRun /\ applied' = 0 /\ blocked' = TRUE
    /\ UNCHANGED << clients, clock, cache, saves, stages, runs, busy, history >>

\* ActivateRestoredNetwork reconciles and starts, then lifts the quarantine; a
\* failure neutralises the Routes again.
ActivateRestoredNetwork ==
    /\ busy = Idle /\ blocked
    /\ \/ applied' = vault.rest /\ blocked' = FALSE /\ Starts(vault)
       \/ applied' = 0 /\ UNCHANGED << blocked, run, runs >>
    /\ UNCHANGED << vault, env, cache, saves, stages, busy, history >>

-----------------------------------------------------------------------------

Init ==
    /\ clients \in Mixes
    /\ vault = [ident |-> 0, rest |-> 0, pref |-> 0]
    /\ run = NoRun /\ runs = 0 /\ edits = 0 /\ applied = 0 /\ blocked = FALSE /\ clock = 0
    /\ cache = << >> /\ saves = {} /\ hostStages = {} /\ routeStage = None /\ importStage = None
    /\ tokens = 0 /\ busy = Idle
    /\ effects = [t \in Token |-> 0]
    /\ acted = [id \in CommandIDs |-> Forgotten]

HostCommit == PreflightFails \/ SuspendRuns \/ SuspendFails \/ SaveHost \/ ResumeRuns

Next ==
    \/ TimePasses \/ SavePreference
    \/ StartForwards \/ StopForward \/ RunEnds
    \/ \E cmd \in Command : BeginSave(cmd) \/ MoveForwards(cmd)
    \/ \E save \in saves : EndSave(save)
    \/ \E cmd \in Command : Retry(cmd)
    \/ PreviewSSHHostChange
    \/ \E cmd \in Command, stage \in hostStages : CommitHostChange(cmd, stage)
    \/ HostCommit
    \/ PreviewRouteChange
    \/ \E cmd \in Command : RejectRouteChange(cmd) \/ CommitRouteChange(cmd)
    \/ SaveRoute \/ ReconcileRoute
    \/ \E keys \in BOOLEAN : StageImport(keys)
    \/ \E cmd \in Command : CommitImport(cmd)
    \/ ImportFails \/ ApplyImport \/ SaveImportKeyFile
    \/ LegacyMutation \/ RouteMutation \/ Restore \/ ActivateRestoredNetwork

Spec == Init /\ [][Next]_vars

-----------------------------------------------------------------------------
(* Properties                                                              *)

\* A command id that changed the Vault does not change it again while a client
\* may count on it: for CacheTTL, as long as fewer than CacheCapacity other ids
\* were used since the id was last used (idempotency.go, decision-log:3476).
AtMostOnce == \A id \in CommandIDs : acted[id].times < 2

\* However often a preview is committed, under whatever ids and whatever the
\* Vault became in between and back, its change is made at most once
\* (commitSSHHostChangeOnceLocked, deleteRouteStage, stagedImport.committed).
OneEffectPerPreview == \A t \in Token : effects[t] < 2

\* What a preview showed is what its commit meets: when the change is made,
\* everything but the preferences is as it was at the preview, and so is the set
\* of runs it stopped.
CommitsWhatWasPreviewed ==
    [][ effects' # effects =>
          /\ Gated(vault) = Gated(busy.stage.revision)
          /\ busy.at = "save" => busy.plan \in {0, busy.stage.gen} ]_vars

\* Outside a command no run uses an SSH identity the Vault no longer holds,
\* unless it is being stopped (PreviewSSHHostChange / CommitSSHHostChange).
RunningUsesStoredIdentity ==
    busy = Idle /\ run # NoRun => run.stopping \/ run.ident = vault.ident

=============================================================================
