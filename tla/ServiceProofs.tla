---------------------------- MODULE ServiceProofs ----------------------------
(***************************************************************************)
(* The application service: its command gate (Commands) and, at the end,    *)
(* the catalogue its operations write (Catalog).                            *)
(*                                                                         *)
(* Two inductive invariants of Commands, for any ids, cache, lifetimes and  *)
(* mix of clients.  IInv: a token that still waits for its commit has had   *)
(* no effect and has one holder, what a commit inside the lock was shown    *)
(* still stands, and a run uses the identity the Vault holds.  CacheInv, on *)
(* top of it: what a client may count on, the cache remembers, wherever its *)
(* entry has come to lie in the list.                                       *)
(*                                                                         *)
(* One of Catalog, for any packages that some Vault once held.  CatInv:     *)
(* what is written has the shape every writer leaves behind, and a run that *)
(* goes on is that of a Forward.                                            *)
(***************************************************************************)
EXTENDS Commands, Catalog, FiniteSetTheorems, WellFoundedInduction, TLAPS

Ops == {"save", "move", "host", "route", "import"}
Sent == [id : CommandIDs, op : Ops, arg : Token \cup {0}]
RunRecords == [gen : Nat \ {0}, ident : 0..1, stopping : BOOLEAN]
HostStages == [token : Token, born : Nat, revision : Content, gen : Nat]
RouteStages == [token : Token, born : Nat, revision : Content, applied : 0..1]
ImportStages == [token : Token, born : Nat, revision : Content, keys : BOOLEAN,
                 phase : {"staged", "committing", "committed"}]
HostCommits == [at : {"preflight", "save", "resume"}, cmd : Sent, stage : HostStages, plan : Nat]
RouteCommits == [at : {"route", "reconcile"}, cmd : Sent, stage : RouteStages, plan : Nat]
ImportCommits == [at : {"import"}, cmd : Sent, stage : ImportStages, whole : BOOLEAN]

\* What the variables range over.  None and NoRun have the first field only.
Typed ==
    /\ clients \in Mixes /\ clock \in Nat /\ runs \in Nat /\ tokens \in Nat
    /\ vault \in Content /\ applied \in 0..1
    /\ run \in RunRecords \cup {NoRun}
    /\ hostStages \in SUBSET HostStages
    /\ routeStage \in RouteStages \cup {None}
    /\ importStage \in ImportStages \cup {None}
    /\ busy \in HostCommits \cup RouteCommits \cup ImportCommits \cup {Idle}
    /\ effects \in [Token -> Nat]

\* What runs has the identity the Vault holds; while a host is saved, nothing
\* runs that is not being stopped.
Silent == run = NoRun \/ run.stopping
RunIsCurrent ==
    /\ busy.at \notin {"save", "resume"} => Silent \/ run.ident = vault.ident
    /\ busy.at \in {"save", "resume"} => Silent

\* What the preview of a host showed still stands under the lock.
PreviewStands ==
    /\ busy.at \in {"preflight", "save"} =>
         vault.ident = busy.stage.revision.ident /\ vault.rest = busy.stage.revision.rest
    /\ busy.at = "preflight" => busy.plan = 0 /\ (Silent \/ run.gen = busy.stage.gen)
    /\ busy.at = "save" => busy.plan \in {0, busy.stage.gen}

\* A token whose change was not made: of a stage, or of the command inside.
Unspent(t) == t <= tokens /\ effects[t] = 0
Committing == busy.at \in {"preflight", "save", "route", "import"}
TokensAreUnspent ==
    /\ \A t \in Token : t > tokens => effects[t] = 0
    /\ \A s \in hostStages : Unspent(s.token)
    /\ routeStage # None => Unspent(routeStage.token)
    /\ importStage # None => importStage.token <= tokens
    /\ importStage # None /\ importStage.phase # "committed" => Unspent(importStage.token)
    /\ Committing => busy.cmd.arg \in Token /\ Unspent(busy.cmd.arg)

\* No two stages share a token, and only a stage of Routes or of an import
\* outlasts the beginning of its commit.
TokensAreDistinct ==
    /\ \A s, r \in hostStages : s.token = r.token => s = r
    /\ \A s \in hostStages : s.token # routeStage.token /\ s.token # importStage.token
    /\ routeStage # None => routeStage.token # importStage.token
    /\ Committing => \A s \in hostStages : s.token # busy.cmd.arg
    /\ Committing /\ busy.at # "route" => routeStage.token # busy.cmd.arg
    /\ Committing /\ busy.at # "import" => importStage.token # busy.cmd.arg

\* The inductive invariant.
IInv == Typed /\ RunIsCurrent /\ PreviewStands /\ TokensAreUnspent /\ TokensAreDistinct /\ OneEffectPerPreview

-----------------------------------------------------------------------------
(* What the fields of the command inside are *)
LEMMA BusyKinds ==
    ASSUME Typed
    PROVE  /\ busy.at \in {"preflight", "save", "resume"} => busy \in HostCommits
           /\ busy.at \in {"route", "reconcile"} => busy \in RouteCommits
           /\ busy.at = "import" => busy \in ImportCommits
           /\ busy.at = "idle" <=> busy = Idle
  <1>1. busy \in HostCommits => busy.at \in {"preflight", "save", "resume"}
    BY DEF HostCommits
  <1>2. busy \in RouteCommits => busy.at \in {"route", "reconcile"}
    BY DEF RouteCommits
  <1>3. busy \in ImportCommits => busy.at = "import"
    BY DEF ImportCommits
  <1>4. busy = Idle => busy.at = "idle"
    BY DEF Idle
  <1>. QED
    BY <1>1, <1>2, <1>3, <1>4 DEF Typed

(* ... and that a host commit keeps them when it moves on. *)
LEMMA HostMoves ==
    ASSUME busy \in HostCommits, NEW at \in {"preflight", "save", "resume"}, NEW plan \in Nat
    PROVE  /\ busy' = [busy EXCEPT !.at = at] =>
                busy' \in HostCommits /\ busy'.at = at /\ busy'.cmd = busy.cmd /\ busy'.stage = busy.stage /\ busy'.plan = busy.plan
           /\ busy' = [busy EXCEPT !.at = at, !.plan = plan] =>
                busy' \in HostCommits /\ busy'.at = at /\ busy'.cmd = busy.cmd /\ busy'.stage = busy.stage /\ busy'.plan = plan
  <1>1. ASSUME NEW b \in HostCommits
        PROVE  LET c == [b EXCEPT !.at = at] IN
               c \in HostCommits /\ c.at = at /\ c.cmd = b.cmd /\ c.stage = b.stage /\ c.plan = b.plan
    BY DEF HostCommits
  <1>2. ASSUME NEW b \in HostCommits
        PROVE  LET c == [b EXCEPT !.plan = plan] IN
               c \in HostCommits /\ c.at = b.at /\ c.cmd = b.cmd /\ c.stage = b.stage /\ c.plan = plan
    BY DEF HostCommits
  <1>3. ASSUME busy' = [busy EXCEPT !.at = at]
        PROVE  busy' \in HostCommits /\ busy'.at = at /\ busy'.cmd = busy.cmd /\ busy'.stage = busy.stage /\ busy'.plan = busy.plan
    BY <1>1, <1>3
  <1>4. ASSUME busy' = [busy EXCEPT !.at = at, !.plan = plan]
        PROVE  busy' \in HostCommits /\ busy'.at = at /\ busy'.cmd = busy.cmd /\ busy'.stage = busy.stage /\ busy'.plan = plan
    <2>. DEFINE c == [busy EXCEPT !.at = at]
    <2>1. c \in HostCommits /\ c.at = at /\ c.cmd = busy.cmd /\ c.stage = busy.stage
      BY <1>1
    <2>2. busy' = [c EXCEPT !.plan = plan]
      BY <1>4
    <2>. HIDE DEF c
    <2>. QED
      BY <1>2, <2>1, <2>2
  <1>. QED
    BY <1>3, <1>4

(* A run may be told to stop, or be over, at any time. *)
Eases ==
    \/ run' = run
    \/ run' = NoRun
    \/ run # NoRun /\ run' = [run EXCEPT !.stopping = TRUE]
Starting == run = NoRun /\ run' = Runs(vault.ident)

LEMMA RunMoves ==
    ASSUME Typed
    PROVE  /\ run # NoRun => run.gen # 0
           /\ Eases => /\ run' \in RunRecords \cup {NoRun}
                       /\ run' = NoRun \/ (run # NoRun /\ run'.gen = run.gen /\ run'.ident = run.ident
                                           /\ (run'.stopping = run.stopping \/ run'.stopping = TRUE))
           /\ Starting => run' \in RunRecords /\ run'.ident = vault.ident
           /\ Starts(vault) => (Starting \/ Eases) /\ runs' \in Nat
  <1>1. run # NoRun => run \in RunRecords
    BY DEF Typed
  <1>2. run \in RunRecords => run.gen # 0
    BY DEF RunRecords
  <1>3. ASSUME run \in RunRecords, run' = [run EXCEPT !.stopping = TRUE]
        PROVE  run' \in RunRecords /\ run'.gen = run.gen /\ run'.ident = run.ident /\ run'.stopping = TRUE
    BY <1>3 DEF RunRecords
  <1>4. Eases => /\ run' \in RunRecords \cup {NoRun}
                 /\ run' = NoRun \/ (run # NoRun /\ run'.gen = run.gen /\ run'.ident = run.ident
                                     /\ (run'.stopping = run.stopping \/ run'.stopping = TRUE))
    BY <1>1, <1>3 DEF Eases, Typed
  <1>5. vault.ident \in 0..1 /\ runs \in Nat
    BY DEF Typed, Content
  <1>6. Starting => run' \in RunRecords /\ run'.ident = vault.ident
    BY <1>5 DEF Starting, Runs, RunRecords
  <1>7. Starts(vault) => (Starting \/ Eases) /\ runs' \in Nat
    BY <1>5 DEF Starts, Starting, Eases
  <1>. QED
    BY <1>1, <1>2, <1>4, <1>6, <1>7

(* A write leaves a content. *)
LEMMA Writes ==
    ASSUME Typed
    PROVE  /\ Edited \in Content /\ Edited.ident = vault.ident
           /\ vault' = [vault EXCEPT !.pref = 1 - @] =>
                vault' \in Content /\ vault'.ident = vault.ident /\ vault'.rest = vault.rest
           /\ vault' = [vault EXCEPT !.ident = 1 - @] => vault' \in Content
           /\ vault.rest \in 0..1
  <1>1. Edited \in Content /\ Edited.ident = vault.ident
    BY DEF Typed, Content, Edited
  <1>2. vault' = [vault EXCEPT !.pref = 1 - @] => vault' \in Content /\ vault'.ident = vault.ident /\ vault'.rest = vault.rest
    BY DEF Typed, Content
  <1>3. vault' = [vault EXCEPT !.ident = 1 - @] => vault' \in Content
    BY DEF Typed, Content
  <1>. QED
    BY <1>1, <1>2, <1>3 DEF Typed, Content

-----------------------------------------------------------------------------
(* What the invariant says of a state in which nothing but the run, the      *)
(* Vault or the clock has changed.                                           *)
Rest == << clients, hostStages, routeStage, importStage, tokens, busy, effects >>

LEMMA WorldMoves ==
    ASSUME IInv, Eases, UNCHANGED Rest, vault' \in Content,
           vault'.ident = vault.ident, vault'.rest = vault.rest,
           clock' \in Nat, UNCHANGED <<runs, applied>>
    PROVE  IInv'
  <1>1. /\ run' \in RunRecords \cup {NoRun}
        /\ run' = NoRun \/ (run # NoRun /\ run'.gen = run.gen /\ run'.ident = run.ident
                            /\ (run'.stopping = run.stopping \/ run'.stopping = TRUE))
    BY RunMoves DEF IInv
  <1>2. UNCHANGED <<clients, hostStages, routeStage, importStage, tokens, busy, effects>>
    BY DEF Rest
  <1>3. Typed'
    BY <1>1, <1>2 DEF IInv, Typed, Content, HostStages, RouteStages, ImportStages, HostCommits, RouteCommits,
       ImportCommits, Token, Sent, RunRecords
  <1>4. Silent => Silent'
    BY <1>1 DEF Silent
  <1>5. RunIsCurrent' /\ PreviewStands'
    BY <1>1, <1>2, <1>4 DEF IInv, RunIsCurrent, PreviewStands, Silent
  <1>6. TokensAreUnspent' /\ TokensAreDistinct' /\ OneEffectPerPreview'
    BY <1>2 DEF IInv, TokensAreUnspent, TokensAreDistinct, OneEffectPerPreview, Unspent, Committing
  <1>. QED
    BY <1>3, <1>5, <1>6 DEF IInv

(* Between the commands the Vault may become anything, as long as no run is  *)
(* left with an identity of before.                                          *)
LEMMA OutsideMoves ==
    ASSUME IInv, busy = Idle, UNCHANGED Rest, vault' \in Content, applied' \in 0..1, runs' \in Nat,
           UNCHANGED clock,
           run' = NoRun \/ (vault'.ident = vault.ident /\ (Starting \/ Eases))
    PROVE  IInv'
  <1>1. /\ run' \in RunRecords \cup {NoRun}
        /\ Silent' \/ run'.ident = vault'.ident
    <2>1. busy.at \notin {"save", "resume"}
      BY DEF Idle
    <2>2. Silent \/ run.ident = vault.ident
      BY <2>1 DEF IInv, RunIsCurrent
    <2>. QED
      BY <2>2, RunMoves DEF IInv, Silent
  <1>2. UNCHANGED <<clients, hostStages, routeStage, importStage, tokens, busy, effects>>
    BY DEF Rest
  <1>3. Typed'
    BY <1>1, <1>2 DEF IInv, Typed, Content, HostStages, RouteStages, ImportStages, HostCommits, RouteCommits,
       ImportCommits, Token, Sent, RunRecords
  <1>4. RunIsCurrent' /\ PreviewStands'
    BY <1>1, <1>2 DEF IInv, RunIsCurrent, PreviewStands, Idle
  <1>5. TokensAreUnspent' /\ TokensAreDistinct' /\ OneEffectPerPreview'
    BY <1>2 DEF IInv, TokensAreUnspent, TokensAreDistinct, OneEffectPerPreview, Unspent, Committing
  <1>. QED
    BY <1>3, <1>4, <1>5 DEF IInv

(* Time, preferences, the end of a run and what only the cache sees *)
LEMMA WorldKeeps ==
    ASSUME IInv,
           \/ TimePasses \/ SavePreference \/ StopForward \/ RunEnds
           \/ \E cmd \in Command : BeginSave(cmd) \/ Retry(cmd)
    PROVE  IInv'
  <1>1. Typed /\ clock \in Nat /\ vault \in Content
    BY DEF IInv, Typed
  <1>2. ASSUME TimePasses PROVE IInv'
    BY <1>1, <1>2, WorldMoves DEF TimePasses, Eases, Rest, stages
  <1>3. ASSUME SavePreference PROVE IInv'
    BY <1>1, <1>3, WorldMoves, Writes DEF SavePreference, Eases, Rest, stages, history
  <1>4. ASSUME StopForward \/ RunEnds PROVE IInv'
    BY <1>1, <1>4, WorldMoves DEF StopForward, RunEnds, Eases, Rest, stages, history, env
  <1>5. ASSUME NEW cmd \in Command, BeginSave(cmd) \/ Retry(cmd) PROVE IInv'
    BY <1>1, <1>5, WorldMoves DEF BeginSave, Retry, Eases, Rest, stages, history, env
  <1>. QED
    BY <1>2, <1>3, <1>4, <1>5

(* The commands that do all they do at once *)
LEMMA OutsideKeeps ==
    ASSUME IInv,
           \/ StartForwards \/ LegacyMutation \/ RouteMutation \/ Restore \/ ActivateRestoredNetwork
           \/ \E cmd \in Command : MoveForwards(cmd)
           \/ \E save \in saves : EndSave(save)
    PROVE  IInv'
  <1>1. Typed /\ runs \in Nat /\ vault \in Content /\ applied \in 0..1
    BY DEF IInv, Typed
  <1>2. ASSUME StartForwards PROVE IInv'
    <2>1. (Starting \/ Eases) /\ runs' \in Nat
      BY <1>1, <1>2, RunMoves DEF StartForwards
    <2>. QED
      BY <1>1, <1>2, <2>1, OutsideMoves DEF StartForwards, Rest, stages, history, env
  <1>3. ASSUME LegacyMutation PROVE IInv'
    BY <1>1, <1>3, OutsideMoves, Writes DEF LegacyMutation, Eases, Rest, stages, history
  <1>4. ASSUME RouteMutation PROVE IInv'
    <2>1. vault' \in Content /\ vault'.ident = vault.ident
      BY <1>1, <1>4, Writes DEF RouteMutation
    <2>2. vault'.rest \in 0..1
      BY <2>1 DEF Content
    <2>3. applied' \in 0..1
      BY <1>1, <1>4, <2>2 DEF RouteMutation
    <2>4. Eases
      BY <1>4 DEF RouteMutation, Eases
    <2>. QED
      BY <1>1, <1>4, <2>1, <2>3, <2>4, OutsideMoves DEF RouteMutation, Rest, stages, history
  <1>5. ASSUME Restore PROVE IInv'
    BY <1>1, <1>5, OutsideMoves DEF Restore, Rest, stages, history
  <1>6. ASSUME ActivateRestoredNetwork PROVE IInv'
    <2>1. (Starting \/ Eases) /\ runs' \in Nat
      BY <1>1, <1>6, RunMoves DEF ActivateRestoredNetwork, Eases
    <2>2. applied' = vault.rest \/ applied' = 0
      BY <1>6, Zenon DEF ActivateRestoredNetwork
    <2>3. applied' \in 0..1
      BY <1>1, <2>2, Writes
    <2>. QED
      BY <1>1, <1>6, <2>1, <2>3, OutsideMoves DEF ActivateRestoredNetwork, Rest, stages, history, env
  <1>7. ASSUME NEW cmd \in Command, MoveForwards(cmd) PROVE IInv'
    BY <1>1, <1>7, OutsideMoves, Writes DEF MoveForwards, Eases, Rest, stages, env
  <1>8. ASSUME NEW save \in saves, EndSave(save) PROVE IInv'
    BY <1>1, <1>8, OutsideMoves, Writes DEF EndSave, Eases, Rest, stages, env
  <1>. QED
    BY <1>2, <1>3, <1>4, <1>5, <1>6, <1>7, <1>8

-----------------------------------------------------------------------------
(* The previews: a token that nobody has *)
LEMMA Issues ==
    ASSUME IInv, Issue
    PROVE  /\ tokens + 1 \in Token /\ tokens' = tokens + 1 /\ tokens + 1 \in Nat /\ tokens + 1 # 0
           /\ effects[tokens + 1] = 0
           /\ \A t \in Token : t > tokens + 1 => t > tokens
           /\ \A t \in Token \cup {0} : t <= tokens => t <= tokens + 1 /\ t # tokens + 1
  <1>1. tokens \in Nat /\ tokens < clients.tokens /\ clients.tokens \in 0 .. MaxTokens /\ MaxTokens \in Nat
    BY CommandsAssumption DEF IInv, Typed, Issue
  <1>2. tokens + 1 \in Token /\ tokens + 1 > tokens
    BY <1>1 DEF Token
  <1>3. effects[tokens + 1] = 0
    BY <1>2 DEF IInv, TokensAreUnspent
  <1>. QED
    BY <1>1, <1>2, <1>3 DEF Issue, Token

(* What is staged, and what is committed, has a token. *)
LEMMA Holders ==
    ASSUME Typed
    PROVE  /\ \A s \in hostStages : s.token \in Token
           /\ routeStage # None => routeStage.token \in Token
           /\ importStage # None => importStage.token \in Token
           /\ routeStage.token \in Token \cup {0} /\ importStage.token \in Token \cup {0}
  BY DEF Typed, HostStages, RouteStages, ImportStages, None

LEMMA PreviewSSHHostChangeKeeps ==
    ASSUME IInv, PreviewSSHHostChange
    PROVE  IInv'
  <1>. DEFINE new == [token |-> tokens + 1, born |-> clock, revision |-> vault, gen |-> RunningGeneration]
  <1>1. /\ tokens + 1 \in Token /\ tokens' = tokens + 1 /\ tokens + 1 \in Nat /\ tokens + 1 # 0
        /\ effects[tokens + 1] = 0
        /\ \A t \in Token : t > tokens + 1 => t > tokens
        /\ \A t \in Token \cup {0} : t <= tokens => t <= tokens + 1 /\ t # tokens + 1
    BY Issues DEF PreviewSSHHostChange
  <1>. /\ \A s \in hostStages : s.token \in Token
       /\ routeStage # None => routeStage.token \in Token
       /\ importStage # None => importStage.token \in Token
       /\ routeStage.token \in Token \cup {0} /\ importStage.token \in Token \cup {0}
    BY Holders DEF IInv
  <1>2. RunningGeneration \in Nat
    BY DEF IInv, Typed, RunningGeneration, RunRecords
  <1>3. new \in HostStages /\ new.token = tokens + 1
    BY <1>1, <1>2 DEF IInv, Typed, HostStages
  <1>4. \A s \in hostStages' : s \in hostStages \/ s = new
    BY DEF PreviewSSHHostChange
  <1>5. UNCHANGED <<vault, run, applied, clients, clock, routeStage, importStage, runs, busy, effects>>
    BY DEF PreviewSSHHostChange, env, history
  <1>6. busy.at = "idle"
    BY DEF PreviewSSHHostChange, Idle
  <1>. HIDE DEF new
  <1>7. Typed'
    BY <1>1, <1>3, <1>4, <1>5 DEF IInv, Typed
  <1>8. RunIsCurrent' /\ PreviewStands' /\ OneEffectPerPreview'
    BY <1>5 DEF IInv, RunIsCurrent, PreviewStands, Silent, OneEffectPerPreview
  <1>9. TokensAreUnspent'
    BY <1>1, <1>3, <1>4, <1>5, <1>6 DEF IInv, TokensAreUnspent, Unspent, Committing
  <1>10. TokensAreDistinct'
    BY <1>1, <1>3, <1>4, <1>5, <1>6 DEF IInv, TokensAreUnspent, TokensAreDistinct, Unspent, Committing, None
  <1>. QED
    BY <1>7, <1>8, <1>9, <1>10 DEF IInv

LEMMA PreviewRouteChangeKeeps ==
    ASSUME IInv, PreviewRouteChange
    PROVE  IInv'
  <1>1. /\ tokens + 1 \in Token /\ tokens' = tokens + 1 /\ tokens + 1 \in Nat /\ tokens + 1 # 0
        /\ effects[tokens + 1] = 0
        /\ \A t \in Token : t > tokens + 1 => t > tokens
        /\ \A t \in Token \cup {0} : t <= tokens => t <= tokens + 1 /\ t # tokens + 1
    BY Issues DEF PreviewRouteChange
  <1>. /\ \A s \in hostStages : s.token \in Token
       /\ routeStage # None => routeStage.token \in Token
       /\ importStage # None => importStage.token \in Token
       /\ routeStage.token \in Token \cup {0} /\ importStage.token \in Token \cup {0}
    BY Holders DEF IInv
  <1>2. routeStage' \in RouteStages /\ routeStage'.token = tokens + 1
    BY <1>1 DEF PreviewRouteChange, IInv, Typed, RouteStages
  <1>3. UNCHANGED <<vault, run, applied, clients, clock, hostStages, importStage, runs, busy, effects>>
    BY DEF PreviewRouteChange, env, history
  <1>4. Typed'
    BY <1>1, <1>2, <1>3 DEF IInv, Typed
  <1>5. RunIsCurrent' /\ PreviewStands' /\ OneEffectPerPreview'
    BY <1>3 DEF IInv, RunIsCurrent, PreviewStands, Silent, OneEffectPerPreview
  <1>6. TokensAreUnspent'
    BY <1>1, <1>2, <1>3 DEF IInv, TokensAreUnspent, Unspent, Committing
  <1>7. TokensAreDistinct'
    BY <1>1, <1>2, <1>3 DEF IInv, TokensAreUnspent, TokensAreDistinct, Unspent, Committing, None
  <1>. QED
    BY <1>4, <1>5, <1>6, <1>7 DEF IInv

(* ... which a new import may give to a commit that has not read its package. *)
LEMMA StageImportKeeps ==
    ASSUME IInv, NEW keys \in BOOLEAN, StageImport(keys)
    PROVE  IInv'
  <1>1. /\ tokens + 1 \in Token /\ tokens' = tokens + 1 /\ tokens + 1 \in Nat /\ tokens + 1 # 0
        /\ effects[tokens + 1] = 0
        /\ \A t \in Token : t > tokens + 1 => t > tokens
        /\ \A t \in Token \cup {0} : t <= tokens => t <= tokens + 1 /\ t # tokens + 1
    BY Issues DEF StageImport
  <1>. /\ \A s \in hostStages : s.token \in Token
       /\ routeStage # None => routeStage.token \in Token
       /\ importStage # None => importStage.token \in Token
       /\ routeStage.token \in Token \cup {0} /\ importStage.token \in Token \cup {0}
    BY Holders DEF IInv
  <1>2. importStage' \in ImportStages /\ importStage'.token = tokens + 1 /\ importStage' # None
    <2>1. importStage' = [token |-> tokens + 1, born |-> clock, revision |-> vault, phase |-> "staged", keys |-> keys]
      BY DEF StageImport
    <2>2. importStage' \in ImportStages /\ importStage'.token = tokens + 1
      BY <1>1, <2>1 DEF IInv, Typed, ImportStages
    <2>. QED
      BY <1>1, <2>2 DEF None
  <1>3. UNCHANGED <<vault, run, applied, clients, clock, hostStages, routeStage, runs, effects>>
    BY DEF StageImport, env, history
  <1>4. /\ busy' \in HostCommits \cup RouteCommits \cup ImportCommits \cup {Idle}
        /\ busy'.at = busy.at
        /\ busy.at # "idle" => busy'.cmd = busy.cmd
        /\ busy.at # "import" => busy' = busy
    <2>1. Typed
      BY DEF IInv
    <2>2. ASSUME busy \in ImportCommits, busy' = [busy EXCEPT !.whole = FALSE]
          PROVE  busy' \in ImportCommits /\ busy'.at = busy.at /\ busy'.cmd = busy.cmd
      BY <2>2 DEF ImportCommits
    <2>3. busy' = busy \/ (busy.at = "import" /\ busy' = [busy EXCEPT !.whole = FALSE])
      BY DEF StageImport
    <2>4. busy \in HostCommits \cup RouteCommits \cup ImportCommits \cup {Idle}
      BY <2>1 DEF Typed
    <2>. QED
      BY <2>1, <2>2, <2>3, <2>4, BusyKinds
  <1>5. Typed'
    BY <1>1, <1>2, <1>3, <1>4 DEF IInv, Typed
  <1>6. RunIsCurrent' /\ PreviewStands' /\ OneEffectPerPreview'
    BY <1>3, <1>4 DEF IInv, RunIsCurrent, PreviewStands, Silent, OneEffectPerPreview
  <1>7. TokensAreUnspent'
    BY <1>1, <1>2, <1>3, <1>4 DEF IInv, TokensAreUnspent, Unspent, Committing
  <1>8. TokensAreDistinct'
    BY <1>1, <1>2, <1>3, <1>4 DEF IInv, TokensAreUnspent, TokensAreDistinct, Unspent, Committing, None
  <1>. QED
    BY <1>5, <1>6, <1>7, <1>8 DEF IInv

-----------------------------------------------------------------------------
(* A command leaves the lock without a change of the Vault. *)
LEMMA Leaves ==
    ASSUME IInv, busy' = Idle, UNCHANGED <<clients, clock, tokens, effects, vault>>,
           Starting \/ Eases, runs' \in Nat, applied' \in 0..1,
           hostStages' \subseteq hostStages, routeStage' \in {routeStage, None},
           importStage' \in ImportStages \cup {None},
           importStage' # None => /\ importStage # None /\ importStage'.token = importStage.token
                                  /\ importStage'.phase # "committed" => Unspent(importStage.token)
    PROVE  IInv'
  <1>. Typed
    BY DEF IInv
  <1>1. run' \in RunRecords \cup {NoRun}
    BY RunMoves
  <1>2. Silent' \/ run'.ident = vault'.ident
    BY RunMoves DEF IInv, RunIsCurrent, Silent
  <1>3. busy'.at = "idle"
    BY DEF Idle
  <1>4. Typed'
    BY <1>1 DEF Typed
  <1>5. RunIsCurrent' /\ PreviewStands'
    BY <1>2, <1>3 DEF RunIsCurrent, PreviewStands
  <1>6. /\ routeStage' # None => routeStage' = routeStage
        /\ routeStage'.token \in {routeStage.token, 0} /\ importStage'.token \in {importStage.token, 0}
        /\ \A s \in hostStages : s.token # 0
    BY Holders DEF None, Token
  <1>7. TokensAreUnspent' /\ OneEffectPerPreview'
    BY <1>3, <1>6 DEF IInv, TokensAreUnspent, Unspent, Committing, OneEffectPerPreview
  <1>8. TokensAreDistinct'
    <2>1. ~Committing'
      BY <1>3 DEF Committing
    <2>2. routeStage' # None => routeStage'.token # importStage'.token
      <3>1. routeStage' # None => routeStage # None /\ routeStage'.token = routeStage.token /\ routeStage.token # 0
        BY <1>6, Holders DEF Token
      <3>. QED
        BY <1>6, <3>1 DEF IInv, TokensAreDistinct
    <2>3. \A s \in hostStages' : s.token # routeStage'.token /\ s.token # importStage'.token
      BY <1>6 DEF IInv, TokensAreDistinct
    <2>. QED
      BY <2>1, <2>2, <2>3 DEF IInv, TokensAreDistinct
  <1>. QED
    BY <1>4, <1>5, <1>7, <1>8 DEF IInv

(* The last key of an import is saved. *)
LEMMA SaveImportKeyFileKeeps ==
    ASSUME IInv, SaveImportKeyFile
    PROVE  IInv'
  <1>. Typed
    BY DEF IInv
  <1>1. importStage' = None /\ importStage'.token = 0
    BY DEF SaveImportKeyFile, None
  <1>2. UNCHANGED <<clients, clock, vault, run, applied, hostStages, routeStage, tokens, runs, busy, effects>>
    BY DEF SaveImportKeyFile, env, history
  <1>3. /\ \A s \in hostStages : s.token # 0
        /\ routeStage # None => routeStage.token # 0
        /\ Committing => busy.cmd.arg # 0
    BY Holders DEF Token, IInv, TokensAreUnspent
  <1>4. Typed' /\ RunIsCurrent' /\ PreviewStands'
    BY <1>1, <1>2 DEF IInv, Typed, RunIsCurrent, PreviewStands, Silent
  <1>5. TokensAreUnspent' /\ TokensAreDistinct' /\ OneEffectPerPreview'
    BY <1>1, <1>2, <1>3 DEF IInv, TokensAreUnspent, TokensAreDistinct, Unspent, Committing, OneEffectPerPreview
  <1>. QED
    BY <1>4, <1>5 DEF IInv

(* A rejected Route change may take its stage away. *)
LEMMA RejectRouteChangeKeeps ==
    ASSUME IInv, NEW cmd \in Command, RejectRouteChange(cmd)
    PROVE  IInv'
  <1>1. busy' = Idle /\ routeStage' \in {routeStage, None}
    BY DEF RejectRouteChange
  <1>2. UNCHANGED <<clients, clock, vault, run, applied, hostStages, importStage, tokens, runs, effects>>
    BY DEF RejectRouteChange, env
  <1>3. importStage # None /\ importStage.phase # "committed" => Unspent(importStage.token)
    BY DEF IInv, TokensAreUnspent
  <1>4. runs \in Nat /\ applied \in 0..1 /\ importStage \in ImportStages \cup {None}
    BY DEF IInv, Typed
  <1>. QED
    BY <1>1, <1>2, <1>3, <1>4, Leaves DEF Eases

-----------------------------------------------------------------------------
(* A commit of a host takes its stage, and goes on if what was shown stands. *)
LEMMA CommitHostChangeKeeps ==
    ASSUME IInv, NEW cmd \in Command, NEW stage \in hostStages, CommitHostChange(cmd, stage)
    PROVE  IInv'
  <1>. Typed
    BY DEF IInv
  <1>1. /\ busy = Idle /\ cmd.op = "host" /\ cmd.arg = stage.token
        /\ hostStages' = hostStages \ {stage}
        /\ UNCHANGED <<clients, clock, vault, run, applied, routeStage, importStage, tokens, runs, effects>>
    BY DEF CommitHostChange, env, history
  <1>2. stage \in HostStages /\ stage.token \in Token
    BY Holders DEF Typed
  <1>3. ASSUME busy' = Idle PROVE IInv'
    <2>1. importStage # None /\ importStage.phase # "committed" => Unspent(importStage.token)
      BY DEF IInv, TokensAreUnspent
    <2>2. runs \in Nat /\ applied \in 0..1 /\ importStage \in ImportStages \cup {None}
      BY DEF Typed
    <2>. QED
      BY <1>1, <1>3, <2>1, <2>2, Leaves DEF Eases
  <1>4. ASSUME vault = stage.revision, SameAffected(stage),
               busy' = [at |-> "preflight", cmd |-> cmd, stage |-> stage, plan |-> 0]
        PROVE  IInv'
    <2>1. cmd \in Sent
      <3>1. cmd.op \in Ops /\ cmd.id \in CommandIDs /\ cmd = [id |-> cmd.id, op |-> cmd.op, arg |-> cmd.arg]
        BY DEF Command, Ops
      <3>. QED
        BY <1>1, <1>2, <3>1 DEF Sent
    <2>2. /\ busy' \in HostCommits /\ busy'.at = "preflight" /\ busy'.cmd.arg = stage.token /\ busy'.stage = stage
      BY <1>1, <1>2, <1>4, <2>1 DEF HostCommits
    <2>3. Typed'
      BY <1>1, <2>2 DEF Typed
    <2>4. Silent \/ run.gen = stage.gen
      BY <1>4 DEF SameAffected, RunningGeneration, Silent
    <2>5. RunIsCurrent' /\ PreviewStands'
      BY <1>1, <1>4, <2>2, <2>4 DEF IInv, RunIsCurrent, PreviewStands, Silent, Idle
    <2>6. /\ Unspent(stage.token)
          /\ \A s \in hostStages \ {stage} : s.token # stage.token
          /\ stage.token # routeStage.token /\ stage.token # importStage.token
      BY DEF IInv, TokensAreUnspent, TokensAreDistinct
    <2>7. TokensAreUnspent'
      BY <1>1, <1>2, <2>2, <2>6 DEF IInv, TokensAreUnspent, Unspent, Committing
    <2>8. TokensAreDistinct' /\ OneEffectPerPreview'
      BY <1>1, <2>2, <2>6 DEF IInv, TokensAreDistinct, Committing, OneEffectPerPreview
    <2>. QED
      BY <2>3, <2>5, <2>7, <2>8 DEF IInv
  <1>. QED
    BY <1>3, <1>4 DEF CommitHostChange

(* What Leaves asks for when the command touched no stage. *)
LEMMA LeavesAlone ==
    ASSUME IInv, busy' = Idle, Starting \/ Eases, runs' \in Nat, applied' \in 0..1, routeStage' \in {routeStage, None},
           UNCHANGED <<clients, clock, tokens, effects, vault, hostStages, importStage>>
    PROVE  IInv'
  <1>1. importStage # None /\ importStage.phase # "committed" => Unspent(importStage.token)
    BY DEF IInv, TokensAreUnspent
  <1>2. importStage \in ImportStages \cup {None}
    BY DEF IInv, Typed
  <1>. QED
    BY <1>1, <1>2, Leaves

(* The preflight fails, or a run does not stop in time. *)
LEMMA GivesUpKeeps ==
    ASSUME IInv, PreflightFails \/ SuspendFails
    PROVE  IInv'
  <1>1. busy' = Idle /\ Eases
    BY DEF PreflightFails, SuspendFails, Finish, Eases
  <1>2. UNCHANGED <<clients, clock, tokens, effects, vault, hostStages, routeStage, importStage, runs, applied>>
    BY DEF PreflightFails, SuspendFails, env, stages
  <1>3. runs \in Nat /\ applied \in 0..1
    BY DEF IInv, Typed
  <1>. QED
    BY <1>1, <1>2, <1>3, LeavesAlone

(* The runs that were shown are stopped, *)
LEMMA SuspendRunsKeeps ==
    ASSUME IInv, SuspendRuns
    PROVE  IInv'
  <1>. Typed
    BY DEF IInv
  <1>1. busy.at = "preflight" /\ busy \in HostCommits
    BY BusyKinds DEF SuspendRuns
  <1>2. busy.stage.gen \in Nat /\ busy.plan \in Nat
    BY <1>1 DEF HostCommits, HostStages
  <1>3. UNCHANGED <<clients, clock, vault, applied, hostStages, routeStage, importStage, tokens, runs, effects>>
    BY DEF SuspendRuns, env, stages, history
  <1>4. Silent \/ (run.gen = busy.stage.gen /\ run.gen # 0)
    BY <1>1, RunMoves DEF IInv, PreviewStands, Silent
  <1>5. /\ busy' \in HostCommits /\ busy'.at = "save" /\ busy'.cmd = busy.cmd /\ busy'.stage = busy.stage
        /\ run' \in {run, NoRun} /\ Silent' /\ busy'.plan \in {0, busy.stage.gen}
    <2>1. CASE busy.stage.gen # 0 /\ RunningGeneration # 0
      <3>1. run' = NoRun /\ busy' = [busy EXCEPT !.at = "save", !.plan = run.gen]
        BY <2>1 DEF SuspendRuns
      <3>2. run.gen = busy.stage.gen
        BY <1>4, <2>1 DEF Silent, RunningGeneration
      <3>. QED
        BY <1>1, <1>2, <3>1, <3>2, HostMoves DEF Silent
    <2>2. CASE ~(busy.stage.gen # 0 /\ RunningGeneration # 0)
      <3>1. run' = run /\ busy' = [busy EXCEPT !.at = "save"]
        BY <2>2 DEF SuspendRuns
      <3>2. Silent
        BY <1>4, <2>2 DEF Silent, RunningGeneration
      <3>3. busy.plan = 0
        BY <1>1 DEF IInv, PreviewStands
      <3>. QED
        BY <1>1, <1>2, <3>1, <3>2, <3>3, HostMoves DEF Silent
    <2>. QED
      BY <2>1, <2>2
  <1>6. Typed'
    BY <1>3, <1>5 DEF Typed
  <1>7. RunIsCurrent' /\ PreviewStands'
    BY <1>1, <1>3, <1>5 DEF IInv, RunIsCurrent, PreviewStands
  <1>8. TokensAreUnspent' /\ TokensAreDistinct' /\ OneEffectPerPreview'
    BY <1>1, <1>3, <1>5 DEF IInv, TokensAreUnspent, TokensAreDistinct, Unspent, Committing, OneEffectPerPreview
  <1>. QED
    BY <1>6, <1>7, <1>8 DEF IInv

(* ... the host is saved, and its token spent, *)
LEMMA SaveHostKeeps ==
    ASSUME IInv, SaveHost
    PROVE  IInv'
  <1>. Typed
    BY DEF IInv
  <1>1. busy.at = "save" /\ busy \in HostCommits
    BY BusyKinds DEF SaveHost
  <1>2. /\ busy' \in HostCommits /\ busy'.at = "resume"
    BY <1>1, HostMoves DEF SaveHost, HostCommits
  <1>3. UNCHANGED <<clients, clock, run, applied, hostStages, routeStage, importStage, tokens, runs>>
    BY DEF SaveHost, env, stages
  <1>4. vault' \in Content
    BY Writes DEF SaveHost
  <1>. DEFINE t == busy.cmd.arg
  <1>5. t \in Token /\ effects[t] = 0 /\ t <= tokens
    BY <1>1 DEF IInv, TokensAreUnspent, Committing, Unspent
  <1>6. effects' \in [Token -> Nat] /\ effects'[t] = 1 /\ \A u \in Token : u # t => effects'[u] = effects[u]
    BY <1>5 DEF SaveHost, Typed
  <1>7. /\ \A s \in hostStages : s.token # t
        /\ routeStage.token # t /\ importStage.token # t
    BY <1>1 DEF IInv, TokensAreDistinct, Committing
  <1>8. Typed'
    BY <1>2, <1>3, <1>4, <1>6 DEF Typed
  <1>9. RunIsCurrent' /\ PreviewStands'
    BY <1>1, <1>2, <1>3 DEF IInv, RunIsCurrent, PreviewStands, Silent
  <1>10. ~(t > tokens) /\ ~Committing'
    BY <1>2, <1>5 DEF Committing, Typed, Token
  <1>. HIDE DEF t
  <1>11. TokensAreUnspent'
    BY <1>3, <1>5, <1>6, <1>7, <1>10, Holders DEF IInv, TokensAreUnspent, Unspent
  <1>12. TokensAreDistinct' /\ OneEffectPerPreview'
    BY <1>3, <1>5, <1>6, <1>10 DEF IInv, TokensAreDistinct, OneEffectPerPreview
  <1>. QED
    BY <1>8, <1>9, <1>11, <1>12 DEF IInv

(* ... and what was stopped starts again, over the identity saved or the old one. *)
LEMMA ResumeRunsKeeps ==
    ASSUME IInv, ResumeRuns
    PROVE  IInv'
  <1>. Typed
    BY DEF IInv
  <1>1. busy' = Idle /\ UNCHANGED <<clients, clock, tokens, effects, vault, hostStages, routeStage, importStage, applied>>
    BY DEF ResumeRuns, Finish, env, stages
  <1>2. (Starting \/ Eases) /\ runs' \in Nat
    BY RunMoves DEF ResumeRuns, Eases, Typed
  <1>3. applied \in 0..1
    BY DEF Typed
  <1>. QED
    BY <1>1, <1>2, <1>3, LeavesAlone

-----------------------------------------------------------------------------
(* A Route change enters while its preview stands, *)
LEMMA CommitRouteChangeKeeps ==
    ASSUME IInv, NEW cmd \in Command, CommitRouteChange(cmd)
    PROVE  IInv'
  <1>. Typed
    BY DEF IInv
  <1>1. /\ busy = Idle /\ cmd.op = "route" /\ routeStage # None /\ cmd.arg = routeStage.token
        /\ busy' = [at |-> "route", cmd |-> cmd, stage |-> routeStage, plan |-> 0]
        /\ UNCHANGED <<clients, clock, vault, run, applied, hostStages, routeStage, importStage, tokens, runs, effects>>
    BY DEF CommitRouteChange, env, stages, history
  <1>2. cmd \in Sent
    <2>1. cmd.op \in Ops /\ cmd.id \in CommandIDs /\ cmd = [id |-> cmd.id, op |-> cmd.op, arg |-> cmd.arg]
      BY DEF Command, Ops
    <2>. QED
      BY <1>1, <2>1, Holders DEF Sent
  <1>3. busy' \in RouteCommits /\ busy'.at = "route" /\ busy'.cmd.arg = routeStage.token
    BY <1>1, <1>2 DEF RouteCommits, Typed
  <1>4. Typed'
    BY <1>1, <1>3 DEF Typed
  <1>5. RunIsCurrent' /\ PreviewStands'
    BY <1>1, <1>3 DEF IInv, RunIsCurrent, PreviewStands, Silent, Idle
  <1>6. TokensAreUnspent' /\ TokensAreDistinct' /\ OneEffectPerPreview'
    BY <1>1, <1>3, Holders DEF IInv, TokensAreUnspent, TokensAreDistinct, Unspent, Committing, OneEffectPerPreview
  <1>. QED
    BY <1>4, <1>5, <1>6 DEF IInv

(* ... is saved, if the revision is still the same, and its stage dropped, *)
LEMMA SaveRouteKeeps ==
    ASSUME IInv, SaveRoute
    PROVE  IInv'
  <1>. Typed
    BY DEF IInv
  <1>. DEFINE t == busy.cmd.arg
  <1>1. busy.at = "route" /\ busy \in RouteCommits
    BY BusyKinds DEF SaveRoute
  <1>2. UNCHANGED <<clients, clock, run, applied, hostStages, importStage, tokens, runs>>
    BY DEF SaveRoute, env
  <1>3. /\ routeStage' \in {routeStage, None}
        /\ routeStage' # None => routeStage' = routeStage /\ routeStage.token # t
    BY DEF SaveRoute, DropRouteStage
  <1>4. ASSUME Finish(FALSE), UNCHANGED <<vault, effects>>
        PROVE  IInv'
    <2>1. runs \in Nat /\ applied \in 0..1
      BY DEF Typed
    <2>. QED
      BY <1>2, <1>3, <1>4, <2>1, LeavesAlone DEF Finish, Eases
  <1>5. ASSUME vault' = Edited, effects' = [effects EXCEPT ![t] = @ + 1], busy' = [busy EXCEPT !.at = "reconcile"]
        PROVE  IInv'
    <2>1. busy' \in RouteCommits /\ busy'.at = "reconcile"
      BY <1>1, <1>5 DEF RouteCommits
    <2>2. t \in Token /\ effects[t] = 0 /\ t <= tokens
      BY <1>1 DEF IInv, TokensAreUnspent, Committing, Unspent
    <2>3. effects' \in [Token -> Nat] /\ effects'[t] = 1 /\ \A u \in Token : u # t => effects'[u] = effects[u]
      BY <1>5, <2>2 DEF Typed
    <2>4. /\ \A s \in hostStages : s.token # t
          /\ importStage.token # t
      BY <1>1 DEF IInv, TokensAreDistinct, Committing
    <2>5. Typed'
      BY <1>2, <1>3, <1>5, <2>1, <2>3, Writes DEF Typed
    <2>6. RunIsCurrent' /\ PreviewStands'
      BY <1>1, <1>2, <1>5, <2>1, Writes DEF IInv, RunIsCurrent, PreviewStands, Silent
    <2>7. ~(t > tokens) /\ ~Committing'
      BY <2>1, <2>2 DEF Committing, Typed, Token
    <2>. HIDE DEF t
    <2>8. TokensAreUnspent'
      BY <1>2, <1>3, <2>2, <2>3, <2>4, <2>7, Holders DEF IInv, TokensAreUnspent, Unspent
    <2>9. TokensAreDistinct'
      <3>1. /\ routeStage'.token \in {routeStage.token, 0}
            /\ \A s \in hostStages : s.token # 0
        BY <1>3, Holders DEF None, Token
      <3>. QED
        BY <1>2, <1>3, <2>7, <3>1 DEF IInv, TokensAreDistinct
    <2>10. OneEffectPerPreview'
      BY <2>2, <2>3 DEF IInv, OneEffectPerPreview
    <2>. QED
      BY <2>5, <2>6, <2>8, <2>9, <2>10 DEF IInv
  <1>. QED
    BY <1>4, <1>5 DEF SaveRoute

(* ... and applied or not. *)
LEMMA ReconcileRouteKeeps ==
    ASSUME IInv, ReconcileRoute
    PROVE  IInv'
  <1>. Typed
    BY DEF IInv
  <1>1. busy' = Idle /\ UNCHANGED <<clients, clock, tokens, effects, vault, hostStages, routeStage, importStage, run, runs>>
    BY DEF ReconcileRoute, Finish, env, stages
  <1>2. applied' \in {applied, vault.rest}
    BY DEF ReconcileRoute
  <1>3. applied' \in 0..1 /\ runs \in Nat
    BY <1>2, Writes DEF Typed
  <1>. QED
    BY <1>1, <1>3, LeavesAlone DEF Eases

-----------------------------------------------------------------------------
(* An import enters with the package of its stage, *)
LEMMA CommitImportKeeps ==
    ASSUME IInv, NEW cmd \in Command, CommitImport(cmd)
    PROVE  IInv'
  <1>. Typed
    BY DEF IInv
  <1>1. /\ busy = Idle /\ cmd.op = "import" /\ importStage # None /\ cmd.arg = importStage.token
        /\ importStage.phase = "staged"
        /\ importStage' = [importStage EXCEPT !.phase = "committing"]
        /\ busy' = [at |-> "import", cmd |-> cmd, stage |-> importStage, whole |-> TRUE]
        /\ UNCHANGED <<clients, clock, vault, run, applied, hostStages, routeStage, tokens, runs, effects>>
    BY DEF CommitImport, env, history
  <1>2. importStage \in ImportStages /\ importStage.token \in Token
    BY <1>1, Holders DEF Typed
  <1>3. cmd \in Sent
    <2>1. cmd.op \in Ops /\ cmd.id \in CommandIDs /\ cmd = [id |-> cmd.id, op |-> cmd.op, arg |-> cmd.arg]
      BY DEF Command, Ops
    <2>. QED
      BY <1>1, <1>2, <2>1 DEF Sent
  <1>4. busy' \in ImportCommits /\ busy'.at = "import" /\ busy'.cmd.arg = importStage.token
    BY <1>1, <1>2, <1>3 DEF ImportCommits
  <1>5. importStage' \in ImportStages /\ importStage'.token = importStage.token
    BY <1>1, <1>2 DEF ImportStages
  <1>6. Unspent(importStage.token)
    BY <1>1 DEF IInv, TokensAreUnspent
  <1>7. Typed'
    BY <1>1, <1>4, <1>5 DEF Typed
  <1>8. RunIsCurrent' /\ PreviewStands'
    BY <1>1, <1>4 DEF IInv, RunIsCurrent, PreviewStands, Silent, Idle
  <1>9. TokensAreUnspent'
    BY <1>1, <1>2, <1>4, <1>5, <1>6 DEF IInv, TokensAreUnspent, Unspent, Committing
  <1>10. TokensAreDistinct'
    <2>1. routeStage.token # importStage.token
      <3>1. CASE routeStage = None
        BY <1>2, <3>1 DEF None, Token
      <3>2. CASE routeStage # None
        BY <3>2 DEF IInv, TokensAreDistinct
      <3>. QED
        BY <3>1, <3>2
    <2>. QED
      BY <1>1, <1>4, <1>5, <2>1 DEF IInv, TokensAreDistinct, Committing
  <1>11. OneEffectPerPreview'
    BY <1>1 DEF IInv, OneEffectPerPreview
  <1>. QED
    BY <1>7, <1>8, <1>9, <1>10, <1>11 DEF IInv

(* ... gives it back when it fails, *)
LEMMA ImportFailsKeeps ==
    ASSUME IInv, ImportFails
    PROVE  IInv'
  <1>. Typed
    BY DEF IInv
  <1>1. /\ busy.at = "import" /\ busy' = Idle
        /\ importStage' = IF SamePackage THEN [importStage EXCEPT !.phase = "staged"] ELSE importStage
        /\ UNCHANGED <<clients, clock, vault, run, applied, hostStages, routeStage, tokens, runs, effects>>
    BY DEF ImportFails, env, history
  <1>2. busy.cmd.arg \in Token /\ Unspent(busy.cmd.arg)
    BY <1>1 DEF IInv, TokensAreUnspent, Committing
  <1>3. CASE SamePackage
    <2>1. importStage # None
      BY <1>2, <1>3 DEF SamePackage, None, Token
    <2>2. importStage' \in ImportStages /\ importStage'.token = importStage.token
      BY <1>1, <1>3, <2>1 DEF Typed, ImportStages
    <2>3. Unspent(importStage.token)
      BY <1>2, <1>3 DEF SamePackage
    <2>4. runs \in Nat /\ applied \in 0..1
      BY DEF Typed
    <2>. QED
      BY <1>1, <2>1, <2>2, <2>3, <2>4, Leaves DEF Eases
  <1>4. CASE ~SamePackage
    <2>1. runs \in Nat /\ applied \in 0..1 /\ importStage' = importStage
      BY <1>1, <1>4 DEF Typed
    <2>. QED
      BY <1>1, <2>1, LeavesAlone DEF Eases
  <1>. QED
    BY <1>3, <1>4

(* ... and is applied, which ends its stage but for the keys to export. *)
LEMMA ApplyImportKeeps ==
    ASSUME IInv, ApplyImport
    PROVE  IInv'
  <1>. Typed
    BY DEF IInv
  <1>. DEFINE t == busy.cmd.arg
  <1>1. /\ busy.at = "import" /\ busy' = Idle /\ busy'.at = "idle"
        /\ vault' = Edited
        /\ effects' = IF busy.whole THEN [effects EXCEPT ![t] = @ + 1] ELSE effects
        /\ UNCHANGED <<clients, clock, run, applied, hostStages, routeStage, tokens, runs>>
    BY DEF ApplyImport, Finish, env, Idle
  <1>2. t \in Token /\ effects[t] = 0 /\ t <= tokens
    BY <1>1 DEF IInv, TokensAreUnspent, Committing, Unspent
  <1>3. effects' \in [Token -> Nat] /\ effects'[t] \in 0..1 /\ \A u \in Token : u # t => effects'[u] = effects[u]
    BY <1>1, <1>2 DEF Typed
  <1>4. /\ \A s \in hostStages : s.token # t
        /\ routeStage.token # t
    BY <1>1 DEF IInv, TokensAreDistinct, Committing
  <1>5. /\ importStage' \in ImportStages \cup {None}
        /\ importStage' # None => /\ importStage # None /\ importStage'.token = importStage.token
                                  /\ importStage.token = t => importStage'.phase = "committed"
                                  /\ importStage.token # t => importStage' = importStage
    <2>1. CASE ~busy.stage.keys
      BY <2>1 DEF ApplyImport
    <2>2. CASE busy.stage.keys /\ SamePackage
      <3>1. importStage # None
        BY <1>2, <2>2 DEF SamePackage, None, Token
      <3>2. importStage' = [importStage EXCEPT !.phase = "committed"]
        BY <2>2 DEF ApplyImport
      <3>3. importStage' \in ImportStages /\ importStage'.token = importStage.token /\ importStage'.phase = "committed"
        BY <3>1, <3>2 DEF Typed, ImportStages
      <3>. QED
        BY <2>2, <3>1, <3>3 DEF SamePackage
    <2>3. CASE busy.stage.keys /\ ~SamePackage
      BY <2>3 DEF ApplyImport, SamePackage, Typed
    <2>. QED
      BY <2>1, <2>2, <2>3
  <1>6. vault' \in Content /\ vault'.ident = vault.ident
    BY <1>1, Writes DEF Typed
  <1>7. ~(t > tokens) /\ ~Committing'
    BY <1>1, <1>2 DEF Committing, Typed, Token
  <1>8. Typed'
    BY <1>1, <1>3, <1>5, <1>6 DEF Typed
  <1>9. RunIsCurrent' /\ PreviewStands'
    BY <1>1, <1>6 DEF IInv, RunIsCurrent, PreviewStands, Silent
  <1>. HIDE DEF t
  <1>10. TokensAreUnspent'
    <2>1. \A u \in Token : u > tokens => effects'[u] = 0
      BY <1>3, <1>7 DEF IInv, TokensAreUnspent
    <2>2. \A s \in hostStages : Unspent(s.token)'
      BY <1>1, <1>3, <1>4, Holders DEF IInv, TokensAreUnspent, Unspent
    <2>3. routeStage' # None => Unspent(routeStage.token)'
      BY <1>1, <1>3, <1>4, Holders DEF IInv, TokensAreUnspent, Unspent
    <2>4. importStage' # None => importStage'.token <= tokens
      BY <1>5 DEF IInv, TokensAreUnspent
    <2>5. importStage' # None /\ importStage'.phase # "committed" => Unspent(importStage.token)'
      BY <1>1, <1>3, <1>5, Holders DEF IInv, TokensAreUnspent, Unspent
    <2>. QED
      BY <1>1, <1>7, <2>1, <2>2, <2>3, <2>4, <2>5 DEF TokensAreUnspent
  <1>11. TokensAreDistinct'
    <2>1. /\ importStage'.token \in {importStage.token, 0}
          /\ \A s \in hostStages : s.token # 0
          /\ routeStage # None => routeStage.token # 0
      BY <1>5, Holders DEF None, Token
    <2>. QED
      BY <1>1, <1>7, <2>1 DEF IInv, TokensAreDistinct
  <1>12. OneEffectPerPreview'
    BY <1>3 DEF IInv, OneEffectPerPreview
  <1>. QED
    BY <1>8, <1>9, <1>10, <1>11, <1>12 DEF IInv

-----------------------------------------------------------------------------
LEMMA InitHolds ==
    ASSUME Init
    PROVE  IInv
  <1>1. busy.at = "idle" /\ importStage = None /\ routeStage = None /\ hostStages = {} /\ run = NoRun
    BY DEF Init, Idle
  <1>2. Typed
    BY DEF Init, Typed, Content
  <1>3. RunIsCurrent /\ PreviewStands /\ TokensAreUnspent /\ TokensAreDistinct /\ OneEffectPerPreview
    BY <1>1 DEF Init, RunIsCurrent, Silent, PreviewStands, TokensAreUnspent, TokensAreDistinct, OneEffectPerPreview, Committing
  <1>. QED
    BY <1>2, <1>3 DEF IInv

LEMMA NextKeeps ==
    ASSUME IInv, [Next]_vars
    PROVE  IInv'
  <1>1. CASE UNCHANGED vars
    <2>1. UNCHANGED Rest /\ UNCHANGED <<run, vault, clock, runs, applied>>
      BY <1>1 DEF vars, Rest
    <2>. QED
      BY <2>1, WorldMoves DEF IInv, Typed, Eases
  <1>2. CASE \/ TimePasses \/ SavePreference \/ StopForward \/ RunEnds
             \/ \E cmd \in Command : BeginSave(cmd) \/ Retry(cmd)
    BY <1>2, WorldKeeps
  <1>3. CASE \/ StartForwards \/ LegacyMutation \/ RouteMutation \/ Restore \/ ActivateRestoredNetwork
             \/ \E cmd \in Command : MoveForwards(cmd)
             \/ \E save \in saves : EndSave(save)
    BY <1>3, OutsideKeeps
  <1>4. CASE PreviewSSHHostChange \/ PreviewRouteChange \/ \E keys \in BOOLEAN : StageImport(keys)
    BY <1>4, PreviewSSHHostChangeKeeps, PreviewRouteChangeKeeps, StageImportKeeps
  <1>5. CASE HostCommit \/ \E cmd \in Command, stage \in hostStages : CommitHostChange(cmd, stage)
    BY <1>5, CommitHostChangeKeeps, GivesUpKeeps, SuspendRunsKeeps, SaveHostKeeps, ResumeRunsKeeps DEF HostCommit
  <1>6. CASE \/ \E cmd \in Command : RejectRouteChange(cmd) \/ CommitRouteChange(cmd)
             \/ SaveRoute \/ ReconcileRoute
    BY <1>6, RejectRouteChangeKeeps, CommitRouteChangeKeeps, SaveRouteKeeps, ReconcileRouteKeeps
  <1>7. CASE \/ \E cmd \in Command : CommitImport(cmd)
             \/ ImportFails \/ ApplyImport \/ SaveImportKeyFile
    BY <1>7, CommitImportKeeps, ImportFailsKeeps, ApplyImportKeeps, SaveImportKeyFileKeeps
  <1>. QED
    BY <1>1, <1>2, <1>3, <1>4, <1>5, <1>6, <1>7 DEF Next

\* IInv holds in every state that can be reached.
LEMMA InvariantHolds == Spec => []IInv
  <1>1. Init => IInv
    BY InitHolds
  <1>2. IInv /\ [Next]_vars => IInv'
    BY NextKeeps
  <1>. QED
    BY <1>1, <1>2, PTL DEF Spec

\* A preview changes the Vault at most once (commitSSHHostChangeOnceLocked,
\* deleteRouteStage, stagedImport.committed).
THEOREM PreviewActsOnce == Spec => []OneEffectPerPreview
  <1>1. IInv => OneEffectPerPreview
    BY DEF IInv
  <1>. QED
    BY <1>1, InvariantHolds, PTL

\* No run keeps an SSH identity the Vault no longer holds
\* (service.go: CommitSSHHostChange with its Suspend and Resume).
THEOREM IdentityIsCurrent == Spec => []RunningUsesStoredIdentity
  <1>1. ASSUME IInv PROVE RunningUsesStoredIdentity
    BY <1>1 DEF IInv, RunIsCurrent, Silent, RunningUsesStoredIdentity, Idle
  <1>. QED
    BY <1>1, InvariantHolds, PTL

(* Only the three commits make the change of a preview. *)
LEMMA WhoActs ==
    ASSUME [Next]_vars, effects' # effects
    PROVE  SaveHost \/ SaveRoute \/ ApplyImport
  <1>1. CASE UNCHANGED vars
    BY <1>1 DEF vars
  <1>2. ~(TimePasses \/ SavePreference \/ StartForwards \/ StopForward \/ RunEnds \/ LegacyMutation \/ RouteMutation \/ Restore)
    BY DEF TimePasses, SavePreference, StartForwards, StopForward, RunEnds, LegacyMutation, RouteMutation, Restore, history
  <1>3. ~(PreviewSSHHostChange \/ PreviewRouteChange \/ ActivateRestoredNetwork \/ SaveImportKeyFile \/ ImportFails)
    BY DEF PreviewSSHHostChange, PreviewRouteChange, ActivateRestoredNetwork, SaveImportKeyFile, ImportFails, history
  <1>4. ~(PreflightFails \/ SuspendRuns \/ SuspendFails \/ ResumeRuns \/ ReconcileRoute)
    BY DEF PreflightFails, SuspendRuns, SuspendFails, ResumeRuns, ReconcileRoute, history
  <1>5. \A cmd \in Command : ~(BeginSave(cmd) \/ MoveForwards(cmd) \/ Retry(cmd))
    BY DEF BeginSave, MoveForwards, Retry, history
  <1>6. \A cmd \in Command : ~(RejectRouteChange(cmd) \/ CommitRouteChange(cmd) \/ CommitImport(cmd))
    BY DEF RejectRouteChange, CommitRouteChange, CommitImport, history
  <1>7. /\ \A cmd \in Command, stage \in hostStages : ~CommitHostChange(cmd, stage)
        /\ \A save \in saves : ~EndSave(save)
        /\ \A keys \in BOOLEAN : ~StageImport(keys)
    BY DEF CommitHostChange, EndSave, StageImport, history
  <1>. QED
    BY <1>1, <1>2, <1>3, <1>4, <1>5, <1>6, <1>7 DEF Next, HostCommit

\* When the change of a preview is made, the Vault is what the preview showed, but
\* for the preferences, and so are the runs it stopped (service.go: the second
\* comparison under the lock, Suspend by run id).
THEOREM PreviewStandsAtCommit == Spec => CommitsWhatWasPreviewed
  <1>1. ASSUME IInv, [Next]_vars, effects' # effects
        PROVE  /\ Gated(vault) = Gated(busy.stage.revision)
               /\ busy.at = "save" => busy.plan \in {0, busy.stage.gen}
    <2>1. CASE SaveHost
      BY <1>1, <2>1 DEF SaveHost, IInv, PreviewStands, Gated
    <2>2. CASE SaveRoute
      BY <1>1, <2>2 DEF SaveRoute, Gated
    <2>3. CASE ApplyImport
      BY <1>1, <2>3 DEF ApplyImport, Gated
    <2>. QED
      BY <1>1, <2>1, <2>2, <2>3, WhoActs
  <1>2. IInv /\ [Next]_vars =>
          [ effects' # effects =>
              /\ Gated(vault) = Gated(busy.stage.revision)
              /\ busy.at = "save" => busy.plan \in {0, busy.stage.gen} ]_vars
    BY <1>1
  <1>. QED
    BY <1>2, InvariantHolds, PTL DEF Spec, CommitsWhatWasPreviewed

-----------------------------------------------------------------------------
(* The cache keeps its promise.  A list of entries has one entry per id, and *)
(* backs a promise by an entry that lives as long, behind which are only ids *)
(* the promise counts as used since.                                        *)
Entries == [cmd : Sent, born : Nat]
Promises == [times : Nat, born : Nat, since : SUBSET CommandIDs]

OneEntryPerID(list) == \A i, j \in DOMAIN list : list[i].cmd.id = list[j].cmd.id => i = j
Backs(list, born, since, id) ==
    \E i \in DOMAIN list :
      /\ list[i].cmd.id = id /\ born <= list[i].born
      /\ \A j \in DOMAIN list : j > i => list[j].cmd.id \in since

CacheTyped ==
    /\ cache \in Seq(Entries)
    /\ acted \in [CommandIDs -> Promises]
    /\ \A id \in CommandIDs : IsFiniteSet(acted[id].since)
    /\ \A save \in saves : save.cmd \in Sent

\* What a client may count on, the cache remembers.
PromisesKept ==
    \A id \in CommandIDs : acted[id].times > 0 =>
        Promised(acted[id], clock) /\ Backs(cache, acted[id].born, acted[id].since, id)

\* Who is inside the lock with an id has no promise for it.
InsideIsNew == busy # Idle => acted[busy.cmd.id].times = 0

\* The inductive invariant of the cache, on top of IInv.
CacheInv == CacheTyped /\ OneEntryPerID(cache) /\ PromisesKept /\ InsideIsNew /\ AtMostOnce

(* Ranks in a finite set of numbers are positive and tell its members apart. *)
Rank(S, i) == Cardinality({k \in S : k <= i})
LEMMA RankTells ==
    ASSUME NEW S, IsFiniteSet(S), S \subseteq Nat
    PROVE  /\ \A i \in S : Rank(S, i) \in 1 .. Cardinality(S)
           /\ \A i, j \in S : i < j => Rank(S, i) < Rank(S, j)
           /\ \A i, j \in S : Rank(S, i) = Rank(S, j) => i = j
  <1>. DEFINE UpTo(i) == {k \in S : k <= i}
              size == Cardinality(S)
  <1>1. ASSUME NEW i \in S
        PROVE  IsFiniteSet(UpTo(i)) /\ Cardinality(UpTo(i)) \in 1 .. size
    <2>1. IsFiniteSet(UpTo(i)) /\ i \in UpTo(i) /\ Cardinality(UpTo(i)) <= size
      BY FS_Subset
    <2>2. Cardinality(UpTo(i)) \in Nat /\ Cardinality(UpTo(i)) # 0 /\ size \in Nat
      BY <2>1, FS_CardinalityType, FS_EmptySet
    <2>. HIDE DEF UpTo, size
    <2>. QED
      BY <2>1, <2>2
  <1>2. ASSUME NEW i \in S, NEW j \in S, i < j
        PROVE  Cardinality(UpTo(i)) < Cardinality(UpTo(j))
    <2>1. UpTo(i) \in SUBSET UpTo(j) /\ j \in UpTo(j) /\ j \notin UpTo(i)
      <3>1. i < j /\ i \in Nat /\ j \in Nat
        BY <1>2
      <3>2. ASSUME NEW k \in S, k <= i PROVE k <= j
        BY <3>1, <3>2
      <3>3. j <= j /\ ~(j <= i)
        BY <3>1
      <3>. QED
        BY <3>2, <3>3
    <2>2. Cardinality(UpTo(i)) <= Cardinality(UpTo(j)) /\ Cardinality(UpTo(i)) # Cardinality(UpTo(j))
      BY <1>1, <2>1, FS_Subset
    <2>3. Cardinality(UpTo(i)) \in Nat /\ Cardinality(UpTo(j)) \in Nat
      BY <1>1
    <2>. HIDE DEF UpTo
    <2>. QED
      BY <2>2, <2>3
  <1>3. \A i \in S : Rank(S, i) = Cardinality(UpTo(i))
    BY DEF Rank
  <1>. HIDE DEF UpTo, size
  <1>4. \A i \in S : Rank(S, i) \in 1 .. size
    BY <1>1, <1>3
  <1>5. \A i, j \in S : i < j => Rank(S, i) < Rank(S, j)
    BY <1>2, <1>3
  <1>6. \A i, j \in S : Rank(S, i) = Rank(S, j) => i = j
    <2>1. ASSUME NEW i \in S, NEW j \in S, Rank(S, i) = Rank(S, j), i # j
          PROVE  FALSE
      <3>1. i \in Nat /\ j \in Nat /\ Rank(S, i) \in Nat
        BY <1>4
      <3>. QED
        BY <1>5, <2>1, <3>1
    <2>. QED
      BY <2>1
  <1>. QED
    BY <1>4, <1>5, <1>6 DEF size

(* The places of what stays, whatever the list: in their order, and all of    *)
(* them.                                                                      *)
PlaceOf(places, n) == CHOOSE i \in places : Cardinality({k \in places : k <= i}) = n
LEMMA PlacesAre ==
    ASSUME NEW places, IsFiniteSet(places), places \subseteq Nat
    PROVE  LET size == Cardinality(places) IN
           /\ \A n \in 1 .. size : PlaceOf(places, n) \in places
           /\ \A m, n \in 1 .. size : m < n => PlaceOf(places, m) < PlaceOf(places, n)
           /\ \A i \in places : \E n \in 1 .. size : PlaceOf(places, n) = i
  <1>. DEFINE size == Cardinality(places)
              rank == [i \in places |-> Rank(places, i)]
              Nth(n) == PlaceOf(places, n)
  <1>1. size \in Nat /\ \A i \in places : i \in Nat
    BY FS_CardinalityType
  <1>2. /\ \A i \in places : rank[i] \in 1 .. size
        /\ \A i, j \in places : i < j => rank[i] < rank[j]
        /\ \A i, j \in places : rank[i] = rank[j] => i = j
    BY RankTells
  <1>3. \A i \in places : rank[i] = Cardinality({k \in places : k <= i})
    BY DEF Rank
  <1>4. rank \in [places -> 1 .. size]
    BY <1>2
  <1>. HIDE DEF rank
  <1>5. rank \in Injection(places, 1 .. size)
    BY <1>2, <1>4 DEF Injection, IsInjective
  <1>6. \A n \in 1 .. size : \E i \in places : rank[i] = n
    <2>1. IsFiniteSet(1 .. size) /\ Cardinality(1 .. size) = size
      BY <1>1, FS_Interval
    <2>2. rank \in Surjection(places, 1 .. size)
      BY <1>5, <2>1, FS_Injection
    <2>. QED
      BY <2>2 DEF Surjection
  <1>7. \A n \in 1 .. size : Nth(n) \in places /\ rank[Nth(n)] = n
    BY <1>3, <1>6 DEF PlaceOf
  <1>. HIDE DEF Nth, size
  <1>8. ASSUME NEW m \in 1 .. size, NEW n \in 1 .. size, m < n
        PROVE  Nth(m) < Nth(n)
    <2>1. Nth(m) \in Nat /\ Nth(n) \in Nat /\ rank[Nth(m)] = m /\ rank[Nth(n)] = n
      BY <1>1, <1>7
    <2>2. ~(Nth(n) < Nth(m)) /\ Nth(n) # Nth(m)
      BY <1>1, <1>2, <1>7, <1>8, <2>1
    <2>. QED
      BY <2>1, <2>2
  <1>9. ASSUME NEW i \in places PROVE rank[i] \in 1 .. size /\ Nth(rank[i]) = i
    BY <1>2, <1>7
  <1>10. /\ \A n \in 1 .. size : Nth(n) \in places
         /\ \A m, n \in 1 .. size : m < n => Nth(m) < Nth(n)
         /\ \A i \in places : \E n \in 1 .. size : Nth(n) = i
    BY <1>7, <1>8, <1>9
  <1>. QED
    BY <1>10 DEF Nth, size

LEMMA StayingAt ==
    ASSUME NEW list, NEW places
    PROVE  Staying(list, places) = [n \in 1 .. Cardinality(places) |-> list[PlaceOf(places, n)]]
  BY DEF Staying, PlaceOf

(* What stays of a list has the elements of the list, in their order: the   *)
(* n-th of them is the one with n places up to its own.                     *)
LEMMA StayingIs ==
    ASSUME NEW S, NEW list \in Seq(S), NEW places \in SUBSET DOMAIN list
    PROVE  LET t == Staying(list, places) IN
           /\ t \in Seq(S)
           /\ \E place \in [DOMAIN t -> places] :
                /\ \A n \in DOMAIN t : t[n] = list[place[n]]
                /\ \A m, n \in DOMAIN t : m < n => place[m] < place[n]
                /\ \A i \in places : \E n \in DOMAIN t : place[n] = i
  <1>. DEFINE t == Staying(list, places)
  <1>1. IsFiniteSet(places) /\ Cardinality(places) \in Nat /\ places \subseteq Nat
    <2>1. IsFiniteSet(1 .. Len(list)) /\ places \in SUBSET (1 .. Len(list))
      BY FS_Interval
    <2>. QED
      BY <2>1, FS_Subset, FS_CardinalityType
  <1>. DEFINE place == [n \in 1 .. Cardinality(places) |-> PlaceOf(places, n)]
  <1>2. /\ place \in [1 .. Cardinality(places) -> places]
        /\ \A m, n \in 1 .. Cardinality(places) : m < n => place[m] < place[n]
        /\ \A i \in places : \E n \in 1 .. Cardinality(places) : place[n] = i
    BY <1>1, PlacesAre
  <1>3. t = [n \in 1 .. Cardinality(places) |-> list[place[n]]]
    BY StayingAt
  <1>. HIDE DEF t, place
  <1>4. \A n \in 1 .. Cardinality(places) : list[place[n]] \in S
    BY <1>2
  <1>5. t \in Seq(S) /\ DOMAIN t = 1 .. Cardinality(places)
    BY <1>1, <1>3, <1>4
  <1>. QED
    BY <1>2, <1>3, <1>5 DEF t

(* A change of every element is a change of those that stay. *)
LEMMA StayingMaps ==
    ASSUME NEW S, NEW list \in Seq(S), NEW places \in SUBSET DOMAIN list, NEW f
    PROVE  LET t == Staying(list, places) IN
           Staying([i \in DOMAIN list |-> f[list[i]]], places) = [n \in DOMAIN t |-> f[t[n]]]
  <1>. DEFINE t == Staying(list, places)
              mapped == [i \in DOMAIN list |-> f[list[i]]]
  <1>1. IsFiniteSet(places) /\ places \subseteq Nat
    <2>1. IsFiniteSet(1 .. Len(list)) /\ places \in SUBSET (1 .. Len(list))
      BY FS_Interval
    <2>. QED
      BY <2>1, FS_Subset
  <1>2. \A n \in 1 .. Cardinality(places) : PlaceOf(places, n) \in DOMAIN list
    BY <1>1, PlacesAre
  <1>3. /\ t = [n \in 1 .. Cardinality(places) |-> list[PlaceOf(places, n)]]
        /\ Staying(mapped, places) = [n \in 1 .. Cardinality(places) |-> mapped[PlaceOf(places, n)]]
    BY StayingAt
  <1>. HIDE DEF t
  <1>4. \A n \in 1 .. Cardinality(places) : mapped[PlaceOf(places, n)] = f[t[n]]
    BY <1>2, <1>3
  <1>. HIDE DEF mapped
  <1>5. Staying(mapped, places) = [n \in DOMAIN t |-> f[t[n]]]
    BY <1>3, <1>4
  <1>. QED
    BY <1>5 DEF t, mapped

(* ... so it keeps one entry per id, and backs what was backed by one that stays. *)
LEMMA StayingBacks ==
    ASSUME NEW list \in Seq(Entries), NEW places \in SUBSET DOMAIN list, OneEntryPerID(list)
    PROVE  LET t == Staying(list, places) IN
           /\ t \in Seq(Entries) /\ OneEntryPerID(t)
           /\ \A n \in DOMAIN t : \E i \in places : t[n] = list[i]
           /\ \A i \in places : \E n \in DOMAIN t : t[n] = list[i]
           /\ \A born \in Nat, since \in SUBSET CommandIDs, id \in CommandIDs :
                /\ Backs(list, born, since, id)
                /\ \A i \in DOMAIN list : list[i].cmd.id = id /\ born <= list[i].born => i \in places
                => Backs(t, born, since, id)
  <1>. DEFINE t == Staying(list, places)
  <1>1. PICK place \in [DOMAIN t -> places] :
          /\ \A n \in DOMAIN t : t[n] = list[place[n]]
          /\ \A m, n \in DOMAIN t : m < n => place[m] < place[n]
          /\ \A i \in places : \E n \in DOMAIN t : place[n] = i
    BY StayingIs
  <1>2. t \in Seq(Entries)
    BY StayingIs
  <1>. HIDE DEF t
  <1>3. DOMAIN t \subseteq Nat /\ DOMAIN list \subseteq Nat
    BY <1>2
  <1>4. OneEntryPerID(t)
    <2>1. ASSUME NEW m \in DOMAIN t, NEW n \in DOMAIN t, t[m].cmd.id = t[n].cmd.id
          PROVE  m = n
      <3>1. place[m] = place[n]
        BY <1>1, <2>1 DEF OneEntryPerID
      <3>2. ~(m < n) /\ ~(n < m)
        BY <1>1, <1>3, <3>1
      <3>. QED
        BY <1>3, <3>2
    <2>. QED
      BY <2>1 DEF OneEntryPerID
  <1>5. ASSUME NEW born \in Nat, NEW since \in SUBSET CommandIDs, NEW id \in CommandIDs,
               Backs(list, born, since, id),
               \A i \in DOMAIN list : list[i].cmd.id = id /\ born <= list[i].born => i \in places
        PROVE  Backs(t, born, since, id)
    <2>1. PICK i \in DOMAIN list :
            /\ list[i].cmd.id = id /\ born <= list[i].born
            /\ \A j \in DOMAIN list : j > i => list[j].cmd.id \in since
      BY <1>5 DEF Backs
    <2>2. PICK n \in DOMAIN t : place[n] = i
      BY <1>1, <1>5, <2>1
    <2>3. ASSUME NEW m \in DOMAIN t, m > n
          PROVE  t[m].cmd.id \in since
      <3>1. place[n] < place[m] /\ place[m] \in DOMAIN list
        BY <1>1, <1>3, <2>3
      <3>. QED
        BY <1>1, <1>3, <2>1, <2>2, <3>1
    <2>4. t[n].cmd.id = id /\ born <= t[n].born
      BY <1>1, <2>1, <2>2
    <2>. QED
      BY <2>3, <2>4 DEF Backs
  <1>6. /\ \A n \in DOMAIN t : \E i \in places : t[n] = list[i]
        /\ \A i \in places : \E n \in DOMAIN t : t[n] = list[i]
    BY <1>1
  <1>. QED
    BY <1>2, <1>4, <1>5, <1>6 DEF t

(* A new entry at the back is used since by every other id. *)
LEMMA AppendBacks ==
    ASSUME NEW list \in Seq(Entries), OneEntryPerID(list), NEW entry \in Entries,
           \A i \in DOMAIN list : list[i].cmd.id # entry.cmd.id
    PROVE  LET all == Append(list, entry) IN
           /\ all \in Seq(Entries) /\ OneEntryPerID(all) /\ Len(all) # 0
           /\ \A born \in Nat, since \in SUBSET CommandIDs, id \in CommandIDs :
                Backs(list, born, since, id) => Backs(all, born, since \cup {entry.cmd.id}, id)
           /\ \A born \in Nat, since \in SUBSET CommandIDs :
                born <= entry.born => Backs(all, born, since, entry.cmd.id)
  <1>. DEFINE all == Append(list, entry)
  <1>1. /\ all \in Seq(Entries) /\ Len(list) \in Nat /\ Len(all) = Len(list) + 1
        /\ DOMAIN all = 1 .. (Len(list) + 1) /\ DOMAIN list = 1 .. Len(list)
        /\ \A i \in DOMAIN list : all[i] = list[i]
        /\ all[Len(list) + 1] = entry
    OBVIOUS
  <1>. HIDE DEF all
  <1>2. \A i \in DOMAIN all : i \in DOMAIN list \/ i = Len(list) + 1
    BY <1>1
  <1>3. OneEntryPerID(all)
    BY <1>1, <1>2 DEF OneEntryPerID
  <1>4. ASSUME NEW born \in Nat, NEW since \in SUBSET CommandIDs, NEW id \in CommandIDs,
               Backs(list, born, since, id)
        PROVE  Backs(all, born, since \cup {entry.cmd.id}, id)
    <2>1. PICK i \in DOMAIN list :
            /\ list[i].cmd.id = id /\ born <= list[i].born
            /\ \A j \in DOMAIN list : j > i => list[j].cmd.id \in since
      BY <1>4 DEF Backs
    <2>2. i \in DOMAIN all /\ all[i].cmd.id = id /\ born <= all[i].born
      BY <1>1, <2>1
    <2>3. \A j \in DOMAIN all : j > i => all[j].cmd.id \in since \cup {entry.cmd.id}
      BY <1>1, <1>2, <2>1
    <2>. QED
      BY <2>2, <2>3 DEF Backs
  <1>5. ASSUME NEW born \in Nat, NEW since \in SUBSET CommandIDs, born <= entry.born
        PROVE  Backs(all, born, since, entry.cmd.id)
    <2>1. Len(list) + 1 \in DOMAIN all /\ \A j \in DOMAIN all : ~(j > Len(list) + 1)
      BY <1>1
    <2>. QED
      BY <1>1, <1>5, <2>1 DEF Backs
  <1>. QED
    BY <1>1, <1>3, <1>4, <1>5 DEF all

(* The front goes beyond the capacity: what is used by fewer ids since stays, *)
(* for behind it is an entry of each of them at most.                       *)
LEMMA TrimmingBacks ==
    ASSUME NEW all \in Seq(Entries), OneEntryPerID(all), NEW over \in Nat, over <= Len(all)
    PROVE  LET list == SubSeq(all, over + 1, Len(all)) IN
           /\ list \in Seq(Entries) /\ OneEntryPerID(list)
           /\ \A born \in Nat, since \in SUBSET CommandIDs, id \in CommandIDs :
                /\ Backs(all, born, since, id) /\ IsFiniteSet(since)
                /\ over = 0 \/ Cardinality(since) < Len(all) - over
                => Backs(list, born, since, id)
  <1>. DEFINE list == SubSeq(all, over + 1, Len(all))
  <1>1. /\ list \in Seq(Entries) /\ Len(all) \in Nat
        /\ DOMAIN list = 1 .. (Len(all) - over) /\ DOMAIN all = 1 .. Len(all)
        /\ \A i \in 1 .. (Len(all) - over) : list[i] = all[over + i] /\ over + i \in DOMAIN all
    OBVIOUS
  <1>. HIDE DEF list
  <1>2. OneEntryPerID(list)
    <2>1. ASSUME NEW i \in DOMAIN list, NEW j \in DOMAIN list, list[i].cmd.id = list[j].cmd.id
          PROVE  i = j
      <3>1. over + i \in DOMAIN all /\ over + j \in DOMAIN all /\ all[over + i].cmd.id = all[over + j].cmd.id
        BY <1>1, <2>1
      <3>2. over + i = over + j
        BY <3>1 DEF OneEntryPerID
      <3>. QED
        BY <1>1, <3>2
    <2>. QED
      BY <2>1 DEF OneEntryPerID
  <1>3. ASSUME NEW born \in Nat, NEW since \in SUBSET CommandIDs, NEW id \in CommandIDs,
               Backs(all, born, since, id), IsFiniteSet(since),
               over = 0 \/ Cardinality(since) < Len(all) - over
        PROVE  Backs(list, born, since, id)
    <2>1. PICK i \in DOMAIN all :
            /\ all[i].cmd.id = id /\ born <= all[i].born
            /\ \A j \in DOMAIN all : j > i => all[j].cmd.id \in since
      BY <1>3 DEF Backs
    <2>. DEFINE behind == (i + 1) .. Len(all)
                user == [j \in behind |-> all[j].cmd.id]
    <2>2. i \in Nat /\ i <= Len(all) /\ i >= 1
      BY <1>1
    <2>3. \A j \in behind : j \in DOMAIN all /\ j > i
      BY <1>1, <2>2
    <2>4. user \in Injection(behind, since)
      <3>1. user \in [behind -> since]
        BY <2>1, <2>3
      <3>2. \A j, k \in behind : user[j] = user[k] => j = k
        BY <2>3 DEF OneEntryPerID
      <3>. HIDE DEF user, behind
      <3>. QED
        BY <3>1, <3>2 DEF Injection, IsInjective
    <2>5. Cardinality(behind) <= Cardinality(since) /\ Cardinality(since) \in Nat
      <3>1. IsFiniteSet(since)
        BY <1>3
      <3>2. Cardinality(since) \in Nat
        BY <3>1, FS_CardinalityType
      <3>. HIDE DEF user, behind
      <3>3. Cardinality(behind) <= Cardinality(since)
        BY <2>4, <3>1, FS_Injection
      <3>. QED
        BY <3>2, <3>3
    <2>6. Cardinality(behind) = Len(all) - i
      <3>1. i + 1 \in Int /\ Len(all) \in Int
        BY <1>1, <2>2
      <3>2. Cardinality((i + 1) .. Len(all)) = IF i + 1 > Len(all) THEN 0 ELSE Len(all) - (i + 1) + 1
        BY <3>1, FS_Interval
      <3>3. (IF i + 1 > Len(all) THEN 0 ELSE Len(all) - (i + 1) + 1) = Len(all) - i
        BY <2>2, <3>1
      <3>. QED
        BY <3>2, <3>3
    <2>7. i > over
      <3>. HIDE DEF behind
      <3>. QED
        BY <1>1, <1>3, <2>2, <2>5, <2>6
    <2>8. i - over \in DOMAIN list /\ list[i - over] = all[i]
      BY <1>1, <2>2, <2>7
    <2>9. \A j \in DOMAIN list : j > i - over => list[j].cmd.id \in since
      <3>1. ASSUME NEW j \in DOMAIN list, j > i - over
            PROVE  over + j \in DOMAIN all /\ over + j > i /\ list[j] = all[over + j]
        BY <1>1, <2>2, <3>1
      <3>. QED
        BY <2>1, <3>1
    <2>. QED
      BY <2>1, <2>8, <2>9 DEF Backs
  <1>. QED
    BY <1>1, <1>2, <1>3 DEF list

(* Pruning takes no entry away that backs a promise. *)
LEMMA PrunedBacks ==
    ASSUME CacheTyped, OneEntryPerID(cache), clock \in Nat
    PROVE  /\ PruneExpired \in Seq(Entries) /\ OneEntryPerID(PruneExpired)
           /\ \A born \in Nat, since \in SUBSET CommandIDs, id \in CommandIDs :
                Backs(cache, born, since, id) /\ clock < born + CacheTTL => Backs(PruneExpired, born, since, id)
  <1>. DEFINE fresh == {i \in DOMAIN cache : Unexpired(cache[i])}
  <1>1. cache \in Seq(Entries) /\ fresh \in SUBSET DOMAIN cache /\ PruneExpired = Staying(cache, fresh)
    BY DEF CacheTyped, PruneExpired
  <1>2. ASSUME NEW born \in Nat, clock < born + CacheTTL, NEW i \in DOMAIN cache, born <= cache[i].born
        PROVE  i \in fresh
    <2>1. cache[i].born \in Nat /\ CacheTTL \in Nat
      <3>1. cache[i] \in Entries
        BY <1>1, <1>2
      <3>. QED
        BY <3>1, CommandsAssumption DEF Entries
    <2>. QED
      BY <1>2, <2>1 DEF Unexpired
  <1>. HIDE DEF fresh
  <1>3. /\ PruneExpired \in Seq(Entries) /\ OneEntryPerID(PruneExpired)
        /\ \A born \in Nat, since \in SUBSET CommandIDs, id \in CommandIDs :
             /\ Backs(cache, born, since, id)
             /\ \A i \in DOMAIN cache : cache[i].cmd.id = id /\ born <= cache[i].born => i \in fresh
             => Backs(PruneExpired, born, since, id)
    BY <1>1, StayingBacks
  <1>. QED
    BY <1>2, <1>3

(* An id that the cache does not know has no promise. *)
LEMMA UnknownIsNew ==
    ASSUME CacheInv, clock \in Nat, NEW id \in CommandIDs, ~Remembered(id)
    PROVE  acted[id].times = 0
  <1>1. CacheTyped /\ OneEntryPerID(cache) /\ PromisesKept /\ acted[id] \in Promises
    BY DEF CacheInv, CacheTyped
  <1>2. acted[id].times \in Nat /\ acted[id].born \in Nat /\ acted[id].since \in SUBSET CommandIDs
    BY <1>1 DEF Promises
  <1>3. ASSUME acted[id].times > 0
        PROVE  FALSE
    <2>1. Backs(cache, acted[id].born, acted[id].since, id) /\ clock < acted[id].born + CacheTTL
      BY <1>1, <1>3 DEF PromisesKept, Promised
    <2>2. Backs(PruneExpired, acted[id].born, acted[id].since, id)
      BY <1>1, <1>2, <2>1, PrunedBacks
    <2>. QED
      BY <2>2 DEF Backs, Remembered
  <1>. QED
    BY <1>2, <1>3

(* What store does to the entries that back promises. *)
LEMMA StoredBacks ==
    ASSUME CacheTyped, OneEntryPerID(cache), clock \in Nat, NEW cmd \in Sent
    PROVE  /\ Stored(cmd) \in Seq(Entries) /\ OneEntryPerID(Stored(cmd))
           /\ Backs(Stored(cmd), clock, {}, cmd.id)
           /\ \A born \in Nat, since \in SUBSET CommandIDs, id \in CommandIDs :
                /\ id # cmd.id /\ Backs(cache, born, since, id) /\ clock < born + CacheTTL
                /\ IsFiniteSet(since) /\ Cardinality(since \cup {cmd.id}) < CacheCapacity
                => Backs(Stored(cmd), born, since \cup {cmd.id}, id)
  <1>. DEFINE list == PruneExpired
              places == {i \in DOMAIN list : list[i].cmd.id # cmd.id}
              others == Staying(list, places)
              entry == [cmd |-> cmd, born |-> clock]
              all == Append(others, entry)
              over == IF Len(all) > CacheCapacity THEN Len(all) - CacheCapacity ELSE 0
  <1>1. list \in Seq(Entries) /\ OneEntryPerID(list) /\ places \in SUBSET DOMAIN list
    BY PrunedBacks
  <1>2. entry \in Entries /\ entry.cmd.id = cmd.id /\ entry.born = clock /\ cmd.id \in CommandIDs
    BY DEF Entries, Sent
  <1>3. Stored(cmd) = SubSeq(all, over + 1, Len(all))
    BY DEF Stored
  <1>4. ASSUME NEW born \in Nat, NEW since \in SUBSET CommandIDs, NEW id \in CommandIDs,
               Backs(cache, born, since, id), clock < born + CacheTTL
        PROVE  Backs(list, born, since, id)
    BY <1>4, PrunedBacks
  <1>5. \A i \in DOMAIN list : list[i].cmd.id # cmd.id => i \in places
    OBVIOUS
  <1>6. \A i \in places : list[i].cmd.id # cmd.id
    OBVIOUS
  <1>. HIDE DEF list, places
  <1>7. /\ others \in Seq(Entries) /\ OneEntryPerID(others)
        /\ \A n \in DOMAIN others : \E i \in places : others[n] = list[i]
        /\ \A born \in Nat, since \in SUBSET CommandIDs, id \in CommandIDs :
             /\ Backs(list, born, since, id)
             /\ \A i \in DOMAIN list : list[i].cmd.id = id /\ born <= list[i].born => i \in places
             => Backs(others, born, since, id)
    BY <1>1, StayingBacks
  <1>8. \A i \in DOMAIN others : others[i].cmd.id # entry.cmd.id
    BY <1>2, <1>6, <1>7
  <1>. HIDE DEF others, entry
  <1>9. /\ all \in Seq(Entries) /\ OneEntryPerID(all) /\ Len(all) # 0
        /\ \A born \in Nat, since \in SUBSET CommandIDs, id \in CommandIDs :
             Backs(others, born, since, id) => Backs(all, born, since \cup {entry.cmd.id}, id)
        /\ \A born \in Nat, since \in SUBSET CommandIDs :
             born <= entry.born => Backs(all, born, since, entry.cmd.id)
    BY <1>2, <1>7, <1>8, AppendBacks
  <1>. HIDE DEF all
  <1>10. /\ Len(all) \in Nat /\ CacheCapacity \in Nat \ {0} /\ over \in Nat /\ over <= Len(all)
         /\ over = 0 \/ CacheCapacity = Len(all) - over
    <2>1. Len(all) \in Nat /\ CacheCapacity \in Nat \ {0}
      BY <1>9, CommandsAssumption
    <2>. QED
      BY <2>1
  <1>. HIDE DEF over
  <1>11. /\ Stored(cmd) \in Seq(Entries) /\ OneEntryPerID(Stored(cmd))
         /\ \A born \in Nat, since \in SUBSET CommandIDs, id \in CommandIDs :
              /\ Backs(all, born, since, id) /\ IsFiniteSet(since)
              /\ over = 0 \/ Cardinality(since) < Len(all) - over
              => Backs(Stored(cmd), born, since, id)
    BY <1>3, <1>9, <1>10, TrimmingBacks
  <1>12. Backs(Stored(cmd), clock, {}, cmd.id)
    <2>1. Backs(all, clock, {}, cmd.id)
      BY <1>2, <1>9
    <2>2. IsFiniteSet({}) /\ Cardinality({}) = 0
      BY FS_EmptySet
    <2>. QED
      BY <1>2, <1>10, <1>11, <2>1, <2>2
  <1>13. ASSUME NEW born \in Nat, NEW since \in SUBSET CommandIDs, NEW id \in CommandIDs,
                id # cmd.id, Backs(cache, born, since, id), clock < born + CacheTTL,
                IsFiniteSet(since), Cardinality(since \cup {cmd.id}) < CacheCapacity
         PROVE  Backs(Stored(cmd), born, since \cup {cmd.id}, id)
    <2>1. Backs(others, born, since, id)
      BY <1>4, <1>5, <1>7, <1>13
    <2>2. Backs(all, born, since \cup {cmd.id}, id) /\ since \cup {cmd.id} \in SUBSET CommandIDs
      BY <1>2, <1>9, <2>1
    <2>3. IsFiniteSet(since \cup {cmd.id})
      BY <1>13, FS_AddElement
    <2>. QED
      BY <1>10, <1>11, <1>13, <2>2, <2>3
  <1>. QED
    BY <1>11, <1>12, <1>13

(* What a look-up that finds its command does to them. *)
LEMMA MovedBacks ==
    ASSUME CacheTyped, OneEntryPerID(cache), clock \in Nat, NEW cmd \in Sent, Hit(cmd)
    PROVE  /\ MoveToBack(cmd) \in Seq(Entries) /\ OneEntryPerID(MoveToBack(cmd))
           /\ \A born \in Nat, since \in SUBSET CommandIDs :
                Backs(cache, born, since, cmd.id) /\ clock < born + CacheTTL => Backs(MoveToBack(cmd), born, {}, cmd.id)
           /\ \A born \in Nat, since \in SUBSET CommandIDs, id \in CommandIDs :
                id # cmd.id /\ Backs(cache, born, since, id) /\ clock < born + CacheTTL
                => Backs(MoveToBack(cmd), born, since \cup {cmd.id}, id)
  <1>. DEFINE list == PruneExpired
              hit == CHOOSE i \in DOMAIN list : list[i].cmd = cmd
              places == DOMAIN list \ {hit}
              others == Staying(list, places)
              all == Append(others, list[hit])
  <1>1. list \in Seq(Entries) /\ OneEntryPerID(list) /\ places \in SUBSET DOMAIN list
    BY PrunedBacks
  <1>2. hit \in DOMAIN list /\ list[hit].cmd = cmd
    BY DEF Hit
  <1>3. list[hit] \in Entries /\ cmd.id \in CommandIDs
    BY <1>1, <1>2 DEF Sent
  <1>4. MoveToBack(cmd) = all
    BY DEF MoveToBack
  <1>5. ASSUME NEW born \in Nat, NEW since \in SUBSET CommandIDs, NEW id \in CommandIDs,
               Backs(cache, born, since, id), clock < born + CacheTTL
        PROVE  Backs(list, born, since, id)
    BY <1>5, PrunedBacks
  <1>. HIDE DEF list, hit
  <1>6. \A i \in DOMAIN list : list[i].cmd.id = cmd.id <=> i = hit
    BY <1>1, <1>2 DEF OneEntryPerID
  <1>7. \A i \in DOMAIN list : i \in places <=> i # hit
    OBVIOUS
  <1>. HIDE DEF places
  <1>8. /\ others \in Seq(Entries) /\ OneEntryPerID(others)
        /\ \A n \in DOMAIN others : \E i \in places : others[n] = list[i]
        /\ \A born \in Nat, since \in SUBSET CommandIDs, id \in CommandIDs :
             /\ Backs(list, born, since, id)
             /\ \A i \in DOMAIN list : list[i].cmd.id = id /\ born <= list[i].born => i \in places
             => Backs(others, born, since, id)
    BY <1>1, StayingBacks
  <1>9. \A n \in DOMAIN others : others[n].cmd.id # list[hit].cmd.id
    BY <1>1, <1>2, <1>6, <1>7, <1>8
  <1>. HIDE DEF others
  <1>10. /\ all \in Seq(Entries) /\ OneEntryPerID(all)
         /\ \A born \in Nat, since \in SUBSET CommandIDs, id \in CommandIDs :
              Backs(others, born, since, id) => Backs(all, born, since \cup {list[hit].cmd.id}, id)
         /\ \A born \in Nat, since \in SUBSET CommandIDs :
              born <= list[hit].born => Backs(all, born, since, list[hit].cmd.id)
    BY <1>3, <1>8, <1>9, AppendBacks
  <1>. HIDE DEF all
  <1>11. ASSUME NEW born \in Nat, NEW since \in SUBSET CommandIDs,
                Backs(cache, born, since, cmd.id), clock < born + CacheTTL
         PROVE  Backs(all, born, {}, cmd.id)
    <2>1. born <= list[hit].born
      BY <1>3, <1>5, <1>6, <1>11 DEF Backs
    <2>. QED
      BY <1>2, <1>10, <2>1
  <1>12. ASSUME NEW born \in Nat, NEW since \in SUBSET CommandIDs, NEW id \in CommandIDs,
                id # cmd.id, Backs(cache, born, since, id), clock < born + CacheTTL
         PROVE  Backs(all, born, since \cup {cmd.id}, id)
    <2>1. Backs(others, born, since, id)
      BY <1>5, <1>6, <1>7, <1>8, <1>12
    <2>. QED
      BY <1>2, <1>10, <2>1
  <1>. QED
    BY <1>4, <1>10, <1>11, <1>12

(* The bookkeeping of the promises: an id that lapsed starts from nothing. *)
LEMMA Lapses ==
    ASSUME NEW a \in [CommandIDs -> Promises], NEW time \in Nat,
           \A id \in CommandIDs : IsFiniteSet(a[id].since)
    PROVE  /\ Lapse(a, time) \in [CommandIDs -> Promises]
           /\ \A id \in CommandIDs :
                /\ IsFiniteSet(Lapse(a, time)[id].since)
                /\ Lapse(a, time)[id].times > 0 => Lapse(a, time)[id] = a[id] /\ Promised(a[id], time)
                /\ Lapse(a, time)[id].times \in {0, a[id].times}
  <1>1. Forgotten \in Promises /\ Forgotten.times = 0 /\ Forgotten.since = {}
    BY DEF Forgotten, Promises
  <1>2. IsFiniteSet({})
    BY FS_EmptySet
  <1>3. \A id \in CommandIDs : Lapse(a, time)[id] = IF Promised(a[id], time) THEN a[id] ELSE Forgotten
    BY DEF Lapse
  <1>4. Lapse(a, time) \in [CommandIDs -> Promises]
    BY <1>1 DEF Lapse
  <1>5. ASSUME NEW id \in CommandIDs
        PROVE  /\ IsFiniteSet(Lapse(a, time)[id].since)
               /\ Lapse(a, time)[id].times > 0 => Lapse(a, time)[id] = a[id] /\ Promised(a[id], time)
               /\ Lapse(a, time)[id].times \in {0, a[id].times}
    <2>1. CASE Promised(a[id], time)
      <3>1. Lapse(a, time)[id] = a[id]
        BY <1>3, <2>1
      <3>. QED
        BY <2>1, <3>1
    <2>2. CASE ~Promised(a[id], time)
      <3>1. Lapse(a, time)[id] = Forgotten
        BY <1>3, <2>2
      <3>2. Lapse(a, time)[id].times = 0 /\ Lapse(a, time)[id].since = {}
        BY <1>1, <3>1
      <3>. QED
        BY <1>2, <3>2
    <2>. QED
      BY <2>1, <2>2
  <1>. QED
    BY <1>4, <1>5

(* Somebody else uses an id. *)
LEMMA Uses ==
    ASSUME NEW p \in Promises, IsFiniteSet(p.since), NEW user \in CommandIDs
    PROVE  LET q == [p EXCEPT !.since = @ \cup {user}] IN
           /\ q \in Promises /\ IsFiniteSet(q.since)
           /\ q.times = p.times /\ q.born = p.born /\ q.since = p.since \cup {user}
  <1>1. IsFiniteSet(p.since \cup {user})
    BY FS_AddElement
  <1>. QED
    BY <1>1 DEF Promises

(* What a step does to the promises and the cache, but for who is inside. *)
CacheKept ==
    /\ cache' \in Seq(Entries) /\ OneEntryPerID(cache')
    /\ acted' \in [CommandIDs -> Promises]
    /\ \A id \in CommandIDs :
         /\ IsFiniteSet(acted'[id].since)
         /\ acted'[id].times < 2
         /\ acted'[id].times > 0 =>
              Promised(acted'[id], clock') /\ Backs(cache', acted'[id].born, acted'[id].since, id)

\* A command that is new is stored.
LEMMA CachesKeeps ==
    ASSUME CacheInv, clock \in Nat, clock' = clock, NEW cmd \in Sent, NEW changed \in BOOLEAN,
           acted[cmd.id].times = 0, Caches(cmd, changed)
    PROVE  CacheKept
  <1>1. /\ CacheTyped /\ OneEntryPerID(cache) /\ PromisesKept /\ AtMostOnce /\ cmd.id \in CommandIDs
        /\ acted \in [CommandIDs -> Promises] /\ \A id \in CommandIDs : IsFiniteSet(acted[id].since)
    BY DEF CacheInv, CacheTyped, Sent
  <1>. DEFINE new == [times |-> acted[cmd.id].times + 1, born |-> clock, since |-> {}]
              b == [id \in CommandIDs |->
                      IF id # cmd.id THEN [acted[id] EXCEPT !.since = @ \cup {cmd.id}]
                      ELSE IF changed THEN new ELSE acted[id]]
  <1>2. acted' = Lapse(b, clock) /\ cache' = Stored(cmd)
    BY DEF Caches
  <1>3. ASSUME NEW id \in CommandIDs
        PROVE  /\ b[id] \in Promises /\ IsFiniteSet(b[id].since)
               /\ id # cmd.id => /\ b[id].times = acted[id].times /\ b[id].born = acted[id].born
                                 /\ b[id].since = acted[id].since \cup {cmd.id}
               /\ id = cmd.id => b[id].times = 0 \/ (b[id].times = 1 /\ b[id].born = clock /\ b[id].since = {})
    <2>1. CASE id # cmd.id
      <3>1. b[id] = [acted[id] EXCEPT !.since = @ \cup {cmd.id}]
        BY <2>1
      <3>2. acted[id] \in Promises /\ IsFiniteSet(acted[id].since) /\ cmd.id \in CommandIDs
        BY <1>1
      <3>. HIDE DEF b
      <3>3. /\ b[id] \in Promises /\ IsFiniteSet(b[id].since)
            /\ b[id].times = acted[id].times /\ b[id].born = acted[id].born
            /\ b[id].since = acted[id].since \cup {cmd.id}
        BY <3>1, <3>2, Uses
      <3>. QED
        BY <2>1, <3>3
    <2>2. CASE id = cmd.id /\ changed
      <3>1. b[id] = new /\ new \in Promises /\ IsFiniteSet({})
        BY <1>1, <2>2, FS_EmptySet DEF Promises
      <3>2. new.times = 1 /\ new.born = clock /\ new.since = {}
        OBVIOUS
      <3>. HIDE DEF b, new
      <3>. QED
        BY <2>2, <3>1, <3>2
    <2>3. CASE id = cmd.id /\ ~changed
      BY <1>1, <2>3
    <2>. QED
      BY <2>1, <2>2, <2>3
  <1>4. b \in [CommandIDs -> Promises]
    <2>1. \A id \in CommandIDs : b[id] \in Promises
      BY <1>3
    <2>. QED
      BY <2>1
  <1>. HIDE DEF b, new
  <1>5. /\ acted' \in [CommandIDs -> Promises]
        /\ \A id \in CommandIDs :
             /\ IsFiniteSet(acted'[id].since)
             /\ acted'[id].times > 0 => acted'[id] = b[id] /\ Promised(b[id], clock)
             /\ acted'[id].times \in {0, b[id].times}
    BY <1>2, <1>3, <1>4, Lapses
  <1>6. /\ cache' \in Seq(Entries) /\ OneEntryPerID(cache') /\ Backs(cache', clock, {}, cmd.id)
        /\ \A born \in Nat, since \in SUBSET CommandIDs, id \in CommandIDs :
             /\ id # cmd.id /\ Backs(cache, born, since, id) /\ clock < born + CacheTTL
             /\ IsFiniteSet(since) /\ Cardinality(since \cup {cmd.id}) < CacheCapacity
             => Backs(cache', born, since \cup {cmd.id}, id)
    BY <1>1, <1>2, StoredBacks
  <1>7. ASSUME NEW id \in CommandIDs, acted'[id].times > 0
        PROVE  Promised(acted'[id], clock') /\ Backs(cache', acted'[id].born, acted'[id].since, id)
    <2>1. acted'[id] = b[id] /\ Promised(b[id], clock) /\ b[id].times > 0
      BY <1>5, <1>7
    <2>2. CASE id = cmd.id
      <3>1. b[id].born = clock /\ b[id].since = {}
        BY <1>3, <2>1, <2>2
      <3>. QED
        BY <1>6, <2>1, <2>2, <3>1
    <2>3. CASE id # cmd.id
      <3>1. acted[id].times > 0 /\ b[id].born = acted[id].born /\ b[id].since = acted[id].since \cup {cmd.id}
        BY <1>3, <2>1, <2>3
      <3>2. Backs(cache, acted[id].born, acted[id].since, id)
        BY <1>1, <3>1 DEF PromisesKept
      <3>3. clock < acted[id].born + CacheTTL /\ Cardinality(acted[id].since \cup {cmd.id}) < CacheCapacity
        BY <2>1, <3>1 DEF Promised
      <3>4. acted[id].born \in Nat /\ acted[id].since \in SUBSET CommandIDs /\ IsFiniteSet(acted[id].since)
        BY <1>1 DEF Promises
      <3>. QED
        BY <1>6, <2>1, <2>3, <3>1, <3>2, <3>3, <3>4
    <2>. QED
      BY <2>1, <2>2, <2>3
  <1>8. ASSUME NEW id \in CommandIDs
        PROVE  acted'[id].times < 2
    <2>1. acted[id].times < 2
      BY <1>1 DEF AtMostOnce
    <2>2. b[id].times < 2
      BY <1>3, <2>1
    <2>. QED
      BY <1>5, <2>2
  <1>. QED
    BY <1>5, <1>6, <1>7, <1>8 DEF CacheKept

\* A command that is known is replayed.
LEMMA ReplaysKeeps ==
    ASSUME CacheInv, clock \in Nat, clock' = clock, NEW cmd \in Sent, Hit(cmd), Replays(cmd)
    PROVE  CacheKept /\ \A id \in CommandIDs : acted[id].times = 0 => acted'[id].times = 0
  <1>1. /\ CacheTyped /\ OneEntryPerID(cache) /\ PromisesKept /\ AtMostOnce /\ cmd.id \in CommandIDs
        /\ acted \in [CommandIDs -> Promises] /\ \A id \in CommandIDs : IsFiniteSet(acted[id].since)
    BY DEF CacheInv, CacheTyped, Sent
  <1>. DEFINE b == [id \in CommandIDs |->
                      IF id = cmd.id THEN [acted[id] EXCEPT !.since = {}]
                      ELSE [acted[id] EXCEPT !.since = @ \cup {cmd.id}]]
  <1>2. acted' = Lapse(b, clock) /\ cache' = MoveToBack(cmd)
    BY DEF Replays
  <1>3. ASSUME NEW id \in CommandIDs
        PROVE  /\ b[id] \in Promises /\ IsFiniteSet(b[id].since)
               /\ b[id].times = acted[id].times /\ b[id].born = acted[id].born
               /\ b[id].since = IF id = cmd.id THEN {} ELSE acted[id].since \cup {cmd.id}
    <2>1. CASE id # cmd.id
      <3>1. b[id] = [acted[id] EXCEPT !.since = @ \cup {cmd.id}]
        BY <2>1
      <3>2. acted[id] \in Promises /\ IsFiniteSet(acted[id].since) /\ cmd.id \in CommandIDs
        BY <1>1
      <3>. HIDE DEF b
      <3>3. /\ b[id] \in Promises /\ IsFiniteSet(b[id].since)
            /\ b[id].times = acted[id].times /\ b[id].born = acted[id].born
            /\ b[id].since = acted[id].since \cup {cmd.id}
        BY <3>1, <3>2, Uses
      <3>. QED
        BY <2>1, <3>3
    <2>2. CASE id = cmd.id
      <3>1. b[id] = [acted[id] EXCEPT !.since = {}] /\ acted[id] \in Promises
        BY <1>1, <2>2
      <3>2. IsFiniteSet({})
        BY FS_EmptySet
      <3>. HIDE DEF b
      <3>. QED
        BY <2>2, <3>1, <3>2 DEF Promises
    <2>. QED
      BY <2>1, <2>2
  <1>4. b \in [CommandIDs -> Promises]
    <2>1. \A id \in CommandIDs : b[id] \in Promises
      BY <1>3
    <2>. QED
      BY <2>1
  <1>. HIDE DEF b
  <1>5. /\ acted' \in [CommandIDs -> Promises]
        /\ \A id \in CommandIDs :
             /\ IsFiniteSet(acted'[id].since)
             /\ acted'[id].times > 0 => acted'[id] = b[id] /\ Promised(b[id], clock)
             /\ acted'[id].times \in {0, b[id].times}
    <2>1. \A id \in CommandIDs : IsFiniteSet(b[id].since)
      BY <1>3
    <2>. QED
      BY <1>2, <1>4, <2>1, Lapses
  <1>6. /\ cache' \in Seq(Entries) /\ OneEntryPerID(cache')
        /\ \A born \in Nat, since \in SUBSET CommandIDs :
             Backs(cache, born, since, cmd.id) /\ clock < born + CacheTTL => Backs(cache', born, {}, cmd.id)
        /\ \A born \in Nat, since \in SUBSET CommandIDs, id \in CommandIDs :
             id # cmd.id /\ Backs(cache, born, since, id) /\ clock < born + CacheTTL
             => Backs(cache', born, since \cup {cmd.id}, id)
    BY <1>1, <1>2, MovedBacks
  <1>7. ASSUME NEW id \in CommandIDs, acted'[id].times > 0
        PROVE  Promised(acted'[id], clock') /\ Backs(cache', acted'[id].born, acted'[id].since, id)
    <2>1. acted'[id] = b[id] /\ Promised(b[id], clock) /\ acted[id].times > 0
      BY <1>3, <1>5, <1>7
    <2>2. Backs(cache, acted[id].born, acted[id].since, id)
      BY <1>1, <2>1 DEF PromisesKept
    <2>3. clock < acted[id].born + CacheTTL
      BY <1>3, <2>1 DEF Promised
    <2>4. acted[id].born \in Nat /\ acted[id].since \in SUBSET CommandIDs
      BY <1>1 DEF Promises
    <2>5. Backs(cache', b[id].born, b[id].since, id)
      <3>1. b[id].born = acted[id].born /\ b[id].since = IF id = cmd.id THEN {} ELSE acted[id].since \cup {cmd.id}
        BY <1>3
      <3>2. CASE id = cmd.id
        BY <1>6, <2>2, <2>3, <2>4, <3>1, <3>2
      <3>3. CASE id # cmd.id
        BY <1>6, <2>2, <2>3, <2>4, <3>1, <3>3
      <3>. QED
        BY <3>2, <3>3
    <2>. QED
      BY <2>1, <2>5
  <1>8. ASSUME NEW id \in CommandIDs
        PROVE  acted'[id].times < 2 /\ (acted[id].times = 0 => acted'[id].times = 0)
    <2>1. acted[id].times < 2
      BY <1>1 DEF AtMostOnce
    <2>2. acted'[id].times \in {0, acted[id].times}
      BY <1>3, <1>5
    <2>. QED
      BY <2>1, <2>2
  <1>. QED
    BY <1>5, <1>6, <1>7, <1>8 DEF CacheKept

(* What is left to see, of a step that keeps the cache's promises. *)
LEMMA KeptIs ==
    ASSUME CacheInv, CacheKept, saves' \subseteq saves, InsideIsNew'
    PROVE  CacheInv'
  <1>1. CacheTyped' /\ OneEntryPerID(cache')
    BY DEF CacheInv, CacheKept, CacheTyped
  <1>2. PromisesKept' /\ AtMostOnce'
    BY DEF CacheKept, PromisesKept, AtMostOnce
  <1>. QED
    BY <1>1, <1>2 DEF CacheInv

(* A step that leaves the cache alone keeps them, unless it lets a command in. *)
LEMMA CacheStays ==
    ASSUME CacheInv, UNCHANGED << cache, acted, clock, saves >>,
           busy' = Idle \/ (busy # Idle /\ busy'.cmd = busy.cmd)
    PROVE  CacheInv'
  <1>1. CacheTyped' /\ OneEntryPerID(cache')
    BY DEF CacheInv, CacheTyped
  <1>2. PromisesKept' /\ AtMostOnce'
    BY DEF CacheInv, PromisesKept, AtMostOnce
  <1>3. InsideIsNew'
    BY DEF CacheInv, InsideIsNew
  <1>. QED
    BY <1>1, <1>2, <1>3 DEF CacheInv

(* Who holds the lock came with a command. *)
LEMMA InsideIsSent ==
    ASSUME Typed, busy # Idle
    PROVE  busy.cmd \in Sent
  <1>1. busy \in HostCommits \/ busy \in RouteCommits \/ busy \in ImportCommits
    BY DEF Typed
  <1>. QED
    BY <1>1 DEF HostCommits, RouteCommits, ImportCommits

\* Calls that do not look at the cache.
LEMMA CacheOutside ==
    ASSUME IInv, CacheInv,
           \/ SavePreference \/ StopForward \/ RunEnds
           \/ StartForwards \/ LegacyMutation \/ RouteMutation \/ Restore \/ ActivateRestoredNetwork
           \/ PreviewSSHHostChange \/ PreviewRouteChange \/ \E keys \in BOOLEAN : StageImport(keys)
           \/ SaveImportKeyFile \/ ImportFails \/ SuspendRuns \/ SaveHost
    PROVE  CacheInv'
  <1>1. Typed
    BY DEF IInv
  <1>2. CASE \/ SavePreference \/ StopForward \/ RunEnds
             \/ StartForwards \/ LegacyMutation \/ RouteMutation \/ Restore \/ ActivateRestoredNetwork
             \/ PreviewSSHHostChange \/ PreviewRouteChange \/ SaveImportKeyFile
    <2>1. UNCHANGED << cache, acted, clock, saves, busy >>
      BY <1>2 DEF SavePreference, StopForward, RunEnds, StartForwards, LegacyMutation, RouteMutation, Restore,
         ActivateRestoredNetwork, PreviewSSHHostChange, PreviewRouteChange, SaveImportKeyFile, env, history, stages
    <2>. QED
      BY <2>1, CacheStays
  <1>3. ASSUME NEW keys \in BOOLEAN, StageImport(keys)
        PROVE  CacheInv'
    <2>1. UNCHANGED << cache, acted, clock, saves >>
      BY <1>3 DEF StageImport, env, history
    <2>2. CASE busy' = busy
      BY <2>1, <2>2, CacheStays
    <2>3. CASE busy.at = "import" /\ busy' = [busy EXCEPT !.whole = FALSE]
      <3>1. busy \in ImportCommits /\ busy # Idle
        BY <1>1, <2>3, BusyKinds DEF Idle
      <3>2. busy'.cmd = busy.cmd
        BY <2>3, <3>1 DEF ImportCommits
      <3>. QED
        BY <2>1, <3>1, <3>2, CacheStays
    <2>. QED
      BY <1>3, <2>2, <2>3 DEF StageImport
  <1>4. CASE ImportFails
    BY <1>4, CacheStays DEF ImportFails, env, history
  <1>5. CASE SuspendRuns \/ SaveHost
    <2>1. UNCHANGED << cache, acted, clock, saves >> /\ busy.at \in {"preflight", "save"}
      BY <1>5 DEF SuspendRuns, SaveHost, env, history
    <2>2. busy \in HostCommits /\ busy # Idle
      BY <1>1, <2>1, BusyKinds DEF Idle
    <2>3. \/ busy' = [busy EXCEPT !.at = "save", !.plan = run.gen]
          \/ busy' = [busy EXCEPT !.at = "save"] \/ busy' = [busy EXCEPT !.at = "resume"]
      BY <1>5 DEF SuspendRuns, SaveHost
    <2>4. busy'.cmd = busy.cmd
      BY <2>2, <2>3 DEF HostCommits
    <2>. QED
      BY <2>1, <2>2, <2>4, CacheStays
  <1>. QED
    BY <1>2, <1>3, <1>4, <1>5

\* Promises lapse as time passes.
LEMMA CacheTimePasses ==
    ASSUME IInv, CacheInv, TimePasses
    PROVE  CacheInv'
  <1>1. /\ acted' = Lapse(acted, clock') /\ clock' \in Nat
        /\ UNCHANGED << cache, saves, busy >>
    BY DEF TimePasses, IInv, Typed, stages
  <1>2. /\ CacheTyped /\ OneEntryPerID(cache) /\ PromisesKept /\ AtMostOnce /\ InsideIsNew
        /\ acted \in [CommandIDs -> Promises] /\ \A id \in CommandIDs : IsFiniteSet(acted[id].since)
    BY DEF CacheInv, CacheTyped
  <1>3. /\ acted' \in [CommandIDs -> Promises]
        /\ \A id \in CommandIDs :
             /\ IsFiniteSet(acted'[id].since)
             /\ acted'[id].times > 0 => acted'[id] = acted[id] /\ Promised(acted[id], clock')
             /\ acted'[id].times \in {0, acted[id].times}
    BY <1>1, <1>2, Lapses
  <1>4. \A id \in CommandIDs : acted'[id].times > 0 =>
          Promised(acted'[id], clock') /\ Backs(cache', acted'[id].born, acted'[id].since, id)
    BY <1>1, <1>2, <1>3 DEF PromisesKept
  <1>5. \A id \in CommandIDs : acted'[id].times < 2
    BY <1>2, <1>3 DEF AtMostOnce
  <1>6. CacheKept
    BY <1>1, <1>2, <1>3, <1>4, <1>5 DEF CacheKept, CacheTyped
  <1>7. InsideIsNew'
    <2>1. busy # Idle => busy.cmd.id \in CommandIDs /\ acted[busy.cmd.id].times = 0
      BY <1>2, InsideIsSent DEF IInv, InsideIsNew, Sent
    <2>. QED
      BY <1>1, <1>3, <2>1 DEF InsideIsNew
  <1>. QED
    BY <1>1, <1>6, <1>7, KeptIs

\* A command goes in.
LEMMA CacheGoesIn ==
    ASSUME IInv, CacheInv, NEW cmd \in Command,
           \/ \E stage \in hostStages : CommitHostChange(cmd, stage)
           \/ CommitRouteChange(cmd) \/ CommitImport(cmd)
    PROVE  CacheInv'
  <1>1. /\ ~Remembered(cmd.id) /\ UNCHANGED << cache, acted, clock, saves >>
        /\ busy' = Idle \/ busy'.cmd = cmd
    BY DEF CommitHostChange, CommitRouteChange, CommitImport, env, history, stages
  <1>2. acted[cmd.id].times = 0
    <2>1. cmd.id \in CommandIDs
      BY DEF Command
    <2>. QED
      BY <1>1, <2>1, UnknownIsNew DEF IInv, Typed
  <1>3. CacheTyped' /\ OneEntryPerID(cache')
    BY <1>1 DEF CacheInv, CacheTyped
  <1>4. PromisesKept' /\ AtMostOnce'
    BY <1>1 DEF CacheInv, PromisesKept, AtMostOnce
  <1>5. InsideIsNew'
    BY <1>1, <1>2 DEF InsideIsNew
  <1>. QED
    BY <1>3, <1>4, <1>5 DEF CacheInv

\* A command comes out with a result.
LEMMA CacheComesOut ==
    ASSUME IInv, CacheInv, busy # Idle, NEW changed \in BOOLEAN, Finish(changed), UNCHANGED << clock, saves >>
    PROVE  CacheInv'
  <1>1. busy.cmd \in Sent /\ acted[busy.cmd.id].times = 0 /\ clock \in Nat
    BY InsideIsSent DEF IInv, Typed, CacheInv, InsideIsNew
  <1>2. busy' = Idle /\ Caches(busy.cmd, changed)
    BY DEF Finish
  <1>3. CacheKept
    BY <1>1, <1>2, CachesKeeps
  <1>4. InsideIsNew'
    BY <1>2 DEF InsideIsNew
  <1>. QED
    BY <1>3, <1>4, KeptIs

LEMMA CacheFinishes ==
    ASSUME IInv, CacheInv,
           PreflightFails \/ SuspendFails \/ ResumeRuns \/ SaveRoute \/ ReconcileRoute \/ ApplyImport
    PROVE  CacheInv'
  <1>1. busy # Idle /\ UNCHANGED << clock, saves >>
    <2>1. busy.at \in {"preflight", "save", "resume", "route", "reconcile", "import"}
      BY DEF PreflightFails, SuspendFails, ResumeRuns, SaveRoute, ReconcileRoute, ApplyImport
    <2>2. UNCHANGED << clock, saves >>
      BY DEF PreflightFails, SuspendFails, ResumeRuns, SaveRoute, ReconcileRoute, ApplyImport, env
    <2>. QED
      BY <2>1, <2>2 DEF Idle
  <1>2. CASE PreflightFails \/ SuspendFails
    BY <1>1, <1>2, CacheComesOut DEF PreflightFails, SuspendFails
  <1>3. CASE ResumeRuns
    <2>1. Finish(busy.at = "resume") /\ (busy.at = "resume") \in BOOLEAN
      BY <1>3 DEF ResumeRuns
    <2>. QED
      BY <1>1, <2>1, CacheComesOut
  <1>4. CASE ReconcileRoute
    BY <1>1, <1>4, CacheComesOut DEF ReconcileRoute
  <1>5. CASE ApplyImport
    <2>1. busy \in ImportCommits
      BY <1>5, BusyKinds DEF ApplyImport, IInv
    <2>2. Finish(TRUE) /\ TRUE \in BOOLEAN
      BY <1>5 DEF ApplyImport
    <2>. QED
      BY <1>1, <2>2, CacheComesOut
  <1>6. CASE SaveRoute
    <2>1. CASE Finish(FALSE)
      BY <1>1, <2>1, CacheComesOut
    <2>2. CASE busy' = [busy EXCEPT !.at = "reconcile"] /\ UNCHANGED << cache, acted >>
      <3>1. busy \in RouteCommits
        BY <1>6, BusyKinds DEF SaveRoute, IInv
      <3>2. busy'.cmd = busy.cmd
        BY <2>2, <3>1 DEF RouteCommits
      <3>. QED
        BY <1>1, <2>2, <3>2, CacheStays
    <2>. QED
      BY <1>6, <2>1, <2>2 DEF SaveRoute
  <1>. QED
    BY <1>2, <1>3, <1>4, <1>5, <1>6

\* Commands of one step, and those the cache answers.
LEMMA CacheAnswers ==
    ASSUME IInv, CacheInv,
           \/ \E cmd \in Command : BeginSave(cmd) \/ MoveForwards(cmd) \/ Retry(cmd) \/ RejectRouteChange(cmd)
           \/ \E save \in saves : EndSave(save)
    PROVE  CacheInv'
  <1>1. clock \in Nat /\ CacheTyped
    BY DEF IInv, Typed, CacheInv
  <1>2. \A cmd \in Command : cmd \in Sent /\ cmd.id \in CommandIDs
    BY DEF Command, Sent, Ops
  <1>3. ASSUME NEW cmd \in Command, BeginSave(cmd)
        PROVE  CacheInv'
    <2>1. saves' = {[cmd |-> cmd, revision |-> vault]} /\ UNCHANGED << cache, acted, clock, busy >>
      BY <1>3 DEF BeginSave, env, history
    <2>2. CacheTyped' /\ OneEntryPerID(cache')
      BY <1>2, <2>1 DEF CacheInv, CacheTyped
    <2>3. PromisesKept' /\ AtMostOnce' /\ InsideIsNew'
      BY <2>1 DEF CacheInv, PromisesKept, AtMostOnce, InsideIsNew
    <2>. QED
      BY <2>2, <2>3 DEF CacheInv
  <1>4. ASSUME NEW cmd \in Sent, cmd.id \in CommandIDs, NEW changed \in BOOLEAN, busy = Idle,
               ~Remembered(cmd.id), Caches(cmd, changed), UNCHANGED << clock, busy >>, saves' \subseteq saves
        PROVE  CacheInv'
    <2>1. acted[cmd.id].times = 0
      BY <1>1, <1>4, UnknownIsNew
    <2>2. CacheKept
      BY <1>1, <1>4, <2>1, CachesKeeps
    <2>3. InsideIsNew'
      BY <1>4 DEF InsideIsNew
    <2>. QED
      BY <1>4, <2>2, <2>3, KeptIs
  <1>5. ASSUME NEW cmd \in Sent, Hit(cmd), Replays(cmd), UNCHANGED << clock, busy >>, saves' \subseteq saves
        PROVE  CacheInv'
    <2>1. CacheKept /\ \A id \in CommandIDs : acted[id].times = 0 => acted'[id].times = 0
      BY <1>1, <1>5, ReplaysKeeps
    <2>2. InsideIsNew'
      <3>1. busy # Idle => busy.cmd.id \in CommandIDs /\ acted[busy.cmd.id].times = 0
        BY InsideIsSent DEF IInv, CacheInv, InsideIsNew, Sent
      <3>. QED
        BY <1>5, <2>1, <3>1 DEF InsideIsNew
    <2>. QED
      BY <1>5, <2>1, <2>2, KeptIs
  <1>6. ASSUME NEW cmd \in Command, MoveForwards(cmd) \/ RejectRouteChange(cmd)
        PROVE  CacheInv'
    <2>1. /\ busy = Idle /\ ~Remembered(cmd.id) /\ UNCHANGED << clock, saves, busy >>
          /\ Caches(cmd, TRUE) \/ Caches(cmd, FALSE)
      BY <1>6 DEF MoveForwards, RejectRouteChange, env, stages
    <2>. QED
      BY <1>2, <1>4, <2>1
  <1>7. ASSUME NEW cmd \in Command, Retry(cmd)
        PROVE  CacheInv'
    BY <1>2, <1>5, <1>7 DEF Retry, env
  <1>8. ASSUME NEW save \in saves, EndSave(save)
        PROVE  CacheInv'
    <2>1. /\ busy = Idle /\ UNCHANGED << clock, busy >> /\ saves' \subseteq saves
          /\ save.cmd \in Sent /\ save.cmd.id \in CommandIDs
      BY <1>1, <1>8 DEF EndSave, env, CacheTyped, Sent
    <2>2. CASE Hit(save.cmd) /\ Replays(save.cmd)
      BY <1>5, <2>1, <2>2
    <2>3. CASE ~Remembered(save.cmd.id) /\ Caches(save.cmd, TRUE)
      BY <1>4, <2>1, <2>3
    <2>4. CASE UNCHANGED << cache, acted >>
      <3>1. CacheTyped' /\ OneEntryPerID(cache')
        BY <2>1, <2>4 DEF CacheInv, CacheTyped
      <3>2. PromisesKept' /\ AtMostOnce' /\ InsideIsNew'
        BY <2>1, <2>4 DEF CacheInv, PromisesKept, AtMostOnce, InsideIsNew
      <3>. QED
        BY <3>1, <3>2 DEF CacheInv
    <2>. QED
      BY <1>8, <2>2, <2>3, <2>4 DEF EndSave
  <1>. QED
    BY <1>3, <1>6, <1>7, <1>8

LEMMA CacheInit ==
    ASSUME Init
    PROVE  CacheInv
  <1>1. Forgotten \in Promises /\ Forgotten.times = 0 /\ Forgotten.since = {}
    BY DEF Forgotten, Promises
  <1>2. IsFiniteSet({})
    BY FS_EmptySet
  <1>3. cache = << >> /\ saves = {} /\ busy = Idle /\ acted = [id \in CommandIDs |-> Forgotten]
    BY DEF Init
  <1>. HIDE DEF Forgotten
  <1>4. CacheTyped /\ OneEntryPerID(cache)
    <2>1. << >> \in Seq(Entries) /\ DOMAIN << >> = {}
      OBVIOUS
    <2>2. OneEntryPerID(cache)
      BY <1>3, <2>1 DEF OneEntryPerID
    <2>3. \A id \in CommandIDs : acted[id] = Forgotten
      BY <1>3
    <2>4. acted \in [CommandIDs -> Promises]
      BY <1>1, <1>3
    <2>. QED
      BY <1>1, <1>2, <1>3, <2>1, <2>2, <2>3, <2>4 DEF CacheTyped
  <1>5. PromisesKept /\ AtMostOnce /\ InsideIsNew
    BY <1>1, <1>3 DEF PromisesKept, AtMostOnce, InsideIsNew
  <1>. QED
    BY <1>4, <1>5 DEF CacheInv

LEMMA CacheNext ==
    ASSUME IInv, CacheInv, [Next]_vars
    PROVE  CacheInv'
  <1>1. CASE UNCHANGED vars
    <2>1. UNCHANGED << cache, acted, clock, saves, busy >>
      BY <1>1 DEF vars
    <2>. QED
      BY <2>1, CacheStays
  <1>2. CASE TimePasses
    BY <1>2, CacheTimePasses
  <1>3. CASE \/ SavePreference \/ StopForward \/ RunEnds
             \/ StartForwards \/ LegacyMutation \/ RouteMutation \/ Restore \/ ActivateRestoredNetwork
             \/ PreviewSSHHostChange \/ PreviewRouteChange \/ \E keys \in BOOLEAN : StageImport(keys)
             \/ SaveImportKeyFile \/ ImportFails \/ SuspendRuns \/ SaveHost
    BY <1>3, CacheOutside
  <1>4. CASE PreflightFails \/ SuspendFails \/ ResumeRuns \/ SaveRoute \/ ReconcileRoute \/ ApplyImport
    BY <1>4, CacheFinishes
  <1>5. CASE \E cmd \in Command : \/ \E stage \in hostStages : CommitHostChange(cmd, stage)
                                  \/ CommitRouteChange(cmd) \/ CommitImport(cmd)
    BY <1>5, CacheGoesIn
  <1>6. CASE \/ \E cmd \in Command : BeginSave(cmd) \/ MoveForwards(cmd) \/ Retry(cmd) \/ RejectRouteChange(cmd)
             \/ \E save \in saves : EndSave(save)
    BY <1>6, CacheAnswers
  <1>. QED
    BY <1>1, <1>2, <1>3, <1>4, <1>5, <1>6 DEF Next, HostCommit

\* A command id that changed the Vault does not change it again while a client
\* may count on the cache, whatever is stored, pruned, moved and dropped in
\* between (idempotency.go).
THEOREM ActsAtMostOnce == Spec => []AtMostOnce
  <1>1. Init => CacheInv
    BY CacheInit
  <1>2. IInv /\ CacheInv /\ [Next]_vars => CacheInv'
    BY CacheNext
  <1>3. CacheInv => AtMostOnce
    BY DEF CacheInv
  <1>. QED
    BY <1>1, <1>2, <1>3, InvariantHolds, PTL DEF Spec

-----------------------------------------------------------------------------
(* The catalogue, and the runs next to it                                   *)

(* A finite set of numbers has a largest one. *)
LEMMA LargestExists ==
    ASSUME NEW S, IsFiniteSet(S), S \subseteq Nat, S # {}
    PROVE  \E m \in S : \A n \in S : n <= m
  <1>. DEFINE HasLargest(T) == \E m \in T : \A n \in T : n <= m
              Bad == {k \in Nat : \E T \in SUBSET S : T # {} /\ Cardinality(T) = k /\ ~HasLargest(T)}
  <1>1. ASSUME Bad # {} PROVE FALSE
    <2>1. PICK k \in Bad : \A j \in Bad : ~(j < k)
      <3>1. PICK k \in Bad : \A j \in Bad : ~(<<j, k>> \in OpToRel(<, Nat))
        BY <1>1, NatLessThanWellFounded, WFMin, Zenon
      <3>. QED
        BY <3>1 DEF OpToRel
    <2>2. PICK T \in SUBSET S : T # {} /\ Cardinality(T) = k /\ ~HasLargest(T)
      BY <2>1
    <2>3. PICK x \in T : TRUE
      BY <2>2
    <2>4. IsFiniteSet(T) /\ Cardinality(T \ {x}) = k - 1 /\ T \ {x} \in SUBSET S /\ k \in Nat /\ IsFiniteSet(T \ {x})
      BY <2>1, <2>2, <2>3, FS_Subset, FS_RemoveElement
    <2>5. T \subseteq Nat
      BY <2>2
    <2>6. Cardinality(T \ {x}) \in Nat
      BY <2>4, FS_CardinalityType
    <2>7. T \ {x} = {} \/ HasLargest(T \ {x})
      BY <2>1, <2>4, <2>6
    <2>8. CASE T \ {x} = {}
      BY <2>2, <2>3, <2>5, <2>8
    <2>9. CASE HasLargest(T \ {x})
      <3>1. PICK m \in T \ {x} : \A n \in T \ {x} : n <= m
        BY <2>9
      <3>2. x \in Nat /\ m \in Nat /\ \A n \in T : n \in Nat
        BY <2>3, <2>5
      <3>3. x <= m \/ m <= x
        BY <3>2
      <3>4. CASE x <= m
        BY <2>2, <3>1, <3>4
      <3>5. CASE m <= x
        BY <2>2, <2>3, <3>1, <3>2, <3>5
      <3>. QED
        BY <3>3, <3>4, <3>5
    <2>. QED
      BY <2>7, <2>8, <2>9
  <1>2. Cardinality(S) \in Nat
    BY FS_CardinalityType
  <1>. QED
    BY <1>1, <1>2

(* nextID gives an id above all that are taken. *)
LEMMA NextIsNew ==
    ASSUME NEW items, IsFiniteSet(DOMAIN items), DOMAIN items \subseteq Nat
    PROVE  /\ NextID(items) \in Nat \ {0}
           /\ \A i \in DOMAIN items : i < NextID(items)
  <1>. DEFINE S == DOMAIN items \cup {0}
  <1>1. IsFiniteSet(S) /\ S \subseteq Nat /\ S # {}
    BY FS_AddElement
  <1>2. PICK m \in S : \A n \in S : n <= m
    BY <1>1, LargestExists
  <1>3. Max(S) \in S /\ \A n \in S : Max(S) >= n
    BY <1>1, <1>2 DEF Max
  <1>. QED
    BY <1>1, <1>3 DEF NextID

\* The ids of a kind.
Ids(items) == IsFiniteSet(DOMAIN items) /\ DOMAIN items \subseteq Nat \ {0}
ForwardRecords == [folder : Nat, mode : Modes, chain : Seq(Nat)]
RouteRecords == [forward : Nat, hosts : BOOLEAN, caddy : BOOLEAN]
AreForwards(items) == Ids(items) /\ \A w \in DOMAIN items : items[w] \in ForwardRecords
AreRoutes(items) ==
    Ids(items) /\ \A r \in DOMAIN items : items[r] \in RouteRecords /\ (items[r].caddy => items[r].hosts)

(* Written, kind by kind. *)
LEMMA WrittenIs ==
    ASSUME NEW d
    PROVE  Written(d) <=> /\ DOMAIN d = Kinds
                              /\ Ids(d.folders) /\ Ids(d.hosts) /\ AreForwards(d.forwards) /\ AreRoutes(d.routes)
  <1>. DEFINE AllIds == \A kind \in Kinds \ {"keys"} :
                  IsFiniteSet(DOMAIN d[kind]) /\ DOMAIN d[kind] \subseteq Nat \ {0}
  <1>1. Kinds \ {"keys"} = {"folders", "hosts", "forwards", "routes"}
    BY DEF Kinds
  <1>2. AllIds <=> Ids(d.folders) /\ Ids(d.hosts) /\ Ids(d.forwards) /\ Ids(d.routes)
    BY <1>1 DEF Ids
  <1>3. Written(d) <=>
          /\ DOMAIN d = Kinds /\ AllIds
          /\ \A w \in DOMAIN d.forwards : d.forwards[w] \in ForwardRecords
          /\ \A r \in DOMAIN d.routes : d.routes[r] \in RouteRecords /\ (d.routes[r].caddy => d.routes[r].hosts)
    BY Zenon DEF Written, ForwardRecords, RouteRecords
  <1>. HIDE DEF AllIds
  <1>. QED
    BY <1>2, <1>3, Zenon DEF AreForwards, AreRoutes

(* A new item takes an id of its own and leaves the others as they were. *)
LEMMA WithNew ==
    ASSUME NEW items, Ids(items), NEW item
    PROVE  LET id == NextID(items)
               new == With(items, id, item)
           IN  /\ id \notin DOMAIN items /\ DOMAIN new = DOMAIN items \cup {id} /\ Ids(new)
               /\ new[id] = item /\ \A i \in DOMAIN items : new[i] = items[i]
  <1>. DEFINE id == NextID(items)
              new == With(items, id, item)
  <1>1. id \in Nat \ {0} /\ id \notin DOMAIN items
    BY NextIsNew DEF Ids
  <1>2. DOMAIN new = DOMAIN items \cup {id} /\ IsFiniteSet(DOMAIN items \cup {id})
    BY FS_AddElement DEF With, Ids
  <1>3. new[id] = item /\ \A i \in DOMAIN items : new[i] = items[i]
    BY <1>1 DEF With
  <1>. QED
    BY <1>1, <1>2, <1>3 DEF Ids

(* One kind is written, the others stay. *)
LEMMA FoldersPut ==
    ASSUME Written(data), NEW F
    PROVE  LET d == [data EXCEPT !.folders = F] IN
           /\ d.forwards = data.forwards
           /\ Ids(F) => Written(d)
  <1>. DEFINE d == [data EXCEPT !.folders = F]
  <1>1. DOMAIN d = Kinds /\ d.folders = F /\ d.hosts = data.hosts /\ d.forwards = data.forwards /\ d.routes = data.routes
    BY WrittenIs DEF Kinds
  <1>. HIDE DEF d
  <1>. QED
    BY <1>1, WrittenIs DEF d
LEMMA HostsPut ==
    ASSUME Written(data), NEW H
    PROVE  LET d == [data EXCEPT !.hosts = H] IN
           /\ d.forwards = data.forwards
           /\ Ids(H) => Written(d)
  <1>. DEFINE d == [data EXCEPT !.hosts = H]
  <1>1. DOMAIN d = Kinds /\ d.hosts = H /\ d.folders = data.folders /\ d.forwards = data.forwards /\ d.routes = data.routes
    BY WrittenIs DEF Kinds
  <1>. HIDE DEF d
  <1>. QED
    BY <1>1, WrittenIs DEF d
LEMMA ForwardsPut ==
    ASSUME Written(data), NEW W
    PROVE  LET d == [data EXCEPT !.forwards = W] IN
           /\ d.forwards = W
           /\ AreForwards(W) => Written(d)
  <1>. DEFINE d == [data EXCEPT !.forwards = W]
  <1>1. DOMAIN d = Kinds /\ d.forwards = W /\ d.folders = data.folders /\ d.hosts = data.hosts /\ d.routes = data.routes
    BY WrittenIs DEF Kinds
  <1>. HIDE DEF d
  <1>. QED
    BY <1>1, WrittenIs DEF d
LEMMA RoutesPut ==
    ASSUME Written(data), NEW R
    PROVE  LET d == [data EXCEPT !.routes = R] IN
           /\ d.forwards = data.forwards
           /\ AreRoutes(R) => Written(d)
  <1>. DEFINE d == [data EXCEPT !.routes = R]
  <1>1. DOMAIN d = Kinds /\ d.routes = R /\ d.folders = data.folders /\ d.hosts = data.hosts /\ d.forwards = data.forwards
    BY WrittenIs DEF Kinds
  <1>. HIDE DEF d
  <1>. QED
    BY <1>1, WrittenIs DEF d
LEMMA KeysPut ==
    ASSUME Written(data), NEW K
    PROVE  LET d == [data EXCEPT !.keys = K] IN
           /\ d.forwards = data.forwards
           /\ Written(d)
  <1>. DEFINE d == [data EXCEPT !.keys = K]
  <1>1. DOMAIN d = Kinds /\ d.folders = data.folders /\ d.hosts = data.hosts /\ d.forwards = data.forwards /\ d.routes = data.routes
    BY WrittenIs DEF Kinds
  <1>. HIDE DEF d
  <1>. QED
    BY <1>1, WrittenIs DEF d

-----------------------------------------------------------------------------
\* A run is a record.
TableTyped == \A id \in DOMAIN table : DOMAIN table[id] = {"def", "stopping"}

\* The inductive invariant of the catalogue and its runs: an edit is only seen to
\* spare the runs if a new id is above all others, which takes what Written says.
CatInv == Written(data) /\ TableTyped /\ RunsMatchCatalogue

\* What a run was started with is still what these Forwards say.
Agree(items) ==
    \A id \in DOMAIN table :
       Active(id) /\ id \in DOMAIN data.forwards =>
          id \in DOMAIN items /\ Definition(items[id]) = Definition(data.forwards[id])

(* An operation that leaves the runs alone. *)
LEMMA EditKeeps ==
    ASSUME CatInv, NEW d, Edit(d), Written(d), Agree(d.forwards)
    PROVE  CatInv'
  <1>1. data' = d /\ table' = table
    BY DEF Edit, Update
  <1>. QED
    BY <1>1 DEF CatInv, TableTyped, Written, RunsMatchCatalogue, Active, Definition, Agree

LEMMA SameAgrees == ASSUME NEW items, items = data.forwards PROVE Agree(items)
  BY DEF Agree

LEMMA EditFoldersKeeps == ASSUME CatInv, EditFolders PROVE CatInv'
  <1>. DEFINE Put(parent) == With(data.folders, NextID(data.folders), parent)
  <1>1. PICK parent : CreateFolder(parent)
    BY DEF EditFolders
  <1>2. Ids(Put(parent))
    BY WithNew, WrittenIs DEF CatInv
  <1>. QED
    BY <1>1, <1>2, FoldersPut, EditKeeps, SameAgrees DEF CreateFolder, CatInv

LEMMA EditHostsKeeps == ASSUME CatInv, EditHosts PROVE CatInv'
  <1>1. PICK id \in DOMAIN data.hosts \cup {0}, e \in Endpoints, s \in Secrets : SaveSSHHost(id, e, s)
    BY DEF EditHosts
  <1>2. Ids(data.hosts)
    BY WrittenIs DEF CatInv
  <1>3. CASE id = 0
    <2>. DEFINE item == Prepared([secret |-> "none", revision |-> 0], e, s)
                H == With(data.hosts, NextID(data.hosts), item)
    <2>1. Edit([data EXCEPT !.hosts = H])
      BY <1>1, <1>3 DEF SaveSSHHost
    <2>2. Ids(H)
      BY <1>2, WithNew
    <2>. HIDE DEF H
    <2>. QED
      BY <2>1, <2>2, HostsPut, EditKeeps, SameAgrees DEF CatInv
  <1>4. CASE id # 0
    <2>. DEFINE H == [data.hosts EXCEPT ![id] = Prepared(data.hosts[id], e, s)]
    <2>1. Edit([data EXCEPT !.hosts = H])
      BY <1>1, <1>4 DEF SaveSSHHost
    <2>2. Ids(H)
      BY <1>2 DEF Ids
    <2>. HIDE DEF H
    <2>. QED
      BY <2>1, <2>2, HostsPut, EditKeeps, SameAgrees DEF CatInv
  <1>. QED
    BY <1>3, <1>4

LEMMA EditKeysKeeps == ASSUME CatInv, EditKeys PROVE CatInv'
  <1>1. PICK K : Edit([data EXCEPT !.keys = K])
    <2>1. PICK e, key : EnrollHostKey(e, key) \/ ReplaceHostKey(e, key)
      BY DEF EditKeys
    <2>. QED
      BY <2>1 DEF EnrollHostKey, ReplaceHostKey
  <1>. QED
    BY <1>1, KeysPut, EditKeeps, SameAgrees DEF CatInv

(* Every switch of a Route that is saved keeps Caddy on the hosts entry. *)
LEMMA PutRouteKeeps ==
    ASSUME CatInv, NEW id \in DOMAIN data.routes \cup {0}, NEW route \in RouteRecords,
           route.caddy => route.hosts, PutRoute(id, route)
    PROVE  CatInv'
  <1>1. AreRoutes(data.routes)
    BY WrittenIs DEF CatInv
  <1>2. CASE id = 0
    <2>. DEFINE R == With(data.routes, NextID(data.routes), route)
    <2>1. Edit([data EXCEPT !.routes = R])
      BY <1>2 DEF PutRoute
    <2>2. AreRoutes(R)
      <3>1. Ids(data.routes) /\ \A r \in DOMAIN data.routes :
              data.routes[r] \in RouteRecords /\ (data.routes[r].caddy => data.routes[r].hosts)
        BY <1>1 DEF AreRoutes
      <3>2. /\ Ids(R) /\ DOMAIN R = DOMAIN data.routes \cup {NextID(data.routes)}
            /\ R[NextID(data.routes)] = route
            /\ \A r \in DOMAIN data.routes : R[r] = data.routes[r]
        BY <3>1, WithNew
      <3>. HIDE DEF R
      <3>. QED
        BY <3>1, <3>2, Zenon DEF AreRoutes
    <2>. HIDE DEF R
    <2>. QED
      BY <2>1, <2>2, RoutesPut, EditKeeps, SameAgrees DEF CatInv
  <1>3. CASE id # 0
    <2>. DEFINE R == [data.routes EXCEPT ![id] = route]
    <2>1. Edit([data EXCEPT !.routes = R])
      BY <1>3 DEF PutRoute
    <2>2. AreRoutes(R)
      BY <1>1 DEF AreRoutes, Ids
    <2>. HIDE DEF R
    <2>. QED
      BY <2>1, <2>2, RoutesPut, EditKeeps, SameAgrees DEF CatInv
  <1>. QED
    BY <1>2, <1>3

LEMMA EditRoutesKeeps == ASSUME CatInv, EditRoutes PROVE CatInv'
  <1>1. AreRoutes(data.routes)
    BY WrittenIs DEF CatInv
  <1>2. AreForwards(data.forwards)
    BY WrittenIs DEF CatInv
  <1>3. ASSUME NEW id \in DOMAIN data.routes \cup {0}, NEW w \in DOMAIN data.forwards,
               NEW h \in BOOLEAN, NEW c \in BOOLEAN,
               SaveWebRoute(id, w, h, c) \/ UpsertRoute(id, w, h, c)
        PROVE  CatInv'
    <2>1. w \in Nat
      BY <1>2 DEF AreForwards, Ids
    <2>2. CASE SaveWebRoute(id, w, h, c)
      <3>. DEFINE route == [forward |-> w, hosts |-> h, caddy |-> h /\ c]
      <3>1. route \in RouteRecords /\ (route.caddy => route.hosts) /\ PutRoute(id, route)
        BY <2>1, <2>2 DEF SaveWebRoute, RouteRecords
      <3>. QED
        BY <3>1, PutRouteKeeps
    <2>3. CASE UpsertRoute(id, w, h, c)
      <3>. DEFINE route == [forward |-> w, hosts |-> h \/ c, caddy |-> c]
      <3>1. route \in RouteRecords /\ (route.caddy => route.hosts) /\ PutRoute(id, route)
        BY <2>1, <2>3 DEF UpsertRoute, RouteRecords
      <3>. QED
        BY <3>1, PutRouteKeeps
    <2>. QED
      BY <1>3, <2>2, <2>3
  <1>4. ASSUME NEW id \in DOMAIN data.routes, NEW flag \in {"hosts", "caddy"}, NEW on \in BOOLEAN,
               SetRouteFlag(id, flag, on)
        PROVE  CatInv'
    <2>. DEFINE new == Flipped(data.routes[id], flag, on)
                R == [data.routes EXCEPT ![id] = new]
    <2>1. data.routes[id] \in RouteRecords /\ (data.routes[id].caddy => data.routes[id].hosts)
      BY <1>1 DEF AreRoutes
    <2>2. new \in RouteRecords /\ (new.caddy => new.hosts)
      BY <2>1 DEF Flipped, RouteRecords
    <2>. HIDE DEF new
    <2>3. AreRoutes(R)
      BY <1>1, <2>2 DEF AreRoutes, Ids
    <2>4. Edit([data EXCEPT !.routes = R])
      BY <1>4 DEF SetRouteFlag, new
    <2>. HIDE DEF R
    <2>. QED
      BY <2>3, <2>4, RoutesPut, EditKeeps, SameAgrees DEF CatInv
  <1>5. ASSUME NEW id \in DOMAIN data.routes, DeleteWebRoute(id)
        PROVE  CatInv'
    <2>. DEFINE R == Without(data.routes, {id})
    <2>1. AreRoutes(R)
      BY <1>1, FS_Difference DEF AreRoutes, Ids, Without
    <2>2. Edit([data EXCEPT !.routes = R])
      BY <1>5 DEF DeleteWebRoute
    <2>. HIDE DEF R
    <2>. QED
      BY <2>1, <2>2, RoutesPut, EditKeeps, SameAgrees DEF CatInv
  <1>. QED
    BY <1>3, <1>4, <1>5 DEF EditRoutes

(* A new Forward has an id no run has; one that runs is not edited. *)
LEMMA SaveForwardKeeps ==
    ASSUME CatInv, NEW id \in DOMAIN data.forwards \cup {0}, NEW forward \in ForwardRecords,
           SaveForward(id, forward)
    PROVE  CatInv'
  <1>1. AreForwards(data.forwards) /\ Ids(data.forwards)
    BY WrittenIs DEF CatInv, AreForwards
  <1>2. CASE id = 0
    <2>. DEFINE W == With(data.forwards, NextID(data.forwards), forward)
    <2>1. Edit([data EXCEPT !.forwards = W])
      BY <1>2 DEF SaveForward
    <2>2. /\ Ids(W) /\ DOMAIN W = DOMAIN data.forwards \cup {NextID(data.forwards)}
          /\ W[NextID(data.forwards)] = forward
          /\ \A w \in DOMAIN data.forwards : W[w] = data.forwards[w]
      BY <1>1, WithNew
    <2>. HIDE DEF W
    <2>3. AreForwards(W)
      BY <1>1, <2>2, Zenon DEF AreForwards
    <2>4. Agree(W)
      BY <2>2 DEF Agree
    <2>. QED
      BY <2>1, <2>3, <2>4, ForwardsPut, EditKeeps DEF CatInv
  <1>3. CASE id # 0
    <2>. DEFINE W == [data.forwards EXCEPT ![id] = forward]
    <2>1. Edit([data EXCEPT !.forwards = W]) /\ ~Active(id)
      BY <1>3 DEF SaveForward
    <2>2. AreForwards(W)
      BY <1>1 DEF AreForwards, Ids
    <2>3. Agree(W)
      BY <2>1 DEF Agree
    <2>. HIDE DEF W
    <2>. QED
      BY <2>1, <2>2, <2>3, ForwardsPut, EditKeeps DEF CatInv
  <1>. QED
    BY <1>2, <1>3

LEMMA MoveForwardsKeeps ==
    ASSUME CatInv, NEW ids, NEW folder \in DOMAIN data.folders, MoveIntoFolder(ids, folder)
    PROVE  CatInv'
  <1>1. AreForwards(data.forwards) /\ folder \in Nat
    BY WrittenIs DEF CatInv, Ids
  <1>. DEFINE Moved(id) == IF id \in ids THEN [data.forwards[id] EXCEPT !.folder = folder] ELSE data.forwards[id]
              W == [id \in DOMAIN data.forwards |-> Moved(id)]
  <1>2. Edit([data EXCEPT !.forwards = W])
    BY DEF MoveIntoFolder
  <1>3. ASSUME NEW id \in DOMAIN data.forwards
        PROVE  W[id] \in ForwardRecords /\ Definition(W[id]) = Definition(data.forwards[id])
    BY <1>1 DEF AreForwards, ForwardRecords, Definition
  <1>4. DOMAIN W = DOMAIN data.forwards
    OBVIOUS
  <1>. HIDE DEF W
  <1>5. AreForwards(W) /\ Agree(W)
    BY <1>1, <1>3, <1>4 DEF AreForwards, Ids, Agree
  <1>. QED
    BY <1>2, <1>5, ForwardsPut, EditKeeps DEF CatInv

LEMMA EditForwardsKeeps == ASSUME CatInv, EditForwards PROVE CatInv'
  <1>1. Ids(data.folders) /\ Ids(data.hosts)
    BY WrittenIs DEF CatInv
  <1>2. ASSUME NEW id \in DOMAIN data.forwards \cup {0},
               NEW forward \in [folder : DOMAIN data.folders, mode : Modes, chain : Chains],
               SaveForward(id, forward)
        PROVE  CatInv'
    <2>1. \A chain \in Chains : chain \in Seq(Nat)
      <3>1. \A h, i \in Nat : << h >> \in Seq(Nat) /\ << h, i >> \in Seq(Nat)
        OBVIOUS
      <3>2. \A h \in DOMAIN data.hosts : h \in Nat
        BY <1>1 DEF Ids
      <3>3. ASSUME NEW chain \in Chains
            PROVE  \/ \E h \in DOMAIN data.hosts : chain = << h >>
                   \/ \E h, i \in DOMAIN data.hosts : chain = << h, i >>
        BY DEF Chains
      <3>. QED
        <4>1. ASSUME NEW h \in DOMAIN data.hosts, NEW i \in DOMAIN data.hosts
              PROVE  << h >> \in Seq(Nat) /\ << h, i >> \in Seq(Nat)
          BY <3>1, <3>2
        <4>2. ASSUME NEW chain \in Chains PROVE chain \in Seq(Nat)
          <5>1. CASE \E h \in DOMAIN data.hosts : chain = << h >>
            BY <4>1, <5>1, Zenon
          <5>2. CASE \E h, i \in DOMAIN data.hosts : chain = << h, i >>
            BY <4>1, <5>2, Zenon
          <5>. QED
            BY <3>3, <4>2, <5>1, <5>2
        <4>. QED
          BY <4>2
    <2>2. forward \in ForwardRecords
      BY <1>1, <2>1 DEF ForwardRecords, Ids
    <2>. QED
      BY <1>2, <2>2, SaveForwardKeeps
  <1>. QED
    BY <1>2, MoveForwardsKeeps DEF EditForwards

-----------------------------------------------------------------------------
(* DeleteSelection                                                         *)

(* What the binding stops is all that the deletion removes. *)
LEMMA DoomedAreStopped ==
    ASSUME NEW sel, Deletable(sel)
    PROVE  Doomed(sel) \subseteq Stops(sel)
  <1>1. CASE sel.cascade
    BY <1>1 DEF Doomed, Stops, Selected
  <1>2. CASE ~sel.cascade
    BY <1>2 DEF Deletable, Stops
  <1>. QED
    BY <1>1, <1>2

(* What is left after a removal is as it was. *)
LEMMA WithoutKeeps ==
    ASSUME NEW items, NEW ids
    PROVE  LET rest == Without(items, ids) IN
           /\ DOMAIN rest = DOMAIN items \ ids
           /\ \A i \in DOMAIN items \ ids : rest[i] = items[i]
           /\ Ids(items) => Ids(rest)
           /\ AreForwards(items) => AreForwards(rest)
           /\ AreRoutes(items) => AreRoutes(rest)
  <1>. DEFINE rest == Without(items, ids)
  <1>1. DOMAIN rest = DOMAIN items \ ids /\ \A i \in DOMAIN items \ ids : rest[i] = items[i]
    BY DEF Without
  <1>. HIDE DEF rest
  <1>2. Ids(items) => Ids(rest)
    BY <1>1, FS_Difference DEF Ids
  <1>3. (AreForwards(items) => AreForwards(rest)) /\ (AreRoutes(items) => AreRoutes(rest))
    BY <1>1, <1>2, Zenon DEF AreForwards, AreRoutes
  <1>. QED
    BY <1>1, <1>2, <1>3 DEF rest

LEMMA DeletedIs ==
    ASSUME Written(data), NEW sel
    PROVE  LET d == Deleted(sel) IN
           /\ Written(d)
           /\ d.forwards = Without(data.forwards, Doomed(sel))
  <1>. DEFINE F == Without(data.folders, Selected(sel))
              W == Without(data.forwards, Doomed(sel))
              H == Without(data.hosts, sel.hosts)
              R == Without(data.routes, {r \in DOMAIN data.routes : data.routes[r].forward \in Doomed(sel)})
              d == [data EXCEPT !.folders = F, !.forwards = W, !.hosts = H, !.routes = R]
  <1>1. Deleted(sel) = d
    BY DEF Deleted
  <1>2. Ids(F) /\ Ids(H) /\ AreForwards(W) /\ AreRoutes(R)
    BY WrittenIs, WithoutKeeps
  <1>. HIDE DEF F, W, H, R
  <1>3. DOMAIN d = Kinds /\ d.folders = F /\ d.hosts = H /\ d.forwards = W /\ d.routes = R
    BY WrittenIs DEF Kinds
  <1>. HIDE DEF d
  <1>4. Written(d)
    BY <1>2, <1>3, WrittenIs
  <1>. QED
    BY <1>1, <1>3, <1>4 DEF W

(* A stop leaves a run as it was, marks it or removes it. *)
LEMMA StoppedIs ==
    ASSUME TableTyped, NEW ids, NEW failing, table' = Stopped(ids, failing)
    PROVE  /\ TableTyped'
           /\ DOMAIN table' \subseteq DOMAIN table
           /\ \A id \in DOMAIN table' : Active(id)' => id \notin ids /\ Active(id) /\ table'[id] = table[id]
  <1>1. DOMAIN table' = DOMAIN table \ (ids \ failing)
    BY DEF Stopped
  <1>2. ASSUME NEW id \in DOMAIN table'
        PROVE  /\ id \notin ids => table'[id] = table[id]
               /\ id \in ids => DOMAIN table'[id] = {"def", "stopping"} /\ table'[id].stopping
    BY <1>1 DEF Stopped, TableTyped
  <1>. QED
    BY <1>1, <1>2 DEF TableTyped, Active

LEMMA DeleteKeeps == ASSUME CatInv, NEW sel, DeleteSelection(sel) PROVE CatInv'
  <1>1. PICK failing : table' = Stopped(Stops(sel), failing)
    BY DEF DeleteSelection
  <1>2. /\ TableTyped' /\ DOMAIN table' \subseteq DOMAIN table
        /\ \A id \in DOMAIN table' :
              Active(id)' => id \notin Stops(sel) /\ Active(id) /\ table'[id] = table[id]
    BY <1>1, StoppedIs DEF CatInv
  <1>3. CASE Deletable(sel)
    <2>1. data' = Deleted(sel)
      BY <1>3 DEF DeleteSelection, Update
    <2>2. Written(data)' /\ data'.forwards = Without(data.forwards, Doomed(sel))
      BY <2>1, DeletedIs DEF CatInv, Written
    <2>3. RunsMatchCatalogue'
      <3>1. ASSUME NEW id \in DOMAIN table', Active(id)'
            PROVE  id \in DOMAIN data'.forwards /\ table'[id].def = Definition(data'.forwards[id])
        <4>1. /\ id \notin Stops(sel) /\ Active(id) /\ table'[id] = table[id]
              /\ id \in DOMAIN table /\ id \notin Doomed(sel)
          BY <1>2, <1>3, <3>1, DoomedAreStopped
        <4>2. id \in DOMAIN data.forwards /\ table[id].def = Definition(data.forwards[id])
          BY <4>1 DEF CatInv, RunsMatchCatalogue
        <4>3. id \in DOMAIN data'.forwards /\ data'.forwards[id] = data.forwards[id]
          BY <2>2, <4>1, <4>2 DEF Without
        <4>. QED
          BY <4>1, <4>2, <4>3
      <3>. QED
        BY <3>1 DEF RunsMatchCatalogue, Active, Definition
    <2>. QED
      BY <1>2, <2>2, <2>3 DEF CatInv
  <1>4. CASE ~Deletable(sel)
    <2>1. data' = data
      BY <1>4 DEF DeleteSelection
    <2>. QED
      BY <1>2, <2>1 DEF CatInv, RunsMatchCatalogue, Written, Definition
  <1>. QED
    BY <1>3, <1>4

-----------------------------------------------------------------------------
(* ApplyStagedImport                                                       *)

LEMMA FiniteImage ==
    ASSUME NEW S, IsFiniteSet(S), NEW f
    PROVE  IsFiniteSet({f[x] : x \in S})
  <1>. DEFINE T == {f[x] : x \in S}
              g == [x \in S |-> f[x]]
  <1>1. g \in Surjection(S, T)
    BY DEF Surjection
  <1>. QED
    BY <1>1, FS_Surjection

(* The ids an import gives out are new and tell the items apart. *)
LEMMA RenumberIs ==
    ASSUME NEW items, Ids(items), NEW ids, IsFiniteSet(ids), ids \subseteq Nat
    PROVE  LET new == Renumber(items, ids) IN
           /\ DOMAIN new = ids
           /\ \A i \in ids : new[i] \in Nat \ {0} /\ new[i] \notin DOMAIN items
           /\ \A i, j \in ids : new[i] = new[j] => i = j
  <1>. DEFINE new == Renumber(items, ids)
              top == NextID(items)
  <1>1. top \in Nat \ {0} /\ \A i \in DOMAIN items : i < top /\ i \in Nat
    BY NextIsNew DEF Ids
  <1>2. DOMAIN new = ids /\ \A i \in ids : new[i] = top - 1 + Rank(ids, i)
    BY DEF Renumber, Rank
  <1>3. /\ \A i \in ids : Rank(ids, i) \in 1 .. Cardinality(ids)
        /\ \A i, j \in ids : Rank(ids, i) = Rank(ids, j) => i = j
    BY RankTells
  <1>. HIDE DEF new, top
  <1>4. ASSUME NEW i \in ids PROVE new[i] \in Nat \ {0} /\ new[i] >= top /\ new[i] \notin DOMAIN items
    BY <1>1, <1>2, <1>3
  <1>5. ASSUME NEW i \in ids, NEW j \in ids, new[i] = new[j] PROVE i = j
    <2>1. Rank(ids, i) = Rank(ids, j)
      BY <1>1, <1>2, <1>3, <1>5
    <2>. QED
      BY <1>3, <2>1
  <1>. QED
    BY <1>2, <1>4, <1>5 DEF new

(* A merge has the old items as they were, and the new ones. *)
LEMMA MergeIs ==
    ASSUME NEW old, NEW new
    PROVE  LET all == Merge(old, new) IN
           /\ DOMAIN all = DOMAIN old \cup DOMAIN new
           /\ \A i \in DOMAIN old : all[i] = old[i]
           /\ \A i \in DOMAIN new \ DOMAIN old : all[i] = new[i]
           /\ Ids(old) /\ IsFiniteSet(DOMAIN new) /\ DOMAIN new \subseteq Nat \ {0} => Ids(all)
  <1>. DEFINE all == Merge(old, new)
  <1>1. /\ DOMAIN all = DOMAIN old \cup DOMAIN new
        /\ \A i \in DOMAIN old : all[i] = old[i]
        /\ \A i \in DOMAIN new \ DOMAIN old : all[i] = new[i]
    BY DEF Merge
  <1>. HIDE DEF all
  <1>2. Ids(old) /\ IsFiniteSet(DOMAIN new) /\ DOMAIN new \subseteq Nat \ {0} => Ids(all)
    BY <1>1, FS_Union DEF Ids
  <1>. QED
    BY <1>1, <1>2 DEF all

(* The parts of a package that arrive, and the ids they get. *)
WrapperID == NextID(data.folders)
FolderID(p) ==
    [f \in Tops(p) |-> WrapperID + Cardinality({g \in Tops(p) : g <= f})]
HostID(p, skip) == Renumber(data.hosts, Kept(p, skip))
ForwardID(p) == Renumber(data.forwards, DOMAIN p.forwards)
Routes(p, skip) == {r \in DOMAIN p.routes : p.routes[r].forward \in Arriving(p, skip)}
RouteID(p, skip) == Renumber(data.routes, Routes(p, skip))
Home(p, f) == FolderID(p)[IF f \in Tops(p) THEN f ELSE p.folders[f]]
Back(map, id) == CHOOSE x \in DOMAIN map : map[x] = id
Rehomed(p, skip, w) ==
    [p.forwards[w] EXCEPT !.folder = Home(p, @),
                          !.chain = [i \in DOMAIN Hops(p, skip, w) |-> HostID(p, skip)[Hops(p, skip, w)[i]]]]
NewFolders(p) ==
    [f \in {WrapperID} \cup Range(FolderID(p)) |-> IF f = WrapperID THEN 0 ELSE WrapperID]
NewHosts(p, skip) == [h \in Range(HostID(p, skip)) |-> p.hosts[Back(HostID(p, skip), h)]]
NewForwards(p, skip) ==
    [w \in {ForwardID(p)[x] : x \in Arriving(p, skip)} |-> Rehomed(p, skip, Back(ForwardID(p), w))]
NewRoutes(p, skip) ==
    [r \in Range(RouteID(p, skip)) |->
        [forward |-> ForwardID(p)[p.routes[Back(RouteID(p, skip), r)].forward], hosts |-> FALSE, caddy |-> FALSE]]

LEMMA ImportedIs ==
    ASSUME NEW p, NEW skip
    PROVE  Imported(p, skip) =
             [folders  |-> Merge(data.folders, NewFolders(p)),
              hosts    |-> Merge(data.hosts, NewHosts(p, skip)),
              forwards |-> Merge(data.forwards, NewForwards(p, skip)),
              routes   |-> Merge(data.routes, NewRoutes(p, skip)),
              keys     |-> Merge(data.keys, p.keys)]
  BY Zenon DEF Imported, ImportedKeys, NewFolders, NewHosts, NewForwards, NewRoutes, Rehomed, Home, Back,
         RouteID, Routes, ForwardID, HostID, FolderID, WrapperID

(* A package is made of what a catalogue is made of. *)
LEMMA PackageIs ==
    ASSUME NEW p \in Packages
    PROVE  /\ Ids(p.folders) /\ Ids(p.hosts) /\ AreForwards(p.forwards) /\ AreRoutes(p.routes)
           /\ Validate(p)
  <1>1. Written(p) /\ Validate(p)
    BY PackagesAssumption
  <1>. QED
    BY <1>1, WrittenIs

(* The hops of a Forward that are not skipped are hosts that arrive. *)
LEMMA HopsAre ==
    ASSUME NEW p \in Packages, NEW skip, NEW w \in DOMAIN p.forwards
    PROVE  LET chain == p.forwards[w].chain
               places == {i \in DOMAIN chain : chain[i] \in Kept(p, skip)}
           IN  /\ chain \in Seq(DOMAIN p.hosts)
               /\ Hops(p, skip, w) = Staying(chain, places)
               /\ Hops(p, skip, w) \in Seq(Kept(p, skip))
  <1>. DEFINE chain == p.forwards[w].chain
              places == {i \in DOMAIN chain : chain[i] \in Kept(p, skip)}
              hops == Hops(p, skip, w)
  <1>1. chain \in Seq(Nat)
    BY PackageIs DEF AreForwards, ForwardRecords
  <1>2. \A i \in DOMAIN chain : chain[i] \in DOMAIN p.hosts
    <2>1. ToSet(chain) \subseteq DOMAIN p.hosts
      BY PackageIs DEF Validate
    <2>. QED
      BY <2>1 DEF ToSet
  <1>3. chain \in Seq(DOMAIN p.hosts)
    <2>. HIDE DEF chain
    <2>. QED
      BY <1>1, <1>2
  <1>4. hops = Staying(chain, places)
    BY DEF Hops
  <1>. HIDE DEF chain, hops
  <1>41. /\ hops \in Seq(DOMAIN p.hosts)
         /\ \E place \in [DOMAIN hops -> places] : \A n \in DOMAIN hops : hops[n] = chain[place[n]]
    <2>1. places \in SUBSET DOMAIN chain
      OBVIOUS
    <2>. HIDE DEF places
    <2>. QED
      BY <1>3, <1>4, <2>1, StayingIs
  <1>5. PICK place \in [DOMAIN hops -> places] : \A n \in DOMAIN hops : hops[n] = chain[place[n]]
    BY <1>41
  <1>6. hops \in Seq(DOMAIN p.hosts)
    BY <1>41
  <1>7. \A n \in DOMAIN hops : hops[n] \in Kept(p, skip)
    BY <1>5
  <1>8. hops \in Seq(Kept(p, skip))
    BY <1>6, <1>7
  <1>. QED
    BY <1>3, <1>4, <1>8 DEF chain, hops

(* What an import adds, kind by kind. *)
LEMMA NewFoldersAre ==
    ASSUME Written(data), NEW p \in Packages
    PROVE  /\ IsFiniteSet(DOMAIN NewFolders(p)) /\ DOMAIN NewFolders(p) \subseteq Nat \ {0}
           /\ \A w \in DOMAIN p.forwards : Home(p, p.forwards[w].folder) \in Nat
  <1>. DEFINE tops == Tops(p)
              id == FolderID(p)
  <1>1. IsFiniteSet(tops) /\ tops \subseteq Nat
    <2>1. tops \in SUBSET DOMAIN p.folders
      BY DEF Tops
    <2>. QED
      BY <2>1, PackageIs, FS_Subset DEF Ids
  <1>2. WrapperID \in Nat \ {0}
    BY WrittenIs, NextIsNew DEF WrapperID, Ids
  <1>3. DOMAIN id = tops /\ \A f \in tops : id[f] = WrapperID + Rank(tops, f)
    BY DEF FolderID, Rank
  <1>4. \A f \in tops : Rank(tops, f) \in Nat
    <2>1. \A f \in tops : Rank(tops, f) \in 1 .. Cardinality(tops)
      BY <1>1, RankTells
    <2>. QED
      BY <2>1
  <1>. HIDE DEF id, tops
  <1>5. \A f \in tops : id[f] \in Nat \ {0}
    BY <1>2, <1>3, <1>4
  <1>6. Range(id) = {id[f] : f \in tops} /\ IsFiniteSet({id[f] : f \in tops})
    BY <1>1, <1>3, FiniteImage DEF Range
  <1>7. DOMAIN NewFolders(p) = {WrapperID} \cup {id[f] : f \in tops}
    BY <1>6 DEF NewFolders, id
  <1>8. IsFiniteSet({WrapperID} \cup {id[f] : f \in tops})
    BY <1>6, FS_Singleton, FS_Union
  <1>9. ASSUME NEW w \in DOMAIN p.forwards PROVE Home(p, p.forwards[w].folder) \in Nat
    <2>. DEFINE f == p.forwards[w].folder
    <2>1. f \in DOMAIN p.folders /\ (p.folders[f] # 0 => p.folders[f] \in DOMAIN p.folders /\ p.folders[p.folders[f]] = 0)
      BY PackageIs DEF Validate
    <2>. HIDE DEF f
    <2>2. (IF f \in tops THEN f ELSE p.folders[f]) \in tops
      BY <2>1 DEF tops, Tops
    <2>3. Home(p, f) = id[IF f \in tops THEN f ELSE p.folders[f]]
      BY DEF Home, tops, id
    <2>. QED
      BY <1>5, <2>2, <2>3 DEF f
  <1>. QED
    BY <1>2, <1>5, <1>7, <1>8, <1>9

LEMMA NewHostsAre ==
    ASSUME Written(data), NEW p \in Packages, NEW skip
    PROVE  /\ IsFiniteSet(DOMAIN NewHosts(p, skip)) /\ DOMAIN NewHosts(p, skip) \subseteq Nat \ {0}
           /\ \A h \in Kept(p, skip) :
                 /\ HostID(p, skip)[h] \in Nat \ {0}
                 /\ HostID(p, skip)[h] \in DOMAIN NewHosts(p, skip) \ DOMAIN data.hosts
                 /\ NewHosts(p, skip)[HostID(p, skip)[h]] = p.hosts[h]
  <1>. DEFINE kept == Kept(p, skip)
              id == HostID(p, skip)
  <1>1. IsFiniteSet(kept) /\ kept \subseteq Nat
    <2>1. kept \in SUBSET DOMAIN p.hosts
      BY DEF Kept
    <2>. QED
      BY <2>1, PackageIs, FS_Subset DEF Ids
  <1>2. /\ DOMAIN id = kept
        /\ \A h \in kept : id[h] \in Nat \ {0} /\ id[h] \notin DOMAIN data.hosts
        /\ \A h, i \in kept : id[h] = id[i] => h = i
    BY <1>1, WrittenIs, RenumberIs DEF HostID
  <1>3. NewHosts(p, skip) = [h \in Range(id) |-> p.hosts[Back(id, h)]]
    BY DEF NewHosts
  <1>. HIDE DEF id, kept
  <1>4. Range(id) = {id[h] : h \in kept} /\ IsFiniteSet({id[h] : h \in kept})
    <2>1. Range(id) = {id[h] : h \in kept}
      BY <1>2 DEF Range
    <2>2. IsFiniteSet({id[h] : h \in kept})
      BY <1>1, FiniteImage
    <2>. QED
      BY <2>1, <2>2
  <1>5. \A h \in kept : Back(id, id[h]) = h
    BY <1>2 DEF Back
  <1>6. DOMAIN NewHosts(p, skip) = {id[h] : h \in kept}
    BY <1>3, <1>4
  <1>7. ASSUME NEW h \in kept
        PROVE  id[h] \in DOMAIN NewHosts(p, skip) /\ NewHosts(p, skip)[id[h]] = p.hosts[h]
    BY <1>3, <1>4, <1>5
  <1>. QED
    BY <1>2, <1>4, <1>6, <1>7 DEF id, kept

LEMMA NewForwardsAre ==
    ASSUME Written(data), NEW p \in Packages, NEW skip
    PROVE  /\ IsFiniteSet(DOMAIN NewForwards(p, skip)) /\ DOMAIN NewForwards(p, skip) \subseteq Nat \ {0}
           /\ \A x \in Arriving(p, skip) : ForwardID(p)[x] \in Nat \ {0}
           /\ \A w \in DOMAIN NewForwards(p, skip) :
                 \E x \in Arriving(p, skip) : NewForwards(p, skip)[w] = Rehomed(p, skip, x)
  <1>. DEFINE here == DOMAIN p.forwards
              come == Arriving(p, skip)
              id == ForwardID(p)
  <1>1. IsFiniteSet(here) /\ here \subseteq Nat /\ come \in SUBSET here
    BY PackageIs DEF AreForwards, Ids, Arriving
  <1>2. /\ DOMAIN id = here
        /\ \A x \in here : id[x] \in Nat \ {0} /\ id[x] \notin DOMAIN data.forwards
        /\ \A x, y \in here : id[x] = id[y] => x = y
    BY <1>1, WrittenIs, RenumberIs DEF ForwardID, AreForwards
  <1>3. NewForwards(p, skip) = [w \in {id[x] : x \in come} |-> Rehomed(p, skip, Back(id, w))]
    BY DEF NewForwards
  <1>. HIDE DEF id, here, come
  <1>4. IsFiniteSet({id[x] : x \in come})
    <2>1. IsFiniteSet(come)
      BY <1>1, FS_Subset
    <2>. QED
      BY <2>1, FiniteImage
  <1>5. \A x \in here : Back(id, id[x]) = x
    BY <1>2 DEF Back
  <1>6. ASSUME NEW w \in {id[x] : x \in come}
        PROVE  \E x \in come : NewForwards(p, skip)[w] = Rehomed(p, skip, x)
    <2>1. PICK x \in come : w = id[x]
      OBVIOUS
    <2>2. NewForwards(p, skip)[w] = Rehomed(p, skip, x)
      BY <1>1, <1>3, <1>5, <2>1
    <2>. QED
      BY <2>2
  <1>7. DOMAIN NewForwards(p, skip) = {id[x] : x \in come}
    BY <1>3
  <1>8. /\ IsFiniteSet(DOMAIN NewForwards(p, skip)) /\ DOMAIN NewForwards(p, skip) \subseteq Nat \ {0}
        /\ \A x \in come : id[x] \in Nat \ {0}
        /\ \A w \in DOMAIN NewForwards(p, skip) :
              \E x \in come : NewForwards(p, skip)[w] = Rehomed(p, skip, x)
    BY <1>1, <1>2, <1>4, <1>6, <1>7
  <1>. QED
    BY <1>8 DEF id, come

LEMMA NewRoutesAre ==
    ASSUME Written(data), NEW p \in Packages, NEW skip
    PROVE  /\ IsFiniteSet(DOMAIN NewRoutes(p, skip)) /\ DOMAIN NewRoutes(p, skip) \subseteq Nat \ {0}
           /\ \A r \in DOMAIN NewRoutes(p, skip) :
                 /\ NewRoutes(p, skip)[r] \in RouteRecords
                 /\ ~NewRoutes(p, skip)[r].hosts /\ ~NewRoutes(p, skip)[r].caddy
  <1>. DEFINE routes == Routes(p, skip)
              id == RouteID(p, skip)
  <1>1. IsFiniteSet(routes) /\ routes \subseteq Nat
    <2>1. routes \in SUBSET DOMAIN p.routes
      BY DEF Routes
    <2>. QED
      BY <2>1, PackageIs, FS_Subset DEF AreRoutes, Ids
  <1>2. /\ DOMAIN id = routes
        /\ \A r \in routes : id[r] \in Nat \ {0} /\ id[r] \notin DOMAIN data.routes
        /\ \A r, s \in routes : id[r] = id[s] => r = s
    BY <1>1, WrittenIs, RenumberIs DEF RouteID, AreRoutes
  <1>3. NewRoutes(p, skip) = [r \in Range(id) |->
            [forward |-> ForwardID(p)[p.routes[Back(id, r)].forward], hosts |-> FALSE, caddy |-> FALSE]]
    BY DEF NewRoutes
  <1>. HIDE DEF id
  <1>4. Range(id) = {id[r] : r \in routes} /\ IsFiniteSet({id[r] : r \in routes})
    BY <1>1, <1>2, FiniteImage DEF Range
  <1>5. \A r \in routes : Back(id, id[r]) = r /\ ForwardID(p)[p.routes[r].forward] \in Nat
    <2>1. \A r \in routes : ForwardID(p)[p.routes[r].forward] \in Nat
      BY NewForwardsAre DEF Routes
    <2>. QED
      BY <1>2, <2>1 DEF Back
  <1>. HIDE DEF routes
  <1>6. ASSUME NEW i \in {id[r] : r \in routes}
        PROVE  /\ NewRoutes(p, skip)[i] \in RouteRecords
               /\ ~NewRoutes(p, skip)[i].hosts /\ ~NewRoutes(p, skip)[i].caddy
    <2>1. PICK r \in routes : i = id[r]
      OBVIOUS
    <2>2. NewRoutes(p, skip)[i] = [forward |-> ForwardID(p)[p.routes[r].forward], hosts |-> FALSE, caddy |-> FALSE]
      BY <1>3, <1>4, <1>5, <2>1
    <2>. QED
      BY <1>5, <2>2 DEF RouteRecords
  <1>7. DOMAIN NewRoutes(p, skip) = {id[r] : r \in routes}
    BY <1>3, <1>4
  <1>. QED
    BY <1>2, <1>4, <1>6, <1>7

(* A Forward as it arrives. *)
LEMMA RehomedIs ==
    ASSUME Written(data), NEW p \in Packages, NEW skip,
           NEW x \in DOMAIN p.forwards
    PROVE  LET new == Rehomed(p, skip, x)
               hops == Hops(p, skip, x)
           IN  /\ new \in ForwardRecords
               /\ new.mode = p.forwards[x].mode
               /\ new.chain = [i \in DOMAIN hops |-> HostID(p, skip)[hops[i]]]
  <1>. DEFINE hops == Hops(p, skip, x)
              chain == [i \in DOMAIN hops |-> HostID(p, skip)[hops[i]]]
              home == Home(p, p.forwards[x].folder)
  <1>1. p.forwards[x] \in ForwardRecords
    BY PackageIs DEF AreForwards
  <1>2. home \in Nat
    BY NewFoldersAre
  <1>3. chain \in Seq(Nat)
    <2>1. hops \in Seq(Kept(p, skip))
      BY HopsAre
    <2>. HIDE DEF hops
    <2>2. \A i \in DOMAIN hops : HostID(p, skip)[hops[i]] \in Nat
      BY <2>1, NewHostsAre
    <2>. QED
      BY <2>1, <2>2
  <1>4. Rehomed(p, skip, x) = [p.forwards[x] EXCEPT !.folder = home, !.chain = chain]
    BY DEF Rehomed
  <1>. HIDE DEF home, chain
  <1>5. /\ Rehomed(p, skip, x) \in ForwardRecords
        /\ Rehomed(p, skip, x).mode = p.forwards[x].mode
        /\ Rehomed(p, skip, x).chain = chain
    BY <1>1, <1>2, <1>3, <1>4 DEF ForwardRecords
  <1>. QED
    BY <1>5 DEF chain

(* What an import writes is a catalogue again; what was there is as it was. *)
LEMMA ImportedWritten ==
    ASSUME Written(data), NEW p \in Packages, NEW skip
    PROVE  LET d == Imported(p, skip) IN
           /\ Written(d)
           /\ \A kind \in Kinds : Extends(d[kind], data[kind])
           /\ \A r \in DOMAIN d.routes \ DOMAIN data.routes : ~d.routes[r].hosts /\ ~d.routes[r].caddy
  <1>. DEFINE d == Imported(p, skip)
              F == Merge(data.folders, NewFolders(p))
              H == Merge(data.hosts, NewHosts(p, skip))
              W == Merge(data.forwards, NewForwards(p, skip))
              R == Merge(data.routes, NewRoutes(p, skip))
              K == Merge(data.keys, p.keys)
  <1>1. d = [folders |-> F, hosts |-> H, forwards |-> W, routes |-> R, keys |-> K]
    BY ImportedIs
  <1>2. Ids(data.folders) /\ Ids(data.hosts) /\ AreForwards(data.forwards) /\ AreRoutes(data.routes)
    BY WrittenIs
  <1>3. Ids(F) /\ Ids(H)
    BY <1>2, MergeIs, NewFoldersAre, NewHostsAre
  <1>4. AreForwards(W)
    <2>1. /\ DOMAIN W = DOMAIN data.forwards \cup DOMAIN NewForwards(p, skip)
          /\ \A i \in DOMAIN data.forwards : W[i] = data.forwards[i]
          /\ \A i \in DOMAIN NewForwards(p, skip) \ DOMAIN data.forwards : W[i] = NewForwards(p, skip)[i]
      BY MergeIs
    <2>2. Ids(W)
      BY <1>2, MergeIs, NewForwardsAre DEF AreForwards
    <2>3. ASSUME NEW i \in DOMAIN NewForwards(p, skip)
          PROVE  NewForwards(p, skip)[i] \in ForwardRecords
      <3>1. PICK x \in Arriving(p, skip) : NewForwards(p, skip)[i] = Rehomed(p, skip, x)
        BY NewForwardsAre
      <3>2. x \in DOMAIN p.forwards
        BY DEF Arriving
      <3>3. Rehomed(p, skip, x) \in ForwardRecords
        BY <3>2, RehomedIs
      <3>. QED
        BY <3>1, <3>3
    <2>. HIDE DEF W
    <2>. QED
      BY <1>2, <2>1, <2>2, <2>3 DEF AreForwards
  <1>5. /\ AreRoutes(R)
        /\ \A r \in DOMAIN R \ DOMAIN data.routes : ~R[r].hosts /\ ~R[r].caddy
    <2>1. /\ DOMAIN R = DOMAIN data.routes \cup DOMAIN NewRoutes(p, skip)
          /\ \A i \in DOMAIN data.routes : R[i] = data.routes[i]
          /\ \A i \in DOMAIN NewRoutes(p, skip) \ DOMAIN data.routes : R[i] = NewRoutes(p, skip)[i]
      BY MergeIs
    <2>2. Ids(R)
      BY <1>2, MergeIs, NewRoutesAre DEF AreRoutes
    <2>. HIDE DEF R
    <2>. QED
      BY <1>2, <2>1, <2>2, NewRoutesAre DEF AreRoutes
  <1>6. \A old, new : Extends(Merge(old, new), old)
    BY MergeIs DEF Extends
  <1>7. /\ Extends(F, data.folders) /\ Extends(H, data.hosts) /\ Extends(W, data.forwards)
        /\ Extends(R, data.routes) /\ Extends(K, data.keys)
    BY <1>6
  <1>. HIDE DEF F, H, W, R, K, d
  <1>8. DOMAIN d = Kinds /\ d.folders = F /\ d.hosts = H /\ d.forwards = W /\ d.routes = R /\ d.keys = K
    BY <1>1 DEF Kinds
  <1>9. Written(d)
    BY <1>3, <1>4, <1>5, <1>8, WrittenIs
  <1>10. \A kind \in Kinds : Extends(d[kind], data[kind])
    BY <1>7, <1>8 DEF Kinds
  <1>. QED
    BY <1>5, <1>8, <1>9, <1>10 DEF d

(* A Forward that arrives goes through the endpoints it went through in the   *)
(* package, but for the skipped ones.                                         *)
LEMMA ArrivesSame ==
    ASSUME Written(data), NEW p \in Packages, NEW skip,
           NEW w \in DOMAIN Imported(p, skip).forwards \ DOMAIN data.forwards
    PROVE  LET d == Imported(p, skip) IN
           \E x \in DOMAIN p.forwards :
              /\ d.forwards[w].mode = p.forwards[x].mode
              /\ Endpoint(d, d.forwards[w].chain) = Unskipped(Endpoint(p, p.forwards[x].chain), skip)
  <1>. DEFINE d == Imported(p, skip)
              H == NewHosts(p, skip)
              W == NewForwards(p, skip)
              id == HostID(p, skip)
              kept == Kept(p, skip)
  <1>1. d.hosts = Merge(data.hosts, H) /\ d.forwards = Merge(data.forwards, W)
    BY ImportedIs
  <1>2. w \in DOMAIN W /\ d.forwards[w] = W[w]
    <2>. DEFINE all == Merge(data.forwards, W)
    <2>1. /\ DOMAIN all = DOMAIN data.forwards \cup DOMAIN W
          /\ \A i \in DOMAIN W \ DOMAIN data.forwards : all[i] = W[i]
      BY MergeIs
    <2>2. w \in DOMAIN all \ DOMAIN data.forwards
      BY <1>1
    <2>. HIDE DEF all, W
    <2>3. w \in DOMAIN W /\ all[w] = W[w]
      BY <2>1, <2>2
    <2>. QED
      BY <1>1, <2>3 DEF all
  <1>3. PICK x \in Arriving(p, skip) : W[w] = Rehomed(p, skip, x)
    BY <1>2, NewForwardsAre
  <1>4. x \in DOMAIN p.forwards
    BY DEF Arriving
  <1>. DEFINE hops == Hops(p, skip, x)
              chain == p.forwards[x].chain
              f == [h \in DOMAIN p.hosts |-> p.hosts[h].endpoint]
              places == {i \in DOMAIN chain : chain[i] \in kept}
              points == Endpoint(p, chain)
  <1>5. /\ d.forwards[w].mode = p.forwards[x].mode
        /\ d.forwards[w].chain = [i \in DOMAIN hops |-> id[hops[i]]]
    BY <1>2, <1>3, <1>4, RehomedIs
  <1>6. chain \in Seq(DOMAIN p.hosts) /\ hops = Staying(chain, places) /\ hops \in Seq(kept)
    BY <1>4, HopsAre
  <1>7. \A h \in kept : d.hosts[id[h]] = p.hosts[h] /\ h \in DOMAIN p.hosts
    <2>. DEFINE all == Merge(data.hosts, H)
    <2>1. \A i \in DOMAIN H \ DOMAIN data.hosts : all[i] = H[i]
      BY MergeIs
    <2>2. \A h \in kept : id[h] \in DOMAIN H \ DOMAIN data.hosts /\ H[id[h]] = p.hosts[h]
      BY NewHostsAre
    <2>3. \A h \in kept : h \in DOMAIN p.hosts
      BY DEF Kept
    <2>. HIDE DEF all, H, id, kept
    <2>4. \A h \in kept : all[id[h]] = p.hosts[h]
      BY <2>1, <2>2
    <2>. QED
      BY <1>1, <2>3, <2>4 DEF all
  <1>8. \A i \in DOMAIN hops : hops[i] \in kept
    <2>. HIDE DEF hops, kept
    <2>. QED
      BY <1>6
  <1>9. \A i \in DOMAIN chain : chain[i] \in DOMAIN p.hosts
    <2>. HIDE DEF chain
    <2>. QED
      BY <1>6
  <1>. HIDE DEF d, hops, chain, id
  <1>10. Endpoint(d, d.forwards[w].chain) = [i \in DOMAIN hops |-> f[hops[i]]]
    BY <1>5, <1>7, <1>8 DEF Endpoint
  <1>11. points = [i \in DOMAIN chain |-> f[chain[i]]] /\ DOMAIN points = DOMAIN chain
    BY <1>9 DEF Endpoint
  <1>12. {i \in DOMAIN points : points[i] \notin skip} = places
    BY <1>9, <1>11 DEF Kept
  <1>13. Unskipped(points, skip) = Staying(points, places)
    BY <1>12 DEF Unskipped
  <1>. HIDE DEF f, points
  <1>14. Staying(points, places) = [i \in DOMAIN hops |-> f[hops[i]]]
    <2>1. places \in SUBSET DOMAIN chain
      OBVIOUS
    <2>. HIDE DEF places
    <2>2. Staying([i \in DOMAIN chain |-> f[chain[i]]], places)
            = [n \in DOMAIN Staying(chain, places) |-> f[Staying(chain, places)[n]]]
      BY <1>6, <2>1, StayingMaps
    <2>. QED
      BY <1>6, <1>11, <2>2
  <1>. QED
    BY <1>4, <1>5, <1>10, <1>13, <1>14 DEF d, chain, points

LEMMA ImportKeeps ==
    ASSUME CatInv, NEW p \in Packages, NEW skip, Import(p, skip)
    PROVE  CatInv'
  <1>1. data' = Imported(p, skip) /\ table' = table
    BY DEF Import, Update
  <1>2. Written(Imported(p, skip)) /\ Extends(Imported(p, skip).forwards, data.forwards)
    BY ImportedWritten DEF CatInv, Kinds
  <1>3. Written(data)'
    BY <1>1, <1>2 DEF Written
  <1>4. RunsMatchCatalogue'
    BY <1>1, <1>2 DEF CatInv, RunsMatchCatalogue, Active, Definition, Extends
  <1>. QED
    BY <1>1, <1>3, <1>4 DEF CatInv, TableTyped

-----------------------------------------------------------------------------
(* Runs                                                                    *)

LEMMA RunsKeep ==
    ASSUME CatInv, NEW id, \/ id \in DOMAIN data.forwards /\ Start(id)
                         \/ Stop(id) \/ RunExits(id)
    PROVE  CatInv'
  <1>1. data' = data
    BY DEF Start, Stop, RunExits
  <1>2. CASE id \in DOMAIN data.forwards /\ Start(id)
    <2>. DEFINE new == [def |-> Definition(data.forwards[id]), stopping |-> FALSE]
    <2>1. /\ DOMAIN table' = DOMAIN table \cup {id} /\ table'[id] = new
          /\ \A i \in DOMAIN table \ {id} : table'[i] = table[i]
      BY <1>2 DEF Start, With
    <2>2. TableTyped'
      BY <2>1 DEF CatInv, TableTyped
    <2>3. RunsMatchCatalogue'
      BY <1>1, <1>2, <2>1 DEF CatInv, RunsMatchCatalogue, Active, Definition
    <2>. QED
      BY <1>1, <2>2, <2>3 DEF CatInv, Written
  <1>3. CASE Stop(id)
    <2>1. PICK failing : table' = Stopped({id}, failing)
      BY <1>3 DEF Stop
    <2>2. /\ TableTyped' /\ DOMAIN table' \subseteq DOMAIN table
          /\ \A i \in DOMAIN table' : Active(i)' => Active(i) /\ table'[i] = table[i]
      BY <2>1, StoppedIs DEF CatInv
    <2>. QED
      BY <1>1, <2>2 DEF CatInv, Written, RunsMatchCatalogue, Definition
  <1>4. CASE RunExits(id)
    <2>1. DOMAIN table' = DOMAIN table \ {id} /\ \A i \in DOMAIN table' : table'[i] = table[i]
      BY <1>4 DEF RunExits, Without
    <2>. QED
      BY <1>1, <2>1 DEF CatInv, TableTyped, Written, RunsMatchCatalogue, Active, Definition
  <1>. QED
    BY <1>2, <1>3, <1>4

-----------------------------------------------------------------------------
(* The invariant holds at first, and every operation keeps it. *)
LEMMA CatInit == ASSUME CatalogInit PROVE CatInv
  <1>1. data \in Packages /\ table = << >>
    BY DEF CatalogInit, Empty
  <1>2. DOMAIN table = {}
    BY <1>1
  <1>. QED
    BY <1>1, <1>2, PackagesAssumption, Zenon DEF CatInv, TableTyped, RunsMatchCatalogue

LEMMA CatNext == ASSUME CatInv, [CatalogNext]_catalogVars PROVE CatInv'
  <1>1. CASE UNCHANGED catalogVars
    BY <1>1 DEF catalogVars, CatInv, TableTyped, Written, RunsMatchCatalogue, Active, Definition
  <1>2. CASE EditFolders \/ EditHosts \/ EditForwards \/ EditRoutes \/ EditKeys
    BY <1>2, EditFoldersKeeps, EditHostsKeeps, EditForwardsKeeps, EditRoutesKeeps, EditKeysKeeps
  <1>3. CASE \E sel \in Selections : DeleteSelection(sel)
    BY <1>3, DeleteKeeps
  <1>4. CASE \E p \in Packages, skip \in SUBSET Endpoints : imports < MaxImports /\ Import(p, skip)
    BY <1>4, ImportKeeps
  <1>5. CASE \E id \in DOMAIN data.forwards : Start(id)
    BY <1>5, RunsKeep
  <1>6. CASE \E id \in DOMAIN table : Stop(id) \/ RunExits(id)
    BY <1>6, RunsKeep
  <1>. QED
    BY <1>1, <1>2, <1>3, <1>4, <1>5, <1>6 DEF CatalogNext

LEMMA CatInvariantHolds == CatalogSpec => []CatInv
  <1>1. CatalogInit => CatInv
    BY CatInit
  <1>2. CatInv /\ [CatalogNext]_catalogVars => CatInv'
    BY CatNext
  <1>. QED
    BY <1>1, <1>2, PTL DEF CatalogSpec

(* Whatever is edited, moved, deleted with its folder or imported, a run that  *)
(* is not being stopped is that of a Forward of the catalogue and is what the  *)
(* catalogue says of it: App.SaveForward and App.DeleteSelection with          *)
(* CatalogBiz (app.go:478-530).                                                *)
THEOREM RunsMatch == CatalogSpec => []RunsMatchCatalogue
  <1>1. CatInv => RunsMatchCatalogue
    BY DEF CatInv
  <1>. QED
    BY <1>1, CatInvariantHolds, PTL

(* No writer of a Route leaves Caddy on without the hosts entry, although      *)
(* Validate does not look at it (catalog.go, service.go).                      *)
THEOREM CaddyIsOnHosts == CatalogSpec => []CaddyNeedsHosts
  <1>1. CatInv => CaddyNeedsHosts
    BY DEF CatInv, Written, CaddyNeedsHosts
  <1>. QED
    BY <1>1, CatInvariantHolds, PTL

(* An import changes nothing that was there, brings no Route in that is on,     *)
(* and no Forward that goes through other hosts than its own, whatever the ids *)
(* it gives out (BackupBiz.ApplyStagedImportWithData).                         *)
THEOREM ImportOnlyAdds == CatalogSpec => ImportAddsOnly
  <1>1. ASSUME CatInv, CatalogNext, imports' # imports
        PROVE  \E p \in Packages, skip \in SUBSET Endpoints : Import(p, skip)
    <2>1. \/ \E p \in Packages, skip \in SUBSET Endpoints : Import(p, skip)
          \/ imports' = imports
      BY <1>1 DEF CatalogNext, EditFolders, EditHosts, EditForwards, EditRoutes, EditKeys,
           CreateFolder, SaveSSHHost, SaveForward, MoveIntoFolder, SaveWebRoute, UpsertRoute,
           PutRoute, SetRouteFlag, DeleteWebRoute, EnrollHostKey, ReplaceHostKey, Edit,
           DeleteSelection, Start, Stop, RunExits
    <2>. QED
      BY <1>1, <2>1
  <1>. DEFINE Adds ==
          /\ \A kind \in DOMAIN data : Extends(data'[kind], data[kind])
          /\ \A r \in DOMAIN data'.routes \ DOMAIN data.routes : ~data'.routes[r].hosts /\ ~data'.routes[r].caddy
          /\ \E p \in Packages, skip \in SUBSET Endpoints :
                \A w \in DOMAIN data'.forwards \ DOMAIN data.forwards :
                   \E x \in DOMAIN p.forwards :
                      /\ data'.forwards[w].mode = p.forwards[x].mode
                      /\ Endpoint(data', data'.forwards[w].chain)
                           = Unskipped(Endpoint(p, p.forwards[x].chain), skip)
  <1>2. ASSUME CatInv, CatalogNext, imports' # imports PROVE Adds
    <2>1. PICK p \in Packages, skip \in SUBSET Endpoints : Import(p, skip)
      BY <1>1, <1>2
    <2>2. data' = Imported(p, skip)
      BY <2>1 DEF Import, Update
    <2>3. Written(data) /\ DOMAIN data = Kinds
      BY <1>2, WrittenIs DEF CatInv
    <2>4. /\ \A kind \in DOMAIN data : Extends(data'[kind], data[kind])
          /\ \A r \in DOMAIN data'.routes \ DOMAIN data.routes : ~data'.routes[r].hosts /\ ~data'.routes[r].caddy
      BY <2>2, <2>3, ImportedWritten
    <2>5. \A w \in DOMAIN data'.forwards \ DOMAIN data.forwards :
             \E x \in DOMAIN p.forwards :
                /\ data'.forwards[w].mode = p.forwards[x].mode
                /\ Endpoint(data', data'.forwards[w].chain)
                     = Unskipped(Endpoint(p, p.forwards[x].chain), skip)
      BY <2>2, <2>3, ArrivesSame
    <2>. QED
      BY <2>4, <2>5
  <1>3. CatInv /\ [CatalogNext]_catalogVars => [imports' # imports => Adds]_catalogVars
    BY <1>2
  <1>. QED
    BY <1>3, CatInvariantHolds, PTL DEF CatalogSpec, ImportAddsOnly

=============================================================================
