-------------------------- MODULE LifecycleProofs --------------------------
(***************************************************************************)
(* What Lifecycle promises, for every number of containers, commands and   *)
(* supervisors, and every choice of circumstances.                         *)
(*                                                                         *)
(* The proof follows the sessions of a container, that is its supervisors  *)
(* one after the other with the init each of them clones.  Users that keep *)
(* the order (Orderly) have at most one session of a container at work     *)
(* (OneInv), and nobody is about to launch a container that has one        *)
(* (LaunchInv).  A status then tells where that session is (StatusInv),    *)
(* and a command that has gone past the refresh looks at a container whose *)
(* set-up is behind it, or that is over (LookInv), although it read the    *)
(* config some steps ago: this is why it cannot remove a directory that is *)
(* in use, or signal a pid that the config no longer has.                  *)
(*                                                                         *)
(* First, what the pieces of the actions do; then one lemma for each       *)
(* action, <Action>Does, that says element by element what the action      *)
(* changes; then the invariant in three parts, for every circumstance, for *)
(* users that keep the order, and for a user that runs containers once,    *)
(* each with the lemma that a step keeps it; last, the theorems.           *)
(***************************************************************************)
EXTENDS Lifecycle, TLAPS

(* The circumstances have their types, and so have the fields that are read
   from them.                                                              *)
LEMMA SettingFacts ==
    ASSUME TypeOK
    PROVE  /\ Detached \subseteq Ids /\ AutoRemoved \subseteq Ids /\ setting.ids \subseteq Ids
           /\ Commands \subseteq AllCommands
           /\ setting.clis \subseteq CLIs
           /\ Patient \in BOOLEAN /\ setting.policy \in Policies
           /\ setting.spawns \in 1..MaxSpawns
  BY LifecycleConstants DEF TypeOK, Detached, AutoRemoved, Commands, Patient

LEMMA ConstantFacts ==
    /\ MaxSpawns \in Nat /\ MaxBoots \in Nat
    /\ AnId \in Ids /\ 0 \in Pids /\ Sessions \subseteq Pids /\ 0 \notin Sessions
    /\ NoStatus \in Statuses
  BY LifecycleConstants DEF AnId, Pids, Sessions, Statuses

Config     == [status : Statuses, pid : Pids, boot : 0..MaxBoots]
Procs      == {"none", "blocked", "running", "zombie", "gone"}
Invocation == [at : Places, cmd : Commands \cup {"ps"}, id : Ids,
               cur : Ids, todo : SUBSET Ids, pid : Pids]

\* Invocation k goes to place l; the other invocations stay where they are.
Moves(k, l) == /\ cli' \in [CLIs -> Invocation]
               /\ \A j \in CLIs : j # k => cli'[j] = cli[j]
               /\ cli'[k].at = l
Same(k) == /\ cli'[k].cmd = cli[k].cmd /\ cli'[k].id = cli[k].id /\ cli'[k].cur = cli[k].cur
           /\ cli'[k].todo = cli[k].todo /\ cli'[k].pid = cli[k].pid

LEMMA CliTypes == TypeOK => cli \in [CLIs -> Invocation]
  BY DEF TypeOK, Invocation

LEMMA Elements ==
    ASSUME TypeOK
    PROVE  /\ \A s \in Sessions : sid[s] \in Ids
           /\ \A c \in Ids : cfg[c].pid \in Pids /\ pidfile[c] \in Pids
           /\ \A k \in CLIs : /\ cli[k].id \in Ids /\ cli[k].cur \in Ids
                             /\ cli[k].todo \subseteq Ids /\ cli[k].pid \in Pids
           /\ Pids = Sessions \cup {0} /\ 0 \notin Sessions
<1>1. cfg \in [Ids -> Config]
  BY DEF TypeOK, Config
<1>2. Pids = Sessions \cup {0} /\ 0 \notin Sessions
  BY LifecycleConstants DEF Pids, Sessions
<1>. QED
  BY <1>1, <1>2, CliTypes DEF TypeOK, Config, Invocation

LEMMA BecomeMoves ==
    ASSUME TypeOK, NEW k \in CLIs, NEW l \in Places, Become(k, l)
    PROVE  Moves(k, l) /\ Same(k)
<1>1. cli \in [CLIs -> Invocation]
  BY DEF TypeOK, Invocation
<1>2. [cli[k] EXCEPT !.at = l] \in Invocation
  BY <1>1 DEF Invocation
<1>3. cli' = [cli EXCEPT ![k] = [cli[k] EXCEPT !.at = l]]
  BY DEF Become
<1>4. cli'[k] = [cli[k] EXCEPT !.at = l]
  BY <1>1, <1>3
<1>5. Same(k) /\ cli'[k].at = l
  BY <1>1, <1>4 DEF Same, Invocation
<1>. QED
  BY <1>1, <1>2, <1>3, <1>5 DEF Moves

LEMMA EndMoves ==
    ASSUME TypeOK, NEW k \in CLIs, Ends(k)
    PROVE  Moves(k, "idle") /\ cli'[k] = Idle(AnId)
<1>1. cli \in [CLIs -> Invocation]
  BY DEF TypeOK, Invocation
<1>2. Idle(AnId) \in Invocation
  BY ConstantFacts DEF Idle, Invocation, Places
<1>3. cli' = [cli EXCEPT ![k] = Idle(AnId)]
  BY DEF Ends
<1>4. cli'[k] = Idle(AnId)
  BY <1>1, <1>3
<1>5. cli'[k].at = "idle"
  BY <1>4 DEF Idle
<1>. QED
  BY <1>1, <1>2, <1>3, <1>4, <1>5 DEF Moves

LEMMA LaunchedMoves ==
    ASSUME TypeOK, NEW k \in CLIs, Launched(k)
    PROVE  \/ Moves(k, "idle") /\ cli'[k] = Idle(AnId)
           \/ cli[k].cmd = "autostart" /\ Moves(k, "auto") /\ Same(k)
<1>1. CASE cli[k].cmd = "autostart"
  BY <1>1, BecomeMoves DEF Launched, Places
<1>2. CASE cli[k].cmd # "autostart"
  BY <1>2, EndMoves DEF Launched
<1>. QED
  BY <1>1, <1>2

LEMMA CheckMoves ==
    ASSUME TypeOK, NEW k \in CLIs, NEW c \in Ids, RefreshCheck(k, c)
    PROVE  /\ Moves(k, IF cfg[c].status = "Active" /\ ~Alive(cfg[c]) THEN "mark" ELSE "scan")
           /\ cli'[k].cmd = cli[k].cmd /\ cli'[k].id = cli[k].id /\ cli'[k].cur = c
           /\ cli'[k].todo = cli[k].todo \ {c} /\ cli'[k].pid = cli[k].pid
<1>. DEFINE l == IF cfg[c].status = "Active" /\ ~Alive(cfg[c]) THEN "mark" ELSE "scan"
            r == [cli[k] EXCEPT !.cur = c, !.todo = @ \ {c}, !.at = l]
<1>1. cli \in [CLIs -> Invocation] /\ l \in Places
  BY DEF TypeOK, Invocation, Places
<1>. HIDE DEF l
<1>2. /\ r \in Invocation /\ r.at = l /\ r.cmd = cli[k].cmd /\ r.id = cli[k].id /\ r.cur = c
      /\ r.todo = cli[k].todo \ {c} /\ r.pid = cli[k].pid
  BY <1>1 DEF Invocation
<1>3. cli' = [cli EXCEPT ![k] = r]
  BY DEF RefreshCheck, l
<1>. HIDE DEF r
<1>4. cli'[k] = r
  BY <1>1, <1>3
<1>. QED
  BY <1>1, <1>2, <1>3, <1>4 DEF Moves, l

LEMMA AutostartConfigured ==
    ASSUME TypeOK, NEW c \in Ids, ShouldAutostart(c)
    PROVE  c \in Detached /\ cfg[c].status # NoStatus
<1>1. CASE setting.policy = "never"
  BY <1>1 DEF ShouldAutostart
<1>2. CASE setting.policy \in {"always", "unless-stopped"}
  BY <1>2 DEF ShouldAutostart
<1>3. CASE setting.policy = "on-failure"
  BY <1>3 DEF ShouldAutostart, NoStatus
<1>. QED
  BY <1>1, <1>2, <1>3, SettingFacts DEF Policies

LEMMA AutostartMoves ==
    ASSUME TypeOK, NEW k \in CLIs, NEW c \in Ids, AutostartCheck(k, c)
    PROVE  /\ Moves(k, IF ShouldAutostart(c) THEN "launch" ELSE "auto")
           /\ cli'[k].cmd = cli[k].cmd /\ cli'[k].id = c /\ cli'[k].cur = cli[k].cur
           /\ cli'[k].todo = cli[k].todo \ {c} /\ cli'[k].pid = cli[k].pid
<1>. DEFINE l == IF ShouldAutostart(c) THEN "launch" ELSE "auto"
            r == [cli[k] EXCEPT !.id = c, !.todo = @ \ {c}, !.at = l]
<1>1. cli \in [CLIs -> Invocation] /\ l \in Places
  BY DEF TypeOK, Invocation, Places
<1>. HIDE DEF l
<1>2. /\ r \in Invocation /\ r.at = l /\ r.cmd = cli[k].cmd /\ r.id = c /\ r.cur = cli[k].cur
      /\ r.todo = cli[k].todo \ {c} /\ r.pid = cli[k].pid
  BY <1>1 DEF Invocation
<1>3. cli' = [cli EXCEPT ![k] = r]
  BY DEF AutostartCheck, l
<1>. HIDE DEF r
<1>4. cli'[k] = r
  BY <1>1, <1>3
<1>. QED
  BY <1>1, <1>2, <1>3, <1>4 DEF Moves, l

LEMMA ReadPidMoves ==
    ASSUME TypeOK, NEW k \in CLIs, StopReadPid(k)
    PROVE  /\ Moves(k, "signal")
           /\ cli'[k].cmd = cli[k].cmd /\ cli'[k].id = cli[k].id /\ cli'[k].cur = cli[k].cur
           /\ cli'[k].todo = cli[k].todo /\ cli'[k].pid = cfg[cli[k].id].pid
<1>. DEFINE p == cfg[cli[k].id].pid
            r == [cli[k] EXCEPT !.pid = p, !.at = "signal"]
<1>1. cli \in [CLIs -> Invocation] /\ "signal" \in Places
  BY DEF TypeOK, Invocation, Places
<1>2. p \in Pids
  BY <1>1 DEF TypeOK, Invocation
<1>. HIDE DEF p
<1>3. /\ r \in Invocation /\ r.at = "signal" /\ r.cmd = cli[k].cmd /\ r.id = cli[k].id
      /\ r.cur = cli[k].cur /\ r.todo = cli[k].todo /\ r.pid = p
  BY <1>1, <1>2 DEF Invocation
<1>4. cli' = [cli EXCEPT ![k] = r]
  BY DEF StopReadPid, p
<1>. HIDE DEF r
<1>5. cli'[k] = r
  BY <1>1, <1>4
<1>. QED
  BY <1>1, <1>3, <1>4, <1>5 DEF Moves, p

LEMMA IssueMoves ==
    ASSUME TypeOK, NEW k \in CLIs, NEW cmd \in AllCommands, NEW c \in Ids, Issue(k, cmd, c)
    PROVE  /\ Moves(k, CASE cmd \in Refreshing -> "scan"
                         [] cmd = "run" -> "launch"
                         [] cmd = "autostart" -> "auto")
           /\ cli'[k].cmd = cmd /\ cli'[k].id = c /\ cli'[k].cur = c /\ cli'[k].pid = 0
           /\ cli'[k].todo = IF cmd = "run" THEN {} ELSE {d \in Ids : dir[d]}
<1>. DEFINE l == CASE cmd \in Refreshing -> "scan"
                   [] cmd = "run" -> "launch"
                   [] cmd = "autostart" -> "auto"
            t == IF cmd = "run" THEN {} ELSE {d \in Ids : dir[d]}
            r == [at |-> l, cmd |-> cmd, id |-> c, cur |-> c, pid |-> 0, todo |-> t]
<1>1. /\ cli \in [CLIs -> Invocation] /\ cmd \in Commands /\ t \subseteq Ids /\ 0 \in Pids
      /\ cli' = [cli EXCEPT ![k] = r]
  BY ConstantFacts DEF TypeOK, Invocation, Issue
<1>2. l \in Places
  <2>1. CASE cmd \in Refreshing
    BY <2>1 DEF Places, Refreshing
  <2>2. CASE cmd = "run"
    BY <2>2 DEF Places, Refreshing
  <2>3. CASE cmd = "autostart"
    BY <2>3 DEF Places, Refreshing
  <2>. QED
    BY <2>1, <2>2, <2>3 DEF AllCommands, Refreshing
<1>. HIDE DEF l, t
<1>3. /\ r \in Invocation /\ r.at = l /\ r.cmd = cmd /\ r.id = c /\ r.cur = c
      /\ r.pid = 0 /\ r.todo = t
  BY <1>1, <1>2 DEF Invocation
<1>. HIDE DEF r
<1>4. cli'[k] = r
  BY <1>1
<1>. QED
  BY <1>1, <1>3, <1>4 DEF Moves, l, t

LEMMA FreshSession ==
    ASSUME TypeOK, NEW k \in CLIs, Launch(k)
    PROVE  spawned + 1 \in Sessions /\ spawned + 1 \in Pids
<1>1. /\ MaxSpawns \in Nat /\ spawned \in 0..MaxSpawns /\ setting.spawns \in 1..MaxSpawns
      /\ spawned < setting.spawns
  BY SettingFacts, ConstantFacts DEF TypeOK, Launch, Pids
<1>. QED
  BY <1>1 DEF Sessions, Pids

LEMMA LaunchMoves ==
    ASSUME TypeOK, NEW k \in CLIs, Launch(k), cli[k].id \in Detached
    PROVE  /\ Moves(k, "pidfile")
           /\ cli'[k].cmd = cli[k].cmd /\ cli'[k].id = cli[k].id /\ cli'[k].cur = cli[k].cur
           /\ cli'[k].todo = cli[k].todo /\ cli'[k].pid = spawned + 1
<1>. DEFINE p == spawned + 1
            r == [cli[k] EXCEPT !.at = "pidfile", !.pid = p]
<1>1. cli \in [CLIs -> Invocation] /\ "pidfile" \in Places
  BY DEF TypeOK, Invocation, Places
<1>2. p \in Pids
  BY FreshSession
<1>. HIDE DEF p
<1>3. /\ r \in Invocation /\ r.at = "pidfile" /\ r.cmd = cli[k].cmd /\ r.id = cli[k].id
      /\ r.cur = cli[k].cur /\ r.todo = cli[k].todo /\ r.pid = p
  BY <1>1, <1>2 DEF Invocation
<1>4. cli' = [cli EXCEPT ![k] = r]
  BY DEF Launch, p
<1>. HIDE DEF r
<1>5. cli'[k] = r
  BY <1>1, <1>4
<1>. QED
  BY <1>1, <1>3, <1>4, <1>5 DEF Moves, p

\* What becomes of the files of container c when its directory is removed.
Cleared(c) ==
    /\ dir' \in [Ids -> BOOLEAN] /\ cfg' \in [Ids -> Config] /\ pidfile' \in [Ids -> Pids]
    /\ \A d \in Ids : d # c => dir'[d] = dir[d] /\ cfg'[d] = cfg[d] /\ pidfile'[d] = pidfile[d]
    /\ cfg'[c] \in {cfg[c], NoCfg} /\ pidfile'[c] \in {pidfile[c], 0}
    /\ IF mounts[c] = 0 THEN ~dir'[c] /\ cfg'[c] = NoCfg /\ burnt' = burnt
                        ELSE dir'[c] = dir[c] /\ burnt' = burnt \cup {c}

Removes(c) == IF dir[c] THEN Cleared(c) ELSE UNCHANGED <<dir, cfg, pidfile, burnt>>

LEMMA RemoveAllClears ==
    ASSUME TypeOK, NEW c \in Ids, RemoveAll(c)
    PROVE  Cleared(c)
<1>1. /\ dir \in [Ids -> BOOLEAN] /\ cfg \in [Ids -> Config] /\ pidfile \in [Ids -> Pids]
      /\ NoCfg \in Config /\ 0 \in Pids
  BY ConstantFacts DEF TypeOK, Config, NoCfg
<1>2. CASE mounts[c] = 0
  BY <1>1, <1>2 DEF RemoveAll, Cleared
<1>3. CASE mounts[c] # 0
  BY <1>1, <1>3 DEF RemoveAll, Cleared
<1>. QED
  BY <1>2, <1>3

LEMMA ReportWrites ==
    ASSUME TypeOK, NEW s \in Sessions, ReportFinal(s)
    PROVE  /\ cfg' \in [Ids -> Config]
           /\ \A d \in Ids : d # sid[s] => cfg'[d] = cfg[d]
           /\ cfg'[sid[s]].status \in Final
           /\ cfg'[sid[s]].pid = s /\ cfg'[sid[s]].boot = boot
<1>. DEFINE f == FinalStatus(s)
            r == [status |-> f, pid |-> s, boot |-> boot]
<1>1. cfg \in [Ids -> Config] /\ sid[s] \in Ids /\ s \in Pids /\ boot \in 0..MaxBoots
  BY ConstantFacts DEF TypeOK, Config
<1>2. f \in Final
  BY DEF FinalStatus, Final
<1>3. Final \subseteq Statuses
  BY DEF Final, Statuses
<1>. HIDE DEF f
<1>4. r \in Config /\ r.status = f /\ r.pid = s /\ r.boot = boot
  BY <1>1, <1>2, <1>3 DEF Config
<1>5. cfg' = [cfg EXCEPT ![sid[s]] = r]
  BY DEF ReportFinal, f
<1>. HIDE DEF r
<1>6. cfg'[sid[s]] = r
  BY <1>1, <1>5
<1>. QED
  BY <1>1, <1>2, <1>4, <1>5, <1>6

LEMMA ActiveWrites ==
    ASSUME TypeOK, NEW s \in Sessions, WriteActive(s), dir[sid[s]]
    PROVE  /\ cfg' \in [Ids -> Config]
           /\ \A d \in Ids : d # sid[s] => cfg'[d] = cfg[d]
           /\ cfg'[sid[s]].status = "Active" /\ cfg'[sid[s]].pid = s /\ cfg'[sid[s]].boot = boot
<1>. DEFINE r == [status |-> "Active", pid |-> s, boot |-> boot]
<1>1. /\ cfg \in [Ids -> Config] /\ sid[s] \in Ids /\ s \in Pids /\ boot \in 0..MaxBoots
      /\ "Active" \in Statuses
  BY ConstantFacts DEF TypeOK, Config, Statuses
<1>2. r \in Config /\ r.status = "Active" /\ r.pid = s /\ r.boot = boot
  BY <1>1 DEF Config
<1>3. cfg' = [cfg EXCEPT ![sid[s]] = r]
  BY DEF WriteActive
<1>. HIDE DEF r
<1>. QED
  BY <1>1, <1>2, <1>3

LEMMA MarkWrites ==
    ASSUME TypeOK, NEW k \in CLIs, RefreshMark(k), dir[cli[k].cur]
    PROVE  /\ cfg' \in [Ids -> Config]
           /\ \A d \in Ids : d # cli[k].cur => cfg'[d] = cfg[d]
           /\ cfg'[cli[k].cur].status = "Exited" /\ cfg'[cli[k].cur].pid = 0
           /\ cfg'[cli[k].cur].boot = 0
<1>. DEFINE r == [status |-> "Exited", pid |-> 0, boot |-> 0]
            c == cli[k].cur
<1>1. /\ cfg \in [Ids -> Config] /\ c \in Ids /\ 0 \in Pids /\ 0 \in 0..MaxBoots
      /\ "Exited" \in Statuses
  BY ConstantFacts DEF TypeOK, Config, Statuses
<1>2. r \in Config /\ r.status = "Exited" /\ r.pid = 0 /\ r.boot = 0
  BY <1>1 DEF Config
<1>3. cfg' = [cfg EXCEPT ![c] = r]
  BY DEF RefreshMark
<1>. HIDE DEF r, c
<1>4. cfg'[c] = r /\ cfg' \in [Ids -> Config]
  BY <1>1, <1>2, <1>3
<1>. QED
  BY <1>1, <1>2, <1>3, <1>4 DEF c

LEMMA DetachCounts ==
    ASSUME TypeOK, NEW c \in Ids, Detach(c)
    PROVE  /\ mounts' \in [Ids -> Nat]
           /\ \A d \in Ids : d # c => mounts'[d] = mounts[d]
           /\ mounts'[c] = IF mounts[c] = 0 THEN 0 ELSE mounts[c] - 1
<1>1. mounts \in [Ids -> Nat] /\ mounts[c] \in Nat
  BY DEF TypeOK
<1>. QED
  BY <1>1 DEF Detach


-----------------------------------------------------------------------------
(* What each step does, element by element.                                *)

\* No supervisor but s, and no init but its own, takes the step.
Only(s) == \A u \in Sessions : u # s => stage'[u] = stage[u] /\ proc'[u] = proc[u]

(* Every step keeps the types.                                            *)
LEMMA TypeStep ==
    ASSUME TypeOK, [Next]_vars
    PROVE  TypeOK'
<1>1. ASSUME NEW s \in Sessions, Mount(s) PROVE TypeOK'
  <2>1. dir' \in [Ids -> BOOLEAN]
    BY <1>1 DEF Mount, TypeOK
  <2>2. mounts' \in [Ids -> Nat]
    BY <1>1 DEF Mount, TypeOK
  <2>3. stage' \in [Sessions -> Stages]
    BY <1>1 DEF Mount, TypeOK, To, Stages
  <2>. QED
    BY <1>1, <2>1, <2>2, <2>3
    DEF Mount, TypeOK, Invocation, Config, Procs, Commands, supervisors, files, kernel
<1>2. ASSUME NEW s \in Sessions, SetupFails(s) PROVE TypeOK'
  <2>1. dir' \in [Ids -> BOOLEAN]
    BY <1>2 DEF SetupFails, TypeOK
  <2>2. mounts' \in [Ids -> Nat]
    <3>1. mounts' = mounts \/ mounts' = [mounts EXCEPT ![sid[s]] = @ + 1]
      BY <1>2 DEF SetupFails
    <3>2. mounts \in [Ids -> Nat]
      BY DEF TypeOK
    <3>. QED
      BY <3>1, <3>2
  <2>3. cgroup' \in [Ids -> BOOLEAN]
    <3>1. cgroup' = cgroup \/ cgroup' = [cgroup EXCEPT ![sid[s]] = TRUE]
      BY <1>2 DEF SetupFails
    <3>2. cgroup \in [Ids -> BOOLEAN]
      BY DEF TypeOK
    <3>. QED
      BY <3>1, <3>2
  <2>4. stage' \in [Sessions -> Stages] /\ proc' \in [Sessions -> Procs]
    BY <1>2 DEF SetupFails, TypeOK, Dies, Orphan, Stages, Ended, Procs
  <2>. QED
    BY <1>2, <2>1, <2>2, <2>3, <2>4
    DEF SetupFails, TypeOK, Invocation, Config, Procs, Commands, supervisors, files, kernel
<1>3. ASSUME NEW s \in Sessions, Clone(s) PROVE TypeOK'
  BY <1>3 DEF Clone, To, TypeOK, supervisors, files, kernel, Stages, Ended, Codes, Commands
<1>4. ASSUME NEW s \in Sessions, WriteActive(s) PROVE TypeOK'
  <2>1. cfg' \in [Ids -> Config]
    BY <1>4, ActiveWrites DEF WriteActive, TypeOK, Config
  <2>2. stage' \in [Sessions -> Stages] /\ proc' \in [Sessions -> Procs]
    BY <1>4 DEF WriteActive, TypeOK, To, Dies, Orphan, Stages, Ended, Procs
  <2>. QED
    BY <1>4, <2>1, <2>2
    DEF WriteActive, TypeOK, Invocation, Config, Procs, Commands, supervisors, files, kernel
<1>5. ASSUME NEW s \in Sessions, WriteGo(s) PROVE TypeOK'
  BY <1>5 DEF WriteGo, To, TypeOK, supervisors, files, kernel, Stages, Ended, Codes, Commands
<1>6. ASSUME NEW s \in Sessions, Connect(s) PROVE TypeOK'
  BY <1>6
  DEF Connect, To, Dies, Orphan, TypeOK, supervisors, files, kernel, Stages, Ended, Codes,
      Commands
<1>7. ASSUME NEW s \in Sessions, NEW x \in Codes, Exit(s, x) PROVE TypeOK'
  BY <1>7 DEF Exit, TypeOK, supervisors, files, kernel, Stages, Ended, Codes, Commands
<1>8. ASSUME NEW s \in Sessions, Reap(s) PROVE TypeOK'
  BY <1>8 DEF Reap, To, TypeOK, supervisors, files, kernel, Stages, Ended, Codes, Commands
<1>9. ASSUME NEW s \in Sessions, ReleaseFails(s) PROVE TypeOK'
  BY <1>9
  DEF ReleaseFails, Dies, Orphan, TypeOK, supervisors, files, kernel, Stages, Ended, Codes,
      Commands
<1>10. ASSUME NEW s \in Sessions, RemoveCgroup(s) PROVE TypeOK'
  BY <1>10
  DEF RemoveCgroup, To, TypeOK, supervisors, files, kernel, Stages, Ended, Codes, Commands
<1>11. ASSUME NEW s \in Sessions, Unmount(s) PROVE TypeOK'
  <2>1. mounts' \in [Ids -> Nat]
    BY <1>11, DetachCounts DEF Unmount, TypeOK
  <2>2. stage' \in [Sessions -> Stages]
    BY <1>11 DEF Unmount, TypeOK, To, Stages
  <2>. QED
    BY <1>11, <2>1, <2>2
    DEF Unmount, TypeOK, Invocation, Config, Procs, Commands, supervisors, files, kernel
<1>12. ASSUME NEW s \in Sessions, DetachedRemovesDir(s) PROVE TypeOK'
  <2>1. /\ dir' \in [Ids -> BOOLEAN]
        /\ cfg' \in [Ids -> Config]
        /\ pidfile' \in [Ids -> Pids]
        /\ burnt' \subseteq Ids
    BY <1>12, RemoveAllClears DEF DetachedRemovesDir, TypeOK, Cleared, Config
  <2>2. stage' \in [Sessions -> Stages]
    BY <1>12 DEF DetachedRemovesDir, TypeOK, To, Stages
  <2>. QED
    BY <1>12, <2>1, <2>2
    DEF DetachedRemovesDir, TypeOK, Invocation, Config, Procs, Commands, supervisors, files,
        kernel
<1>13. ASSUME NEW s \in Sessions, WriteFinal(s) PROVE TypeOK'
  <2>1. cfg' \in [Ids -> Config]
    BY <1>13, ReportWrites DEF WriteFinal, TypeOK, Config
  <2>2. stage' \in [Sessions -> Stages] /\ proc' \in [Sessions -> Procs]
    BY <1>13 DEF WriteFinal, TypeOK, To, Dies, Orphan, Stages, Ended, Procs
  <2>. QED
    BY <1>13, <2>1, <2>2
    DEF WriteFinal, TypeOK, Invocation, Config, Procs, Commands, supervisors, files, kernel
<1>14. ASSUME NEW s \in Sessions, KillPidFile(s) PROVE TypeOK'
  BY <1>14
  DEF KillPidFile, Orphan, TypeOK, supervisors, files, kernel, Stages, Ended, Codes, Commands
<1>15. ASSUME NEW s \in Sessions, ForegroundEnds(s) PROVE TypeOK'
  <2>1. /\ dir' \in [Ids -> BOOLEAN]
        /\ cfg' \in [Ids -> Config]
        /\ pidfile' \in [Ids -> Pids]
        /\ burnt' \subseteq Ids
    BY <1>15, RemoveAllClears DEF ForegroundEnds, TypeOK, Cleared, Config
  <2>2. stage' \in [Sessions -> Stages]
    BY <1>15 DEF ForegroundEnds, TypeOK, To, Stages, Ended
  <2>. QED
    BY <1>15, <2>1, <2>2
    DEF ForegroundEnds, TypeOK, Invocation, Config, Procs, Commands, supervisors, files, kernel
<1>16. ASSUME NEW s \in Sessions, SupervisorKilled(s) PROVE TypeOK'
  BY <1>16
  DEF SupervisorKilled, Dies, Orphan, TypeOK, supervisors, files, kernel, Stages, Ended, Codes,
      Commands
<1>17. ASSUME NEW k \in CLIs, NEW c \in Ids, RefreshCheck(k, c) PROVE TypeOK'
  <2>1. cli' \in [CLIs -> Invocation]
    BY <1>17, CheckMoves DEF RefreshCheck, Moves
  <2>. QED
    BY <1>17, <2>1
    DEF RefreshCheck, TypeOK, Invocation, Config, Procs, Commands, supervisors, files, kernel
<1>18. ASSUME NEW k \in CLIs, RefreshMark(k) PROVE TypeOK'
  <2>1. cli' \in [CLIs -> Invocation]
    BY <1>18, BecomeMoves, EndMoves DEF RefreshMark, Moves, Places
  <2>2. cfg' \in [Ids -> Config]
    BY <1>18, MarkWrites DEF RefreshMark, TypeOK, Config
  <2>. QED
    BY <1>18, <2>1, <2>2
    DEF RefreshMark, TypeOK, Invocation, Config, Procs, Commands, supervisors, files, kernel
<1>19. ASSUME NEW k \in CLIs, RefreshDetach(k) PROVE TypeOK'
  <2>1. cli' \in [CLIs -> Invocation]
    BY <1>19, BecomeMoves DEF RefreshDetach, Moves, Places
  <2>2. mounts' \in [Ids -> Nat]
    BY <1>19, DetachCounts DEF RefreshDetach, TypeOK
  <2>. QED
    BY <1>19, <2>1, <2>2
    DEF RefreshDetach, TypeOK, Invocation, Config, Procs, Commands, supervisors, files, kernel
<1>20. ASSUME NEW k \in CLIs, RefreshDone(k) PROVE TypeOK'
  <2>1. cli' \in [CLIs -> Invocation]
    BY <1>20, BecomeMoves, EndMoves DEF RefreshDone, Moves, Places
  <2>. QED
    BY <1>20, <2>1
    DEF RefreshDone, TypeOK, Invocation, Config, Procs, Commands, supervisors, files, kernel
<1>21. ASSUME NEW k \in CLIs, StopReadPid(k) PROVE TypeOK'
  <2>1. cli' \in [CLIs -> Invocation]
    BY <1>21, ReadPidMoves DEF StopReadPid, Moves
  <2>. QED
    BY <1>21, <2>1
    DEF StopReadPid, TypeOK, Invocation, Config, Procs, Commands, supervisors, files, kernel
<1>22. ASSUME NEW k \in CLIs, StopSignal(k) PROVE TypeOK'
  <2>1. cli' \in [CLIs -> Invocation]
    BY <1>22, EndMoves DEF StopSignal, Moves
  <2>. QED
    BY <1>22, <2>1
    DEF StopSignal, TypeOK, Invocation, Config, Procs, Commands, supervisors, files, kernel
<1>23. ASSUME NEW k \in CLIs, RmCheck(k) PROVE TypeOK'
  <2>1. cli' \in [CLIs -> Invocation]
    BY <1>23, BecomeMoves, EndMoves DEF RmCheck, Moves, Places
  <2>. QED
    BY <1>23, <2>1
    DEF RmCheck, TypeOK, Invocation, Config, Procs, Commands, supervisors, files, kernel
<1>24. ASSUME NEW k \in CLIs, RmRemove(k) PROVE TypeOK'
  <2>1. cli' \in [CLIs -> Invocation]
    BY <1>24, EndMoves DEF RmRemove, Moves
  <2>2. /\ dir' \in [Ids -> BOOLEAN]
        /\ cfg' \in [Ids -> Config]
        /\ pidfile' \in [Ids -> Pids]
        /\ burnt' \subseteq Ids
    BY <1>24, RemoveAllClears DEF RmRemove, TypeOK, Cleared, Config
  <2>. QED
    BY <1>24, <2>1, <2>2
    DEF RmRemove, TypeOK, Invocation, Config, Procs, Commands, supervisors, files, kernel
<1>25. ASSUME NEW k \in CLIs, StartCheck(k) PROVE TypeOK'
  <2>1. cli' \in [CLIs -> Invocation]
    BY <1>25, BecomeMoves, EndMoves DEF StartCheck, Moves, Places
  <2>. QED
    BY <1>25, <2>1
    DEF StartCheck, TypeOK, Invocation, Config, Procs, Commands, supervisors, files, kernel
<1>26. ASSUME NEW k \in CLIs, RestartSignal(k) PROVE TypeOK'
  <2>1. cli' \in [CLIs -> Invocation]
    BY <1>26, BecomeMoves, EndMoves DEF RestartSignal, Moves, Places
  <2>. QED
    BY <1>26, <2>1
    DEF RestartSignal, TypeOK, Invocation, Config, Procs, Commands, supervisors, files, kernel
<1>27. ASSUME NEW k \in CLIs, NEW c \in Ids, AutostartCheck(k, c) PROVE TypeOK'
  <2>1. cli' \in [CLIs -> Invocation]
    BY <1>27, AutostartMoves DEF AutostartCheck, Moves
  <2>. QED
    BY <1>27, <2>1
    DEF AutostartCheck, TypeOK, Invocation, Config, Procs, Commands, supervisors, files, kernel
<1>28. ASSUME NEW k \in CLIs, AutostartDone(k) PROVE TypeOK'
  <2>1. cli' \in [CLIs -> Invocation]
    BY <1>28, EndMoves DEF AutostartDone, Moves
  <2>. QED
    BY <1>28, <2>1
    DEF AutostartDone, TypeOK, Invocation, Config, Procs, Commands, supervisors, files, kernel
<1>29. ASSUME NEW k \in CLIs, Launch(k) PROVE TypeOK'
  <2>1. cli' \in [CLIs -> Invocation]
    BY <1>29, LaunchMoves, LaunchedMoves DEF Launch, Moves
  <2>2. spawned' \in Pids /\ spawned' \in Sessions
    BY <1>29, FreshSession DEF Launch
  <2>3. /\ sid' \in [Sessions -> Ids]
        /\ stage' \in [Sessions -> Stages]
        /\ dir' \in [Ids -> BOOLEAN]
    BY <1>29, <2>2 DEF Launch, TypeOK, Stages
  <2>. QED
    BY <1>29, <2>1, <2>2, <2>3
    DEF Launch, TypeOK, Invocation, Config, Procs, Commands, supervisors, files, kernel
<1>30. ASSUME NEW k \in CLIs, LaunchFails(k) PROVE TypeOK'
  <2>1. cli' \in [CLIs -> Invocation]
    BY <1>30, LaunchedMoves DEF LaunchFails, Moves
  <2>. QED
    BY <1>30, <2>1
    DEF LaunchFails, TypeOK, Invocation, Config, Procs, Commands, supervisors, files, kernel
<1>31. ASSUME NEW k \in CLIs, WritePidFile(k) PROVE TypeOK'
  <2>1. cli' \in [CLIs -> Invocation]
    BY <1>31, LaunchedMoves, EndMoves DEF WritePidFile, Moves
  <2>2. pidfile' \in [Ids -> Pids]
    BY <1>31 DEF WritePidFile, TypeOK
  <2>. QED
    BY <1>31, <2>1, <2>2
    DEF WritePidFile, TypeOK, Invocation, Config, Procs, Commands, supervisors, files, kernel
<1>32. ASSUME NEW k \in CLIs, CliKilled(k) PROVE TypeOK'
  <2>1. cli' \in [CLIs -> Invocation]
    BY <1>32, EndMoves DEF CliKilled, Moves
  <2>. QED
    BY <1>32, <2>1
    DEF CliKilled, TypeOK, Invocation, Config, Procs, Commands, supervisors, files, kernel
<1>33. ASSUME NEW k \in CLIs, NEW cmd \in AllCommands, NEW c \in Ids, Issue(k, cmd, c) PROVE TypeOK'
  <2>1. cli' \in [CLIs -> Invocation]
    BY <1>33, IssueMoves DEF Issue, Moves
  <2>2. born' \subseteq Ids
    BY <1>33 DEF Issue, TypeOK
  <2>. QED
    BY <1>33, <2>1, <2>2
    DEF Issue, TypeOK, Invocation, Config, Procs, Commands, supervisors, files, kernel
<1>34. ASSUME Reboot PROVE TypeOK'
  <2>1. cli' \in [CLIs -> Invocation]
    BY <1>34, ConstantFacts DEF Reboot, Idle, Invocation, Places
  <2>2. boot' \in 1..MaxBoots
    BY <1>34, ConstantFacts DEF Reboot, TypeOK
  <2>3. /\ stage' \in [Sessions -> Stages]
        /\ proc' \in [Sessions -> Procs]
        /\ mounts' \in [Ids -> Nat]
        /\ cgroup' \in [Ids -> BOOLEAN]
    BY <1>34 DEF Reboot, TypeOK, Stages, Ended, Procs
  <2>. QED
    BY <1>34, <2>1, <2>2, <2>3
    DEF Reboot, TypeOK, Invocation, Config, Procs, Commands, supervisors, files, kernel
<1>35. CASE UNCHANGED vars
  BY <1>35 DEF TypeOK, vars, supervisors, files, kernel, Commands
<1>. QED
  BY <1>1, <1>2, <1>3, <1>4, <1>5, <1>6, <1>7, <1>8, <1>9, <1>10, <1>11, <1>12, <1>13, <1>14,
     <1>15, <1>16, <1>17, <1>18, <1>19, <1>20, <1>21, <1>22, <1>23, <1>24, <1>25, <1>26, <1>27,
     <1>28, <1>29, <1>30, <1>31, <1>32, <1>33, <1>34, <1>35
  DEF Next, SupervisorStep, CommandStep, Fault

LEMMA MountDoes ==
    ASSUME TypeOK, NEW s \in Sessions, Mount(s)
    PROVE  /\ stage[s] = "starting" /\ stage'[s] = "mounted"
           /\ Only(s)
           /\ dir'[sid[s]] /\ \A c \in Ids : c # sid[s] => dir'[c] = dir[c]
           /\ \A c \in Ids : mounts'[c] = IF c = sid[s] THEN mounts[c] + 1 ELSE mounts[c]
           /\ UNCHANGED <<setting, boot, cgroup, burnt, spawned, sid, proc, code, cfg,
                          pidfile, born, cli>>
<1>1. stage[s] = "starting" /\ stage'[s] = "mounted"
  BY DEF Mount, To, TypeOK
<1>2. Only(s)
  BY DEF Mount, Only, To, TypeOK
<1>3. dir'[sid[s]] /\ \A c \in Ids : c # sid[s] => dir'[c] = dir[c]
  BY DEF Mount, TypeOK
<1>4. \A c \in Ids : mounts'[c] = IF c = sid[s] THEN mounts[c] + 1 ELSE mounts[c]
  BY DEF Mount, TypeOK
<1>5. UNCHANGED <<setting, boot, cgroup, burnt, spawned, sid, proc, code, cfg, pidfile, born,
                  cli>>
  BY DEF Mount, supervisors, files, kernel
<1>. QED
  BY <1>1, <1>2, <1>3, <1>4, <1>5

LEMMA SetupFailsDoes ==
    ASSUME TypeOK, NEW s \in Sessions, SetupFails(s)
    PROVE  /\ "setup" \in Faults /\ stage[s] \in {"starting", "mounted"}
           /\ stage'[s] = "dead" /\ proc'[s] = IF proc[s] = "zombie" THEN "gone" ELSE proc[s]
           /\ Only(s)
           /\ \A c \in Ids : dir[c] => dir'[c]
           /\ \A c \in Ids : c # sid[s] => mounts'[c] = mounts[c] /\ cgroup'[c] = cgroup[c]
           /\ UNCHANGED <<setting, boot, burnt, spawned, sid, code, cfg, pidfile, born, cli>>
<1>1. "setup" \in Faults /\ stage[s] \in {"starting", "mounted"}
  BY DEF SetupFails
<1>2. stage'[s] = "dead" /\ proc'[s] = IF proc[s] = "zombie" THEN "gone" ELSE proc[s]
  BY DEF SetupFails, Dies, Orphan, TypeOK
<1>3. Only(s)
  BY DEF SetupFails, Only, Dies, TypeOK
<1>4. \A c \in Ids : dir[c] => dir'[c]
  BY DEF SetupFails, TypeOK
<1>5. \A c \in Ids : c # sid[s] => mounts'[c] = mounts[c] /\ cgroup'[c] = cgroup[c]
  BY DEF SetupFails, TypeOK
<1>6. UNCHANGED <<setting, boot, burnt, spawned, sid, code, cfg, pidfile, born, cli>>
  BY DEF SetupFails, supervisors, files, kernel
<1>. QED
  BY <1>1, <1>2, <1>3, <1>4, <1>5, <1>6

LEMMA CloneDoes ==
    ASSUME TypeOK, NEW s \in Sessions, Clone(s)
    PROVE  /\ stage[s] = "mounted" /\ stage'[s] = "cloned"
           /\ proc'[s] = IF sid[s] \in Detached THEN "blocked" ELSE "running"
           /\ Only(s)
           /\ cgroup'[sid[s]] /\ \A c \in Ids : c # sid[s] => cgroup'[c] = cgroup[c]
           /\ UNCHANGED <<setting, boot, mounts, burnt, spawned, sid, code, dir, cfg,
                          pidfile, born, cli>>
<1>1. stage[s] = "mounted" /\ stage'[s] = "cloned"
  BY DEF Clone, To, TypeOK
<1>2. proc'[s] = IF sid[s] \in Detached THEN "blocked" ELSE "running"
  BY DEF Clone, TypeOK
<1>3. Only(s)
  BY DEF Clone, Only, To, TypeOK
<1>4. cgroup'[sid[s]] /\ \A c \in Ids : c # sid[s] => cgroup'[c] = cgroup[c]
  BY DEF Clone, TypeOK
<1>5. UNCHANGED <<setting, boot, mounts, burnt, spawned, sid, code, dir, cfg, pidfile, born, cli>>
  BY DEF Clone, supervisors, files, kernel
<1>. QED
  BY <1>1, <1>2, <1>3, <1>4, <1>5

LEMMA WriteActiveDoes ==
    ASSUME TypeOK, NEW s \in Sessions, WriteActive(s)
    PROVE  /\ stage[s] = "cloned"
           /\ Only(s)
           /\ \/ /\ dir[sid[s]] /\ proc'[s] = proc[s]
                 /\ stage'[s] = IF sid[s] \in Detached THEN "configured" ELSE "released"
                 /\ cfg'[sid[s]].status = "Active"
                 /\ cfg'[sid[s]].pid = s /\ cfg'[sid[s]].boot = boot
              \/ /\ ~dir[sid[s]] /\ cfg' = cfg /\ stage'[s] = "dead"
                 /\ proc'[s] = IF proc[s] = "zombie" THEN "gone" ELSE proc[s]
           /\ \A d \in Ids : d # sid[s] => cfg'[d] = cfg[d]
           /\ UNCHANGED <<setting, boot, mounts, cgroup, burnt, spawned, sid, code, dir,
                          pidfile, born, cli>>
<1>1. stage[s] = "cloned"
  BY DEF WriteActive
<1>2. Only(s)
  BY DEF WriteActive, Only, To, Dies, Orphan, TypeOK
<1>3. \/ /\ dir[sid[s]] /\ proc'[s] = proc[s]
         /\ stage'[s] = IF sid[s] \in Detached THEN "configured" ELSE "released"
         /\ cfg'[sid[s]].status = "Active" /\ cfg'[sid[s]].pid = s /\ cfg'[sid[s]].boot = boot
      \/ /\ ~dir[sid[s]] /\ cfg' = cfg /\ stage'[s] = "dead"
         /\ proc'[s] = IF proc[s] = "zombie" THEN "gone" ELSE proc[s]
  BY ActiveWrites DEF WriteActive, To, Dies, Orphan, TypeOK
<1>4. \A d \in Ids : d # sid[s] => cfg'[d] = cfg[d]
  BY ActiveWrites DEF WriteActive
<1>5. UNCHANGED <<setting, boot, mounts, cgroup, burnt, spawned, sid, code, dir, pidfile,
                  born, cli>>
  BY DEF WriteActive, supervisors, files, kernel
<1>. QED
  BY <1>1, <1>2, <1>3, <1>4, <1>5

LEMMA WriteGoDoes ==
    ASSUME TypeOK, NEW s \in Sessions, WriteGo(s)
    PROVE  /\ stage[s] = "configured" /\ stage'[s] = "released"
           /\ proc'[s] = "running"
           /\ Only(s)
           /\ UNCHANGED <<setting, boot, mounts, cgroup, burnt, spawned, sid, code, dir, cfg,
                          pidfile, born, cli>>
<1>1. stage[s] = "configured" /\ stage'[s] = "released"
  BY DEF WriteGo, To, TypeOK
<1>2. proc'[s] = "running"
  BY DEF WriteGo, TypeOK
<1>3. Only(s)
  BY DEF WriteGo, Only, To, TypeOK
<1>4. UNCHANGED <<setting, boot, mounts, cgroup, burnt, spawned, sid, code, dir, cfg,
                  pidfile, born, cli>>
  BY DEF WriteGo, supervisors, files, kernel
<1>. QED
  BY <1>1, <1>2, <1>3, <1>4

LEMMA ConnectDoes ==
    ASSUME TypeOK, NEW s \in Sessions, Connect(s)
    PROVE  /\ stage[s] = "released"
           /\ \/ stage'[s] = "waiting" /\ proc'[s] = proc[s]
              \/ /\ sid[s] \in Detached /\ stage'[s] = "dead"
                 /\ proc'[s] = IF proc[s] = "zombie" THEN "gone" ELSE proc[s]
           /\ Only(s)
           /\ UNCHANGED <<setting, boot, mounts, cgroup, burnt, spawned, sid, code, dir, cfg,
                          pidfile, born, cli>>
<1>1. stage[s] = "released"
  BY DEF Connect
<1>2. \/ stage'[s] = "waiting" /\ proc'[s] = proc[s]
      \/ /\ sid[s] \in Detached /\ stage'[s] = "dead"
         /\ proc'[s] = IF proc[s] = "zombie" THEN "gone" ELSE proc[s]
  BY DEF Connect, To, Dies, Orphan, TypeOK
<1>3. Only(s)
  BY DEF Connect, Only, To, Dies, TypeOK
<1>4. UNCHANGED <<setting, boot, mounts, cgroup, burnt, spawned, sid, code, dir, cfg,
                  pidfile, born, cli>>
  BY DEF Connect, supervisors, files, kernel
<1>. QED
  BY <1>1, <1>2, <1>3, <1>4

LEMMA ExitDoes ==
    ASSUME TypeOK, NEW s \in Sessions, NEW x \in Codes, Exit(s, x)
    PROVE  /\ proc[s] = "running"
           /\ proc'[s] = IF stage[s] \in Ended THEN "gone" ELSE "zombie"
           /\ Only(s)
           /\ UNCHANGED <<setting, boot, mounts, cgroup, burnt, spawned, sid, stage, dir,
                          cfg, pidfile, born, cli>>
<1>1. proc[s] = "running"
  BY DEF Exit
<1>2. proc'[s] = IF stage[s] \in Ended THEN "gone" ELSE "zombie"
  BY DEF Exit, TypeOK
<1>3. Only(s)
  BY DEF Exit, Only, TypeOK
<1>4. UNCHANGED <<setting, boot, mounts, cgroup, burnt, spawned, sid, stage, dir, cfg,
                  pidfile, born, cli>>
  BY DEF Exit, supervisors, files, kernel
<1>. QED
  BY <1>1, <1>2, <1>3, <1>4

LEMMA ReapDoes ==
    ASSUME TypeOK, NEW s \in Sessions, Reap(s)
    PROVE  /\ stage[s] = "waiting" /\ stage'[s] = "reaped"
           /\ proc[s] = "zombie" /\ proc'[s] = "gone"
           /\ Only(s)
           /\ UNCHANGED <<setting, boot, mounts, cgroup, burnt, spawned, sid, code, dir, cfg,
                          pidfile, born, cli>>
<1>1. stage[s] = "waiting" /\ stage'[s] = "reaped"
  BY DEF Reap, To, TypeOK
<1>2. proc[s] = "zombie" /\ proc'[s] = "gone"
  BY DEF Reap, TypeOK
<1>3. Only(s)
  BY DEF Reap, Only, To, TypeOK
<1>4. UNCHANGED <<setting, boot, mounts, cgroup, burnt, spawned, sid, code, dir, cfg,
                  pidfile, born, cli>>
  BY DEF Reap, supervisors, files, kernel
<1>. QED
  BY <1>1, <1>2, <1>3, <1>4

LEMMA ReleaseFailsDoes ==
    ASSUME TypeOK, NEW s \in Sessions, ReleaseFails(s)
    PROVE  /\ stage[s] = "reaped" /\ stage'[s] = "dead"
           /\ sid[s] \notin Detached /\ proc'[s] = IF proc[s] = "zombie" THEN "gone" ELSE proc[s]
           /\ Only(s)
           /\ UNCHANGED <<setting, boot, mounts, cgroup, burnt, spawned, sid, code, dir, cfg,
                          pidfile, born, cli>>
<1>1. stage[s] = "reaped" /\ stage'[s] = "dead"
  BY DEF ReleaseFails, Dies, Orphan, TypeOK
<1>2. sid[s] \notin Detached /\ proc'[s] = IF proc[s] = "zombie" THEN "gone" ELSE proc[s]
  BY DEF ReleaseFails, Dies, Orphan, TypeOK
<1>3. Only(s)
  BY DEF ReleaseFails, Only, Dies, TypeOK
<1>4. UNCHANGED <<setting, boot, mounts, cgroup, burnt, spawned, sid, code, dir, cfg,
                  pidfile, born, cli>>
  BY DEF ReleaseFails, supervisors, files, kernel
<1>. QED
  BY <1>1, <1>2, <1>3, <1>4

LEMMA RemoveCgroupDoes ==
    ASSUME TypeOK, NEW s \in Sessions, RemoveCgroup(s)
    PROVE  /\ stage[s] = "reaped" /\ stage'[s] = "uncaged"
           /\ Only(s)
           /\ \A c \in Ids : cgroup'[c] => cgroup[c] /\ (c = sid[s] => Running(c))
           /\ UNCHANGED <<setting, boot, mounts, burnt, spawned, sid, proc, code, dir, cfg,
                          pidfile, born, cli>>
<1>1. stage[s] = "reaped" /\ stage'[s] = "uncaged"
  BY DEF RemoveCgroup, To, TypeOK
<1>2. Only(s)
  BY DEF RemoveCgroup, Only, To, TypeOK
<1>3. \A c \in Ids : cgroup'[c] => cgroup[c] /\ (c = sid[s] => Running(c))
  BY DEF RemoveCgroup, TypeOK
<1>4. UNCHANGED <<setting, boot, mounts, burnt, spawned, sid, proc, code, dir, cfg, pidfile,
                  born, cli>>
  BY DEF RemoveCgroup, supervisors, files, kernel
<1>. QED
  BY <1>1, <1>2, <1>3, <1>4

LEMMA UnmountDoes ==
    ASSUME TypeOK, NEW s \in Sessions, Unmount(s)
    PROVE  /\ stage[s] = "uncaged" /\ stage'[s] = "unmounted"
           /\ Only(s)
           /\ \A c \in Ids : c # sid[s] => mounts'[c] = mounts[c]
           /\ mounts'[sid[s]] = IF mounts[sid[s]] = 0 THEN 0 ELSE mounts[sid[s]] - 1
           /\ UNCHANGED <<setting, boot, cgroup, burnt, spawned, sid, proc, code, dir, cfg,
                          pidfile, born, cli>>
<1>1. stage[s] = "uncaged" /\ stage'[s] = "unmounted"
  BY DEF Unmount, To, TypeOK
<1>2. Only(s)
  BY DEF Unmount, Only, To, TypeOK
<1>3. \A c \in Ids : c # sid[s] => mounts'[c] = mounts[c]
  BY DetachCounts DEF Unmount, TypeOK
<1>4. mounts'[sid[s]] = IF mounts[sid[s]] = 0 THEN 0 ELSE mounts[sid[s]] - 1
  BY DetachCounts DEF Unmount, TypeOK
<1>5. UNCHANGED <<setting, boot, cgroup, burnt, spawned, sid, proc, code, dir, cfg, pidfile,
                  born, cli>>
  BY DEF Unmount, supervisors, files, kernel
<1>. QED
  BY <1>1, <1>2, <1>3, <1>4, <1>5

LEMMA DetachedRemovesDirDoes ==
    ASSUME TypeOK, NEW s \in Sessions, DetachedRemovesDir(s)
    PROVE  /\ stage[s] = "unmounted" /\ stage'[s] = "emptied"
           /\ sid[s] \in Detached
           /\ Only(s)
           /\ Removes(sid[s])
           /\ UNCHANGED <<setting, boot, mounts, cgroup, spawned, sid, proc, code, born, cli>>
<1>1. stage[s] = "unmounted" /\ stage'[s] = "emptied"
  BY DEF DetachedRemovesDir, To, TypeOK
<1>2. sid[s] \in Detached
  BY DEF DetachedRemovesDir, RemovesDirFirst
<1>3. Only(s)
  BY DEF DetachedRemovesDir, Only, To, TypeOK
<1>4. Removes(sid[s])
  BY RemoveAllClears DEF DetachedRemovesDir, Removes, TypeOK
<1>5. UNCHANGED <<setting, boot, mounts, cgroup, spawned, sid, proc, code, born, cli>>
  BY DEF DetachedRemovesDir, supervisors, files, kernel
<1>. QED
  BY <1>1, <1>2, <1>3, <1>4, <1>5

LEMMA WriteFinalDoes ==
    ASSUME TypeOK, NEW s \in Sessions, WriteFinal(s)
    PROVE  /\ stage[s] \in {"unmounted", "emptied"}
           /\ Only(s)
           /\ \/ stage'[s] = "reported" /\ proc'[s] = proc[s]
              \/ /\ ~dir[sid[s]] /\ stage'[s] = "dead"
                 /\ proc'[s] = IF proc[s] = "zombie" THEN "gone" ELSE proc[s]
           /\ IF dir[sid[s]] THEN /\ cfg'[sid[s]].status \in Final
                                  /\ cfg'[sid[s]].pid = s /\ cfg'[sid[s]].boot = boot
                           ELSE cfg' = cfg
           /\ \A d \in Ids : d # sid[s] => cfg'[d] = cfg[d]
           /\ UNCHANGED <<setting, boot, mounts, cgroup, burnt, spawned, sid, code, dir,
                          pidfile, born, cli>>
<1>1. stage[s] \in {"unmounted", "emptied"}
  BY DEF WriteFinal
<1>2. Only(s)
  BY DEF WriteFinal, Only, To, Dies, Orphan, TypeOK
<1>3. \/ stage'[s] = "reported" /\ proc'[s] = proc[s]
      \/ /\ ~dir[sid[s]] /\ stage'[s] = "dead"
         /\ proc'[s] = IF proc[s] = "zombie" THEN "gone" ELSE proc[s]
  BY DEF WriteFinal, To, Dies, Orphan, TypeOK
<1>4. IF dir[sid[s]] THEN /\ cfg'[sid[s]].status \in Final
                          /\ cfg'[sid[s]].pid = s /\ cfg'[sid[s]].boot = boot
                   ELSE cfg' = cfg
  BY ReportWrites DEF WriteFinal
<1>5. \A d \in Ids : d # sid[s] => cfg'[d] = cfg[d]
  BY ReportWrites DEF WriteFinal
<1>6. UNCHANGED <<setting, boot, mounts, cgroup, burnt, spawned, sid, code, dir, pidfile,
                  born, cli>>
  BY DEF WriteFinal, supervisors, files, kernel
<1>. QED
  BY <1>1, <1>2, <1>3, <1>4, <1>5, <1>6

LEMMA KillPidFileDoes ==
    ASSUME TypeOK, NEW s \in Sessions, KillPidFile(s)
    PROVE  /\ stage[s] = "reported" /\ stage'[s] = "done"
           /\ sid[s] \in Detached /\ proc'[s] = proc[s]
           /\ \A u \in Sessions : u # s =>
                 \/ stage'[u] = stage[u] /\ proc'[u] = proc[u]
                 \/ /\ u = pidfile[sid[s]] /\ stage[u] \notin {"unborn", "done", "dead"}
                    /\ stage'[u] = "dead"
                    /\ proc'[u] = IF proc[u] = "zombie" THEN "gone" ELSE proc[u]
           /\ UNCHANGED <<setting, boot, mounts, cgroup, burnt, spawned, sid, code, dir, cfg,
                          pidfile, born, cli>>
<1>1. stage[s] = "reported" /\ stage'[s] = "done"
  BY DEF KillPidFile, TypeOK
<1>2. sid[s] \in Detached /\ proc'[s] = proc[s]
  BY DEF KillPidFile, TypeOK, Orphan
<1>3. \A u \in Sessions : u # s =>
         \/ stage'[u] = stage[u] /\ proc'[u] = proc[u]
         \/ /\ u = pidfile[sid[s]] /\ stage[u] \notin {"unborn", "done", "dead"}
            /\ stage'[u] = "dead" /\ proc'[u] = IF proc[u] = "zombie" THEN "gone" ELSE proc[u]
  BY DEF KillPidFile, TypeOK, Orphan, Working, Ended
<1>4. UNCHANGED <<setting, boot, mounts, cgroup, burnt, spawned, sid, code, dir, cfg,
                  pidfile, born, cli>>
  BY DEF KillPidFile, supervisors, files, kernel
<1>. QED
  BY <1>1, <1>2, <1>3, <1>4

LEMMA ForegroundEndsDoes ==
    ASSUME TypeOK, NEW s \in Sessions, ForegroundEnds(s)
    PROVE  /\ stage[s] = "reported" /\ stage'[s] = "done"
           /\ sid[s] \notin Detached
           /\ Only(s)
           /\ Removes(sid[s]) \/ UNCHANGED <<dir, cfg, pidfile, burnt>>
           /\ UNCHANGED <<setting, boot, mounts, cgroup, spawned, sid, proc, code, born, cli>>
<1>1. stage[s] = "reported" /\ stage'[s] = "done"
  BY DEF ForegroundEnds, To, TypeOK
<1>2. sid[s] \notin Detached
  BY DEF ForegroundEnds
<1>3. Only(s)
  BY DEF ForegroundEnds, Only, To, TypeOK
<1>4. Removes(sid[s]) \/ UNCHANGED <<dir, cfg, pidfile, burnt>>
  BY RemoveAllClears DEF ForegroundEnds, Removes, TypeOK
<1>5. UNCHANGED <<setting, boot, mounts, cgroup, spawned, sid, proc, code, born, cli>>
  BY DEF ForegroundEnds, supervisors, files, kernel
<1>. QED
  BY <1>1, <1>2, <1>3, <1>4, <1>5

LEMMA SupervisorKilledDoes ==
    ASSUME TypeOK, NEW s \in Sessions, SupervisorKilled(s)
    PROVE  /\ "kill" \in Faults /\ stage[s] \notin {"unborn", "done", "dead"}
           /\ stage'[s] = "dead" /\ proc'[s] = IF proc[s] = "zombie" THEN "gone" ELSE proc[s]
           /\ Only(s)
           /\ UNCHANGED <<setting, boot, mounts, cgroup, burnt, spawned, sid, code, dir, cfg,
                          pidfile, born, cli>>
<1>1. "kill" \in Faults /\ stage[s] \notin {"unborn", "done", "dead"}
  BY DEF SupervisorKilled, Working, Ended
<1>2. stage'[s] = "dead" /\ proc'[s] = IF proc[s] = "zombie" THEN "gone" ELSE proc[s]
  BY DEF SupervisorKilled, Dies, Orphan, TypeOK
<1>3. Only(s)
  BY DEF SupervisorKilled, Only, Dies, TypeOK
<1>4. UNCHANGED <<setting, boot, mounts, cgroup, burnt, spawned, sid, code, dir, cfg,
                  pidfile, born, cli>>
  BY DEF SupervisorKilled, supervisors, files, kernel
<1>. QED
  BY <1>1, <1>2, <1>3, <1>4

LEMMA RefreshCheckDoes ==
    ASSUME TypeOK, NEW k \in CLIs, NEW c \in Ids, RefreshCheck(k, c)
    PROVE  /\ cli[k].at = "scan" /\ c \in cli[k].todo /\ Steady(c)
           /\ \/ Moves(k, "mark") /\ cfg[c].status = "Active" /\ ~Alive(cfg[c])
              \/ Moves(k, "scan") /\ (cfg[c].status = "Active" => Alive(cfg[c]))
           /\ cli'[k].cmd = cli[k].cmd /\ cli'[k].id = cli[k].id /\ cli'[k].pid = cli[k].pid
           /\ cli'[k].cur = c /\ cli'[k].todo = cli[k].todo \ {c}
           /\ UNCHANGED <<setting, boot, mounts, cgroup, burnt, spawned, sid, stage, proc,
                          code, dir, cfg, pidfile, born>>
<1>1. cli[k].at = "scan" /\ c \in cli[k].todo /\ Steady(c)
  BY DEF RefreshCheck
<1>2. \/ Moves(k, "mark") /\ cfg[c].status = "Active" /\ ~Alive(cfg[c])
      \/ Moves(k, "scan") /\ (cfg[c].status = "Active" => Alive(cfg[c]))
  BY CheckMoves DEF RefreshCheck
<1>3. cli'[k].cmd = cli[k].cmd /\ cli'[k].id = cli[k].id /\ cli'[k].pid = cli[k].pid
  BY CheckMoves DEF RefreshCheck
<1>4. cli'[k].cur = c /\ cli'[k].todo = cli[k].todo \ {c}
  BY CheckMoves DEF RefreshCheck
<1>5. UNCHANGED <<setting, boot, mounts, cgroup, burnt, spawned, sid, stage, proc, code, dir,
                  cfg, pidfile, born>>
  BY DEF RefreshCheck, supervisors, files, kernel
<1>. QED
  BY <1>1, <1>2, <1>3, <1>4, <1>5

LEMMA RefreshMarkDoes ==
    ASSUME TypeOK, NEW k \in CLIs, RefreshMark(k)
    PROVE  /\ cli[k].at = "mark"
           /\ \/ /\ dir[cli[k].cur] /\ Moves(k, "detach") /\ Same(k)
                 /\ cfg'[cli[k].cur].status = "Exited" /\ cfg'[cli[k].cur].pid = 0
              \/ ~dir[cli[k].cur] /\ cfg' = cfg /\ Moves(k, "idle")
           /\ \A d \in Ids : d # cli[k].cur => cfg'[d] = cfg[d]
           /\ UNCHANGED <<setting, boot, mounts, cgroup, burnt, spawned, sid, stage, proc,
                          code, dir, pidfile, born>>
<1>1. cli[k].at = "mark"
  BY DEF RefreshMark
<1>2. \/ /\ dir[cli[k].cur] /\ Moves(k, "detach") /\ Same(k)
         /\ cfg'[cli[k].cur].status = "Exited" /\ cfg'[cli[k].cur].pid = 0
      \/ ~dir[cli[k].cur] /\ cfg' = cfg /\ Moves(k, "idle")
  BY BecomeMoves, EndMoves, MarkWrites DEF RefreshMark, Places
<1>3. \A d \in Ids : d # cli[k].cur => cfg'[d] = cfg[d]
  BY MarkWrites DEF RefreshMark
<1>4. UNCHANGED <<setting, boot, mounts, cgroup, burnt, spawned, sid, stage, proc, code, dir,
                  pidfile, born>>
  BY DEF RefreshMark, supervisors, files, kernel
<1>. QED
  BY <1>1, <1>2, <1>3, <1>4

LEMMA RefreshDetachDoes ==
    ASSUME TypeOK, NEW k \in CLIs, RefreshDetach(k)
    PROVE  /\ cli[k].at = "detach" /\ Moves(k, "scan") /\ Same(k)
           /\ \A c \in Ids : c # cli[k].cur => mounts'[c] = mounts[c]
           /\ mounts'[cli[k].cur] = IF mounts[cli[k].cur] = 0 THEN 0 ELSE mounts[cli[k].cur] - 1
           /\ UNCHANGED <<setting, boot, cgroup, burnt, spawned, sid, stage, proc, code, dir,
                          cfg, pidfile, born>>
<1>1. cli[k].at = "detach" /\ Moves(k, "scan") /\ Same(k)
  BY BecomeMoves DEF RefreshDetach, Places
<1>2. \A c \in Ids : c # cli[k].cur => mounts'[c] = mounts[c]
  BY CliTypes, DetachCounts DEF RefreshDetach, Invocation
<1>3. mounts'[cli[k].cur] = IF mounts[cli[k].cur] = 0 THEN 0 ELSE mounts[cli[k].cur] - 1
  BY CliTypes, DetachCounts DEF RefreshDetach, Invocation
<1>4. UNCHANGED <<setting, boot, cgroup, burnt, spawned, sid, stage, proc, code, dir, cfg,
                  pidfile, born>>
  BY DEF RefreshDetach, supervisors, files, kernel
<1>. QED
  BY <1>1, <1>2, <1>3, <1>4

LEMMA RefreshDoneDoes ==
    ASSUME TypeOK, NEW k \in CLIs, RefreshDone(k)
    PROVE  /\ cli[k].at = "scan" /\ cli[k].todo = {}
           /\ \/ Moves(k, "idle")
              \/ Moves(k, "act") /\ Same(k) /\ cfg[cli[k].id].status # NoStatus
           /\ UNCHANGED <<setting, boot, mounts, cgroup, burnt, spawned, sid, stage, proc,
                          code, dir, cfg, pidfile, born>>
<1>1. cli[k].at = "scan" /\ cli[k].todo = {}
  BY DEF RefreshDone
<1>2. \/ Moves(k, "idle")
      \/ Moves(k, "act") /\ Same(k) /\ cfg[cli[k].id].status # NoStatus
  BY BecomeMoves, EndMoves DEF RefreshDone, Places
<1>3. UNCHANGED <<setting, boot, mounts, cgroup, burnt, spawned, sid, stage, proc, code, dir,
                  cfg, pidfile, born>>
  BY DEF RefreshDone, supervisors, files, kernel
<1>. QED
  BY <1>1, <1>2, <1>3

LEMMA StopReadPidDoes ==
    ASSUME TypeOK, NEW k \in CLIs, StopReadPid(k)
    PROVE  /\ cli[k].at = "act" /\ cli[k].cmd = "stop" /\ Moves(k, "signal")
           /\ cli'[k].cmd = cli[k].cmd /\ cli'[k].id = cli[k].id /\ cli'[k].cur = cli[k].cur
           /\ cli'[k].todo = cli[k].todo /\ cli'[k].pid = cfg[cli[k].id].pid
           /\ UNCHANGED <<setting, boot, mounts, cgroup, burnt, spawned, sid, stage, proc,
                          code, dir, cfg, pidfile, born>>
<1>1. cli[k].at = "act" /\ cli[k].cmd = "stop" /\ Moves(k, "signal")
  BY ReadPidMoves DEF StopReadPid
<1>2. cli'[k].cmd = cli[k].cmd /\ cli'[k].id = cli[k].id /\ cli'[k].cur = cli[k].cur
  BY ReadPidMoves DEF StopReadPid
<1>3. cli'[k].todo = cli[k].todo /\ cli'[k].pid = cfg[cli[k].id].pid
  BY ReadPidMoves DEF StopReadPid
<1>4. UNCHANGED <<setting, boot, mounts, cgroup, burnt, spawned, sid, stage, proc, code, dir,
                  cfg, pidfile, born>>
  BY DEF StopReadPid, supervisors, files, kernel
<1>. QED
  BY <1>1, <1>2, <1>3, <1>4

LEMMA StopSignalDoes ==
    ASSUME TypeOK, NEW k \in CLIs, StopSignal(k)
    PROVE  /\ cli[k].at = "signal" /\ Moves(k, "idle")
           /\ UNCHANGED <<setting, boot, mounts, cgroup, burnt, spawned, sid, stage, proc,
                          code, dir, cfg, pidfile, born>>
<1>1. cli[k].at = "signal" /\ Moves(k, "idle")
  BY EndMoves DEF StopSignal
<1>2. UNCHANGED <<setting, boot, mounts, cgroup, burnt, spawned, sid, stage, proc, code, dir,
                  cfg, pidfile, born>>
  BY DEF StopSignal, supervisors, files, kernel
<1>. QED
  BY <1>1, <1>2

LEMMA RmCheckDoes ==
    ASSUME TypeOK, NEW k \in CLIs, RmCheck(k)
    PROVE  /\ cli[k].at = "act" /\ cli[k].cmd = "rm" /\ Settled(cli[k].id)
           /\ \/ Moves(k, "idle")
              \/ Moves(k, "remove") /\ Same(k) /\ cfg[cli[k].id].status \notin {NoStatus, "Active"}
           /\ UNCHANGED <<setting, boot, mounts, cgroup, burnt, spawned, sid, stage, proc,
                          code, dir, cfg, pidfile, born>>
<1>1. cli[k].at = "act" /\ cli[k].cmd = "rm" /\ Settled(cli[k].id)
  BY DEF RmCheck
<1>2. \/ Moves(k, "idle")
      \/ Moves(k, "remove") /\ Same(k) /\ cfg[cli[k].id].status \notin {NoStatus, "Active"}
  BY BecomeMoves, EndMoves DEF RmCheck, Places
<1>3. UNCHANGED <<setting, boot, mounts, cgroup, burnt, spawned, sid, stage, proc, code, dir,
                  cfg, pidfile, born>>
  BY DEF RmCheck, supervisors, files, kernel
<1>. QED
  BY <1>1, <1>2, <1>3

LEMMA RmRemoveDoes ==
    ASSUME TypeOK, NEW k \in CLIs, RmRemove(k)
    PROVE  /\ cli[k].at = "remove" /\ Moves(k, "idle")
           /\ Removes(cli[k].id)
           /\ UNCHANGED <<setting, boot, mounts, cgroup, spawned, sid, stage, proc, code, born>>
<1>1. cli[k].at = "remove" /\ Moves(k, "idle")
  BY EndMoves DEF RmRemove
<1>2. Removes(cli[k].id)
  BY CliTypes, RemoveAllClears DEF RmRemove, Removes, Invocation
<1>3. UNCHANGED <<setting, boot, mounts, cgroup, spawned, sid, stage, proc, code, born>>
  BY DEF RmRemove, supervisors, files, kernel
<1>. QED
  BY <1>1, <1>2, <1>3

LEMMA StartCheckDoes ==
    ASSUME TypeOK, NEW k \in CLIs, StartCheck(k)
    PROVE  /\ \/ cli[k].at = "act" /\ cli[k].cmd = "start"
              \/ cli[k].at = "sleep"
           /\ Settled(cli[k].id)
           /\ \/ Moves(k, "idle")
              \/ Moves(k, "launch") /\ Same(k) /\ cfg[cli[k].id].status \notin {NoStatus, "Active"}
           /\ UNCHANGED <<setting, boot, mounts, cgroup, burnt, spawned, sid, stage, proc,
                          code, dir, cfg, pidfile, born>>
<1>1. \/ cli[k].at = "act" /\ cli[k].cmd = "start"
      \/ cli[k].at = "sleep"
  BY DEF StartCheck
<1>2. Settled(cli[k].id)
  BY DEF StartCheck
<1>3. \/ Moves(k, "idle")
      \/ Moves(k, "launch") /\ Same(k) /\ cfg[cli[k].id].status \notin {NoStatus, "Active"}
  BY BecomeMoves, EndMoves DEF StartCheck, Places, Startable
<1>4. UNCHANGED <<setting, boot, mounts, cgroup, burnt, spawned, sid, stage, proc, code, dir,
                  cfg, pidfile, born>>
  BY DEF StartCheck, supervisors, files, kernel
<1>. QED
  BY <1>1, <1>2, <1>3, <1>4

LEMMA RestartSignalDoes ==
    ASSUME TypeOK, NEW k \in CLIs, RestartSignal(k)
    PROVE  /\ cli[k].at = "act" /\ cli[k].cmd = "restart"
           /\ Moves(k, "idle") \/ (Moves(k, "sleep") /\ Same(k))
           /\ UNCHANGED <<setting, boot, mounts, cgroup, burnt, spawned, sid, stage, proc,
                          code, dir, cfg, pidfile, born>>
<1>1. cli[k].at = "act" /\ cli[k].cmd = "restart"
  BY DEF RestartSignal
<1>2. Moves(k, "idle") \/ (Moves(k, "sleep") /\ Same(k))
  BY BecomeMoves, EndMoves DEF RestartSignal, Places
<1>3. UNCHANGED <<setting, boot, mounts, cgroup, burnt, spawned, sid, stage, proc, code, dir,
                  cfg, pidfile, born>>
  BY DEF RestartSignal, supervisors, files, kernel
<1>. QED
  BY <1>1, <1>2, <1>3

LEMMA AutostartCheckDoes ==
    ASSUME TypeOK, NEW k \in CLIs, NEW c \in Ids, AutostartCheck(k, c)
    PROVE  /\ cli[k].at = "auto" /\ c \in cli[k].todo /\ Still(c)
           /\ \/ Moves(k, "launch") /\ c \in Detached /\ cfg[c].status # NoStatus
              \/ Moves(k, "auto")
           /\ cli'[k].cmd = cli[k].cmd /\ cli'[k].id = c
           /\ UNCHANGED <<setting, boot, mounts, cgroup, burnt, spawned, sid, stage, proc,
                          code, dir, cfg, pidfile, born>>
<1>1. cli[k].at = "auto" /\ c \in cli[k].todo /\ Still(c)
  BY DEF AutostartCheck
<1>2. \/ Moves(k, "launch") /\ c \in Detached /\ cfg[c].status # NoStatus
      \/ Moves(k, "auto")
  BY AutostartMoves, AutostartConfigured DEF AutostartCheck
<1>3. cli'[k].cmd = cli[k].cmd /\ cli'[k].id = c
  BY AutostartMoves DEF AutostartCheck
<1>4. UNCHANGED <<setting, boot, mounts, cgroup, burnt, spawned, sid, stage, proc, code, dir,
                  cfg, pidfile, born>>
  BY DEF AutostartCheck, supervisors, files, kernel
<1>. QED
  BY <1>1, <1>2, <1>3, <1>4

LEMMA AutostartDoneDoes ==
    ASSUME TypeOK, NEW k \in CLIs, AutostartDone(k)
    PROVE  /\ cli[k].at = "auto" /\ Moves(k, "idle")
           /\ UNCHANGED <<setting, boot, mounts, cgroup, burnt, spawned, sid, stage, proc,
                          code, dir, cfg, pidfile, born>>
<1>1. cli[k].at = "auto" /\ Moves(k, "idle")
  BY EndMoves DEF AutostartDone
<1>2. UNCHANGED <<setting, boot, mounts, cgroup, burnt, spawned, sid, stage, proc, code, dir,
                  cfg, pidfile, born>>
  BY DEF AutostartDone, supervisors, files, kernel
<1>. QED
  BY <1>1, <1>2

LEMMA LaunchDoes ==
    ASSUME TypeOK, NEW k \in CLIs, Launch(k)
    PROVE  /\ cli[k].at = "launch" /\ spawned + 1 \in Sessions /\ spawned' = spawned + 1
           /\ sid'[spawned + 1] = cli[k].id /\ stage'[spawned + 1] = "starting"
           /\ \A u \in Sessions : u # spawned + 1 => sid'[u] = sid[u] /\ stage'[u] = stage[u]
           /\ \A c \in Ids : dir[c] => dir'[c]
           /\ \/ Moves(k, "pidfile") /\ cli'[k].id = cli[k].id /\ cli'[k].pid = spawned + 1
              \/ Moves(k, "idle")
              \/ cli[k].cmd = "autostart" /\ Moves(k, "auto") /\ Same(k)
           /\ UNCHANGED <<setting, boot, mounts, cgroup, burnt, proc, code, cfg, pidfile, born>>
<1>1. cli[k].at = "launch" /\ spawned + 1 \in Sessions /\ spawned' = spawned + 1
  BY FreshSession DEF Launch
<1>2. sid'[spawned + 1] = cli[k].id /\ stage'[spawned + 1] = "starting"
  BY FreshSession DEF Launch, TypeOK
<1>3. \A u \in Sessions : u # spawned + 1 => sid'[u] = sid[u] /\ stage'[u] = stage[u]
  BY FreshSession DEF Launch, TypeOK
<1>4. \A c \in Ids : dir[c] => dir'[c]
  BY DEF Launch, TypeOK
<1>5. \/ Moves(k, "pidfile") /\ cli'[k].id = cli[k].id /\ cli'[k].pid = spawned + 1
      \/ Moves(k, "idle")
      \/ cli[k].cmd = "autostart" /\ Moves(k, "auto") /\ Same(k)
  BY LaunchMoves, LaunchedMoves DEF Launch
<1>6. UNCHANGED <<setting, boot, mounts, cgroup, burnt, proc, code, cfg, pidfile, born>>
  BY DEF Launch, supervisors, files, kernel
<1>. QED
  BY <1>1, <1>2, <1>3, <1>4, <1>5, <1>6

LEMMA LaunchFailsDoes ==
    ASSUME TypeOK, NEW k \in CLIs, LaunchFails(k)
    PROVE  /\ cli[k].at = "launch"
           /\ \/ Moves(k, "idle")
              \/ cli[k].cmd = "autostart" /\ Moves(k, "auto") /\ Same(k)
           /\ UNCHANGED <<setting, boot, mounts, cgroup, burnt, spawned, sid, stage, proc,
                          code, dir, cfg, pidfile, born>>
<1>1. cli[k].at = "launch"
  BY DEF LaunchFails
<1>2. \/ Moves(k, "idle")
      \/ cli[k].cmd = "autostart" /\ Moves(k, "auto") /\ Same(k)
  BY LaunchedMoves DEF LaunchFails
<1>3. UNCHANGED <<setting, boot, mounts, cgroup, burnt, spawned, sid, stage, proc, code, dir,
                  cfg, pidfile, born>>
  BY DEF LaunchFails, supervisors, files, kernel
<1>. QED
  BY <1>1, <1>2, <1>3

LEMMA WritePidFileDoes ==
    ASSUME TypeOK, NEW k \in CLIs, WritePidFile(k)
    PROVE  /\ cli[k].at = "pidfile"
           /\ \/ Moves(k, "idle")
              \/ cli[k].cmd = "autostart" /\ Moves(k, "auto") /\ Same(k)
           /\ \A c \in Ids : c # cli[k].id => pidfile'[c] = pidfile[c]
           /\ pidfile'[cli[k].id] \in {pidfile[cli[k].id], cli[k].pid}
           /\ UNCHANGED <<setting, boot, mounts, cgroup, burnt, spawned, sid, stage, proc,
                          code, dir, cfg, born>>
<1>1. cli[k].at = "pidfile"
  BY DEF WritePidFile
<1>2. \/ Moves(k, "idle")
      \/ cli[k].cmd = "autostart" /\ Moves(k, "auto") /\ Same(k)
  BY LaunchedMoves, EndMoves DEF WritePidFile
<1>3. \A c \in Ids : c # cli[k].id => pidfile'[c] = pidfile[c]
  BY DEF WritePidFile, TypeOK
<1>4. pidfile'[cli[k].id] \in {pidfile[cli[k].id], cli[k].pid}
  BY CliTypes DEF WritePidFile, TypeOK
<1>5. UNCHANGED <<setting, boot, mounts, cgroup, burnt, spawned, sid, stage, proc, code, dir,
                  cfg, born>>
  BY DEF WritePidFile, supervisors, files, kernel
<1>. QED
  BY <1>1, <1>2, <1>3, <1>4, <1>5

LEMMA CliKilledDoes ==
    ASSUME TypeOK, NEW k \in CLIs, CliKilled(k)
    PROVE  /\ "abort" \in Faults /\ Moves(k, "idle")
           /\ UNCHANGED <<setting, boot, mounts, cgroup, burnt, spawned, sid, stage, proc,
                          code, dir, cfg, pidfile, born>>
<1>1. "abort" \in Faults /\ Moves(k, "idle")
  BY EndMoves DEF CliKilled
<1>2. UNCHANGED <<setting, boot, mounts, cgroup, burnt, spawned, sid, stage, proc, code, dir,
                  cfg, pidfile, born>>
  BY DEF CliKilled, supervisors, files, kernel
<1>. QED
  BY <1>1, <1>2

LEMMA IssueDoes ==
    ASSUME TypeOK, NEW k \in CLIs, NEW cmd \in AllCommands, NEW c \in Ids, Issue(k, cmd, c)
    PROVE  /\ cli[k].at = "idle" /\ k \in setting.clis /\ cmd \in Commands
           /\ \/ /\ cmd \in Refreshing /\ Moves(k, "scan") /\ born' = born
                 /\ cli'[k].todo = {d \in Ids : dir[d]}
              \/ cmd = "run" /\ Moves(k, "launch") /\ c \notin born /\ born' = born \cup {c}
              \/ cmd = "autostart" /\ Moves(k, "auto") /\ born' = born
           /\ cli'[k].cmd = cmd /\ cli'[k].id = c
           /\ UNCHANGED <<setting, boot, mounts, cgroup, burnt, spawned, sid, stage, proc,
                          code, dir, cfg, pidfile>>
<1>1. cli[k].at = "idle" /\ k \in setting.clis /\ cmd \in Commands
  BY DEF Issue
<1>2. \/ /\ cmd \in Refreshing /\ Moves(k, "scan") /\ born' = born
         /\ cli'[k].todo = {d \in Ids : dir[d]}
      \/ cmd = "run" /\ Moves(k, "launch") /\ c \notin born /\ born' = born \cup {c}
      \/ cmd = "autostart" /\ Moves(k, "auto") /\ born' = born
  <2>1. CASE cmd \in Refreshing
    <3>1. cmd \notin {"run", "autostart"}
      BY <2>1 DEF Refreshing
    <3>2. Moves(k, "scan")
      <4>1. "scan" = CASE cmd \in Refreshing -> "scan"
                       [] cmd = "run" -> "launch"
                       [] cmd = "autostart" -> "auto"
        BY <2>1, <3>1
      <4>. QED
        BY <4>1, IssueMoves, Zenon
    <3>3. cli'[k].todo = {d \in Ids : dir[d]}
      BY <3>1, IssueMoves
    <3>4. born' = born
      BY <3>1 DEF Issue
    <3>. QED
      BY <2>1, <3>2, <3>3, <3>4
  <2>2. CASE cmd \notin Refreshing
    <3>1. cmd \in {"run", "autostart"}
      BY <2>2 DEF AllCommands, Refreshing
    <3>. QED
      BY <2>2, <3>1, IssueMoves DEF Issue
  <2>. QED
    BY <2>1, <2>2
<1>3. cli'[k].cmd = cmd /\ cli'[k].id = c
  BY IssueMoves DEF Issue
<1>4. UNCHANGED <<setting, boot, mounts, cgroup, burnt, spawned, sid, stage, proc, code, dir,
                  cfg, pidfile>>
  BY DEF Issue, supervisors, files, kernel
<1>. QED
  BY <1>1, <1>2, <1>3, <1>4

LEMMA RebootDoes ==
    ASSUME TypeOK, Reboot
    PROVE  /\ boot < boot'
           /\ \A s \in Sessions :
                 stage'[s] = IF stage[s] \in {"unborn", "done"} THEN stage[s] ELSE "dead"
           /\ \A s \in Sessions : proc'[s] = IF proc[s] = "none" THEN "none" ELSE "gone"
           /\ \A c \in Ids : mounts'[c] = 0 /\ ~cgroup'[c]
           /\ \A k \in CLIs : cli'[k].at = "idle"
           /\ UNCHANGED <<setting, burnt, spawned, sid, code, dir, cfg, pidfile, born>>
<1>1. boot < boot'
  BY DEF Reboot, TypeOK
<1>2. \A s \in Sessions : stage'[s] = IF stage[s] \in {"unborn", "done"} THEN stage[s] ELSE "dead"
  BY DEF Reboot, TypeOK, Working, Ended
<1>3. \A s \in Sessions : proc'[s] = IF proc[s] = "none" THEN "none" ELSE "gone"
  BY DEF Reboot, TypeOK
<1>4. \A c \in Ids : mounts'[c] = 0 /\ ~cgroup'[c]
  BY DEF Reboot
<1>5. \A k \in CLIs : cli'[k].at = "idle"
  BY DEF Reboot, Idle
<1>6. UNCHANGED <<setting, burnt, spawned, sid, code, dir, cfg, pidfile, born>>
  BY DEF Reboot, supervisors, files, kernel
<1>. QED
  BY <1>1, <1>2, <1>3, <1>4, <1>5, <1>6

-----------------------------------------------------------------------------
(* What holds of supervisors, files and commands in every circumstance.    *)

Pre       == {"starting", "mounted", "cloned"}
AfterReap == {"reaped", "uncaged", "unmounted", "emptied", "reported"}
Looking   == {"scan", "mark", "detach", "act", "signal", "remove"}

\* The sessions that container c has had.
Of(c) == {s \in Sessions : sid[s] = c /\ stage[s] # "unborn"}

SpawnInv == \A s \in Sessions : stage[s] # "unborn" <=> s <= spawned

(* Sessions are of born ids, and a config has a directory and a session.   *)
BornInv ==
    /\ \A s \in Sessions : stage[s] # "unborn" => sid[s] \in born
    /\ \A k \in CLIs : cli[k].at \in {"launch", "pidfile"} => cli[k].id \in born
    /\ \A c \in Ids : cfg[c].status # NoStatus => dir[c] /\ Of(c) # {}
    /\ \A k \in CLIs : cli[k].at = "mark" => Of(cli[k].cur) # {}

(* A pid in a config is the init of a session of that container, gone if
   it is of an earlier boot.                                               *)
PidFits(c) ==
    LET s == cfg[c].pid
    IN  /\ s # 0 => s \in Of(c) /\ stage[s] \notin Pre /\ proc[s] # "none"
        /\ s # 0 /\ cfg[c].boot # boot => proc[s] = "gone"
        /\ cfg[c].status \in {"Active", "Stopped", "Error"} => s # 0
PidInv == \A c \in Ids : PidFits(c)

(* So is the pid that a command has read or is to write.                   *)
FileInv ==
    /\ \A c \in Ids : pidfile[c] # 0 => pidfile[c] \in Of(c)
    /\ \A k \in CLIs : cli[k].at = "pidfile" => cli[k].pid \in Of(cli[k].id)
    /\ \A k \in CLIs : cli[k].at = "signal" /\ cli[k].pid # 0 => cli[k].pid \in Of(cli[k].id)

CliInv ==
    /\ \A k \in CLIs : cli[k].at # "idle" => k \in setting.clis
    /\ \A k \in CLIs :
          /\ cli[k].at \in Looking => cli[k].cmd \in Refreshing
          /\ cli[k].at = "sleep" => cli[k].cmd = "restart"
          /\ cli[k].at = "auto" => cli[k].cmd = "autostart"
          /\ cli[k].at = "launch" => cli[k].cmd \in {"run", "start", "restart", "autostart"}

(* What the init of a supervisor can be at each stage.                     *)
StageInv == \A s \in Sessions :
    /\ stage[s] \in {"unborn", "starting", "mounted"} => proc[s] = "none"
    /\ stage[s] = "cloned" => proc[s] \in IF sid[s] \in Detached THEN {"blocked"}
                                                                ELSE {"running", "zombie"}
    /\ stage[s] = "configured" => sid[s] \in Detached /\ proc[s] = "blocked"
    /\ stage[s] \in {"released", "waiting"} => proc[s] \in {"running", "zombie"}
    /\ stage[s] \in AfterReap \cup {"done"} => proc[s] = "gone"
    /\ stage[s] = "dead" => proc[s] # "zombie"

General == TypeOK /\ SpawnInv /\ BornInv /\ PidInv /\ FileInv /\ CliInv /\ StageInv

LEMMA GeneralInit == Init => General
<1>. SUFFICES ASSUME Init PROVE General
  OBVIOUS
<1>1. TypeOK
  <2>1. cli \in [CLIs -> Invocation]
    BY ConstantFacts DEF Init, Idle, Invocation, Places
  <2>2. cfg \in [Ids -> Config]
    BY ConstantFacts DEF Init, NoCfg, Config
  <2>. QED
    BY <2>1, <2>2, ConstantFacts, LifecycleConstants
    DEF Init, TypeOK, Invocation, Config, Stages, Codes
<1>2. \A c \in Ids : Of(c) = {} /\ cfg[c].status = NoStatus /\ cfg[c].pid = 0
  BY DEF Init, Of, NoCfg
<1>3. \A k \in CLIs : cli[k].at = "idle"
  BY DEF Init, Idle
<1>4. SpawnInv
  BY DEF Init, SpawnInv, Sessions
<1>5. BornInv /\ PidInv /\ FileInv
  BY <1>2, <1>3 DEF Init, BornInv, PidInv, PidFits, FileInv, NoStatus
<1>6. CliInv
  BY <1>3 DEF CliInv, Looking
<1>7. StageInv
  BY DEF Init, StageInv, AfterReap
<1>. QED
  BY <1>1, <1>4, <1>5, <1>6, <1>7 DEF General

LEMMA LaunchAdds ==
    ASSUME TypeOK, SpawnInv, NEW k \in CLIs, Launch(k)
    PROVE  /\ stage[spawned + 1] = "unborn"
           /\ \A c \in Ids : c # cli[k].id => Of(c)' = Of(c)
           /\ \A c \in Ids : c = cli[k].id => Of(c)' = Of(c) \cup {spawned + 1}
<1>1. spawned \in Nat /\ spawned + 1 \in Sessions
  BY LifecycleConstants, FreshSession DEF TypeOK, Pids
<1>2. stage[spawned + 1] = "unborn"
  <2>1. ~(spawned + 1 <= spawned)
    BY <1>1
  <2>. HIDE DEF Sessions
  <2>2. stage[spawned + 1] # "unborn" <=> spawned + 1 <= spawned
    BY <1>1 DEF SpawnInv
  <2>. QED
    BY <2>1, <2>2
<1>3. /\ sid'[spawned + 1] = cli[k].id /\ stage'[spawned + 1] = "starting"
      /\ \A u \in Sessions : u # spawned + 1 => sid'[u] = sid[u] /\ stage'[u] = stage[u]
  BY LaunchDoes
<1>. DEFINE n == spawned + 1
<1>4. n \in Sessions /\ stage[n] = "unborn" /\ sid'[n] = cli[k].id /\ stage'[n] = "starting"
  BY <1>1, <1>2, <1>3
<1>. HIDE DEF n
<1>5. \A u \in Sessions : u # n => sid'[u] = sid[u] /\ stage'[u] = stage[u]
  BY <1>3 DEF n
<1>6. ASSUME NEW c \in Ids, c # cli[k].id PROVE Of(c)' = Of(c)
  BY <1>4, <1>5, <1>6 DEF Of
<1>7. \A c \in Ids : c = cli[k].id => Of(c)' = Of(c) \cup {n}
  BY <1>4, <1>5 DEF Of
<1>. QED
  BY <1>2, <1>6, <1>7 DEF n

(* Every step keeps what holds in every circumstance.                     *)
LEMMA GeneralStep ==
    ASSUME TypeOK, SpawnInv, BornInv, PidInv, FileInv, CliInv, StageInv, [Next]_vars
    PROVE  SpawnInv' /\ BornInv' /\ PidInv' /\ FileInv' /\ CliInv' /\ StageInv'
<1>. DEFINE Goal == SpawnInv /\ BornInv /\ PidInv /\ FileInv /\ CliInv /\ StageInv
<1>1. ASSUME NEW s \in Sessions, Mount(s) PROVE Goal'
  <2>1. CliInv'
    BY <1>1, MountDoes DEF CliInv, Looking
  <2>2. SpawnInv'
    BY <1>1, MountDoes, Elements DEF Only, SpawnInv
  <2>3. BornInv'
    BY <1>1, MountDoes, Elements DEF Only, BornInv, Of
  <2>4. PidInv'
    BY <1>1, MountDoes, Elements DEF Only, PidInv, PidFits, Of, Pre
  <2>5. FileInv'
    BY <1>1, MountDoes, Elements DEF Only, FileInv, Of
  <2>6. StageInv'
    BY <1>1, MountDoes, Elements DEF Only, StageInv, AfterReap, Ended, Detached
  <2>. QED
    BY <2>1, <2>2, <2>3, <2>4, <2>5, <2>6
<1>2. ASSUME NEW s \in Sessions, SetupFails(s) PROVE Goal'
  <2>1. CliInv'
    BY <1>2, SetupFailsDoes DEF CliInv, Looking
  <2>2. SpawnInv'
    BY <1>2, SetupFailsDoes, Elements DEF Only, SpawnInv
  <2>3. BornInv'
    BY <1>2, SetupFailsDoes, Elements DEF Only, BornInv, Of
  <2>4. PidInv'
    BY <1>2, SetupFailsDoes, Elements DEF Only, PidInv, PidFits, Of, Pre
  <2>5. FileInv'
    BY <1>2, SetupFailsDoes, Elements DEF Only, FileInv, Of
  <2>6. StageInv'
    BY <1>2, SetupFailsDoes, Elements DEF Only, StageInv, AfterReap, Ended, Detached
  <2>. QED
    BY <2>1, <2>2, <2>3, <2>4, <2>5, <2>6
<1>3. ASSUME NEW s \in Sessions, Clone(s) PROVE Goal'
  <2>1. CliInv'
    BY <1>3, CloneDoes DEF CliInv, Looking
  <2>2. SpawnInv'
    BY <1>3, CloneDoes, Elements DEF Only, SpawnInv
  <2>3. BornInv'
    BY <1>3, CloneDoes, Elements DEF Only, BornInv, Of
  <2>4. PidInv'
    BY <1>3, CloneDoes, Elements DEF Only, PidInv, PidFits, Of, Pre
  <2>5. FileInv'
    BY <1>3, CloneDoes, Elements DEF Only, FileInv, Of
  <2>6. StageInv'
    BY <1>3, CloneDoes, Elements DEF Only, StageInv, AfterReap, Ended, Detached
  <2>. QED
    BY <2>1, <2>2, <2>3, <2>4, <2>5, <2>6
<1>4. ASSUME NEW s \in Sessions, WriteActive(s) PROVE Goal'
  <2>1. CliInv'
    BY <1>4, WriteActiveDoes DEF CliInv, Looking
  <2>2. SpawnInv'
    BY <1>4, WriteActiveDoes, Elements DEF Only, SpawnInv
  <2>3. BornInv'
    BY <1>4, WriteActiveDoes, Elements DEF Only, BornInv, Of
  <2>4. PidInv'
    <3>. SUFFICES ASSUME NEW c \in Ids PROVE PidFits(c)'
      BY DEF PidInv
    <3>1. CASE cfg'[c] = cfg[c]
      <4>1. cfg[c].pid # s
        BY <1>4, WriteActiveDoes, Elements DEF PidInv, PidFits, Pre
      <4>. QED
        BY <1>4, <3>1, <4>1, WriteActiveDoes DEF Only, PidInv, PidFits, Of
    <3>2. CASE c = sid[s] /\ dir[c]
      <4>1. proc[s] # "none"
        BY <1>4, WriteActiveDoes DEF StageInv
      <4>. QED
        BY <1>4, <3>2, <4>1, WriteActiveDoes, Elements DEF PidFits, Of, Pre
    <3>. QED
      BY <1>4, <3>1, <3>2, WriteActiveDoes
  <2>5. FileInv'
    BY <1>4, WriteActiveDoes, Elements DEF Only, FileInv, Of
  <2>6. StageInv'
    BY <1>4, WriteActiveDoes, Elements DEF Only, StageInv, AfterReap, Ended, Detached
  <2>. QED
    BY <2>1, <2>2, <2>3, <2>4, <2>5, <2>6
<1>5. ASSUME NEW s \in Sessions, WriteGo(s) PROVE Goal'
  <2>1. CliInv'
    BY <1>5, WriteGoDoes DEF CliInv, Looking
  <2>2. SpawnInv'
    BY <1>5, WriteGoDoes, Elements DEF Only, SpawnInv
  <2>3. BornInv'
    BY <1>5, WriteGoDoes, Elements DEF Only, BornInv, Of
  <2>4. PidInv'
    <3>1. proc[s] = "blocked"
      BY <1>5, WriteGoDoes DEF StageInv
    <3>. QED
      BY <1>5, <3>1, WriteGoDoes, Elements DEF Only, PidInv, PidFits, Of, Pre
  <2>5. FileInv'
    BY <1>5, WriteGoDoes, Elements DEF Only, FileInv, Of
  <2>6. StageInv'
    BY <1>5, WriteGoDoes, Elements DEF Only, StageInv, AfterReap, Ended, Detached
  <2>. QED
    BY <2>1, <2>2, <2>3, <2>4, <2>5, <2>6
<1>6. ASSUME NEW s \in Sessions, Connect(s) PROVE Goal'
  <2>1. CliInv'
    BY <1>6, ConnectDoes DEF CliInv, Looking
  <2>2. SpawnInv'
    BY <1>6, ConnectDoes, Elements DEF Only, SpawnInv
  <2>3. BornInv'
    BY <1>6, ConnectDoes, Elements DEF Only, BornInv, Of
  <2>4. PidInv'
    BY <1>6, ConnectDoes, Elements DEF Only, PidInv, PidFits, Of, Pre
  <2>5. FileInv'
    BY <1>6, ConnectDoes, Elements DEF Only, FileInv, Of
  <2>6. StageInv'
    BY <1>6, ConnectDoes, Elements DEF Only, StageInv, AfterReap, Ended, Detached
  <2>. QED
    BY <2>1, <2>2, <2>3, <2>4, <2>5, <2>6
<1>7. ASSUME NEW s \in Sessions, NEW x \in Codes, Exit(s, x) PROVE Goal'
  <2>1. SpawnInv' /\ BornInv' /\ FileInv' /\ CliInv'
    BY <1>7, ExitDoes DEF SpawnInv, BornInv, FileInv, CliInv, Of, Looking
  <2>2. PidInv'
    BY <1>7, ExitDoes, Elements DEF Only, PidInv, PidFits, Of, Pre
  <2>3. StageInv'
    BY <1>7, ExitDoes, Elements DEF Only, StageInv, AfterReap, Ended, Detached
  <2>. QED
    BY <2>1, <2>2, <2>3
<1>8. ASSUME NEW s \in Sessions, Reap(s) PROVE Goal'
  <2>1. CliInv'
    BY <1>8, ReapDoes DEF CliInv, Looking
  <2>2. SpawnInv'
    BY <1>8, ReapDoes, Elements DEF Only, SpawnInv
  <2>3. BornInv'
    BY <1>8, ReapDoes, Elements DEF Only, BornInv, Of
  <2>4. PidInv'
    BY <1>8, ReapDoes, Elements DEF Only, PidInv, PidFits, Of, Pre
  <2>5. FileInv'
    BY <1>8, ReapDoes, Elements DEF Only, FileInv, Of
  <2>6. StageInv'
    BY <1>8, ReapDoes, Elements DEF Only, StageInv, AfterReap, Ended, Detached
  <2>. QED
    BY <2>1, <2>2, <2>3, <2>4, <2>5, <2>6
<1>9. ASSUME NEW s \in Sessions, ReleaseFails(s) PROVE Goal'
  <2>1. CliInv'
    BY <1>9, ReleaseFailsDoes DEF CliInv, Looking
  <2>2. SpawnInv'
    BY <1>9, ReleaseFailsDoes, Elements DEF Only, SpawnInv
  <2>3. BornInv'
    BY <1>9, ReleaseFailsDoes, Elements DEF Only, BornInv, Of
  <2>4. PidInv'
    BY <1>9, ReleaseFailsDoes, Elements DEF Only, PidInv, PidFits, Of, Pre
  <2>5. FileInv'
    BY <1>9, ReleaseFailsDoes, Elements DEF Only, FileInv, Of
  <2>6. StageInv'
    BY <1>9, ReleaseFailsDoes, Elements DEF Only, StageInv, AfterReap, Ended, Detached
  <2>. QED
    BY <2>1, <2>2, <2>3, <2>4, <2>5, <2>6
<1>10. ASSUME NEW s \in Sessions, RemoveCgroup(s) PROVE Goal'
  <2>1. CliInv'
    BY <1>10, RemoveCgroupDoes DEF CliInv, Looking
  <2>2. SpawnInv'
    BY <1>10, RemoveCgroupDoes, Elements DEF Only, SpawnInv
  <2>3. BornInv'
    BY <1>10, RemoveCgroupDoes, Elements DEF Only, BornInv, Of
  <2>4. PidInv'
    BY <1>10, RemoveCgroupDoes, Elements DEF Only, PidInv, PidFits, Of, Pre
  <2>5. FileInv'
    BY <1>10, RemoveCgroupDoes, Elements DEF Only, FileInv, Of
  <2>6. StageInv'
    BY <1>10, RemoveCgroupDoes, Elements DEF Only, StageInv, AfterReap, Ended, Detached
  <2>. QED
    BY <2>1, <2>2, <2>3, <2>4, <2>5, <2>6
<1>11. ASSUME NEW s \in Sessions, Unmount(s) PROVE Goal'
  <2>1. CliInv'
    BY <1>11, UnmountDoes DEF CliInv, Looking
  <2>2. SpawnInv'
    BY <1>11, UnmountDoes, Elements DEF Only, SpawnInv
  <2>3. BornInv'
    BY <1>11, UnmountDoes, Elements DEF Only, BornInv, Of
  <2>4. PidInv'
    BY <1>11, UnmountDoes, Elements DEF Only, PidInv, PidFits, Of, Pre
  <2>5. FileInv'
    BY <1>11, UnmountDoes, Elements DEF Only, FileInv, Of
  <2>6. StageInv'
    BY <1>11, UnmountDoes, Elements DEF Only, StageInv, AfterReap, Ended, Detached
  <2>. QED
    BY <2>1, <2>2, <2>3, <2>4, <2>5, <2>6
<1>12. ASSUME NEW s \in Sessions, DetachedRemovesDir(s) PROVE Goal'
  <2>1. CliInv'
    BY <1>12, DetachedRemovesDirDoes DEF CliInv, Looking
  <2>2. SpawnInv'
    BY <1>12, DetachedRemovesDirDoes, Elements DEF Only, SpawnInv
  <2>3. BornInv'
    BY <1>12, DetachedRemovesDirDoes, Elements DEF Only, Removes, Cleared, NoCfg, BornInv, Of
  <2>4. PidInv'
    <3>. SUFFICES ASSUME NEW c \in Ids PROVE PidFits(c)'
      BY DEF PidInv
    <3>1. cfg'[c] \in {cfg[c], NoCfg}
      BY <1>12, DetachedRemovesDirDoes, Elements DEF Removes, Cleared
    <3>2. CASE cfg'[c] = NoCfg
      BY <3>2 DEF PidFits, NoCfg, NoStatus
    <3>3. CASE cfg'[c] = cfg[c]
      BY <1>12, <3>3, DetachedRemovesDirDoes DEF Only, PidInv, PidFits, Of, Pre
    <3>. QED
      BY <3>1, <3>2, <3>3
  <2>5. FileInv'
    BY <1>12, DetachedRemovesDirDoes, Elements DEF Only, Removes, Cleared, NoCfg, FileInv, Of
  <2>6. StageInv'
    BY <1>12, DetachedRemovesDirDoes, Elements DEF Only, StageInv, AfterReap, Ended, Detached
  <2>. QED
    BY <2>1, <2>2, <2>3, <2>4, <2>5, <2>6
<1>13. ASSUME NEW s \in Sessions, WriteFinal(s) PROVE Goal'
  <2>1. CliInv'
    BY <1>13, WriteFinalDoes DEF CliInv, Looking
  <2>2. SpawnInv'
    BY <1>13, WriteFinalDoes, Elements DEF Only, SpawnInv
  <2>3. BornInv'
    BY <1>13, WriteFinalDoes, Elements DEF Only, BornInv, Of
  <2>4. PidInv'
    <3>. SUFFICES ASSUME NEW c \in Ids PROVE PidFits(c)'
      BY DEF PidInv
    <3>1. proc[s] = "gone" /\ proc'[s] = "gone" /\ stage'[s] \in {"reported", "dead"}
      BY <1>13, WriteFinalDoes DEF StageInv, AfterReap
    <3>2. CASE cfg'[c] = cfg[c]
      BY <1>13, <3>1, <3>2, WriteFinalDoes DEF Only, PidInv, PidFits, Of, Pre
    <3>3. CASE c = sid[s] /\ dir[c]
      BY <1>13, <3>1, <3>3, WriteFinalDoes, ConstantFacts DEF Final, PidFits, Of, Pre
    <3>. QED
      BY <1>13, <3>2, <3>3, WriteFinalDoes
  <2>5. FileInv'
    BY <1>13, WriteFinalDoes, Elements DEF Only, FileInv, Of
  <2>6. StageInv'
    BY <1>13, WriteFinalDoes, Elements DEF Only, StageInv, AfterReap, Ended, Detached
  <2>. QED
    BY <2>1, <2>2, <2>3, <2>4, <2>5, <2>6
<1>14. ASSUME NEW s \in Sessions, KillPidFile(s) PROVE Goal'
  <2>1. CliInv'
    BY <1>14, KillPidFileDoes DEF CliInv, Looking
  <2>2. SpawnInv'
    BY <1>14, KillPidFileDoes, Elements DEF SpawnInv
  <2>3. BornInv'
    BY <1>14, KillPidFileDoes, Elements DEF BornInv, Of
  <2>4. PidInv'
    BY <1>14, KillPidFileDoes, Elements DEF PidInv, PidFits, Of, Pre
  <2>5. FileInv'
    BY <1>14, KillPidFileDoes, Elements DEF FileInv, Of
  <2>6. StageInv'
    BY <1>14, KillPidFileDoes, Elements DEF StageInv, AfterReap, Ended, Detached
  <2>. QED
    BY <2>1, <2>2, <2>3, <2>4, <2>5, <2>6
<1>15. ASSUME NEW s \in Sessions, ForegroundEnds(s) PROVE Goal'
  <2>1. CliInv'
    BY <1>15, ForegroundEndsDoes DEF CliInv, Looking
  <2>2. SpawnInv'
    BY <1>15, ForegroundEndsDoes, Elements DEF Only, SpawnInv
  <2>3. BornInv'
    BY <1>15, ForegroundEndsDoes, Elements DEF Only, Removes, Cleared, NoCfg, BornInv, Of
  <2>4. PidInv'
    <3>. SUFFICES ASSUME NEW c \in Ids PROVE PidFits(c)'
      BY DEF PidInv
    <3>1. cfg'[c] \in {cfg[c], NoCfg}
      BY <1>15, ForegroundEndsDoes, Elements DEF Removes, Cleared
    <3>2. CASE cfg'[c] = NoCfg
      BY <3>2 DEF PidFits, NoCfg, NoStatus
    <3>3. CASE cfg'[c] = cfg[c]
      BY <1>15, <3>3, ForegroundEndsDoes DEF Only, PidInv, PidFits, Of, Pre
    <3>. QED
      BY <3>1, <3>2, <3>3
  <2>5. FileInv'
    BY <1>15, ForegroundEndsDoes, Elements DEF Only, Removes, Cleared, NoCfg, FileInv, Of
  <2>6. StageInv'
    BY <1>15, ForegroundEndsDoes, Elements DEF Only, StageInv, AfterReap, Ended, Detached
  <2>. QED
    BY <2>1, <2>2, <2>3, <2>4, <2>5, <2>6
<1>16. ASSUME NEW s \in Sessions, SupervisorKilled(s) PROVE Goal'
  <2>1. CliInv'
    BY <1>16, SupervisorKilledDoes DEF CliInv, Looking
  <2>2. SpawnInv'
    BY <1>16, SupervisorKilledDoes, Elements DEF Only, SpawnInv
  <2>3. BornInv'
    BY <1>16, SupervisorKilledDoes, Elements DEF Only, BornInv, Of
  <2>4. PidInv'
    BY <1>16, SupervisorKilledDoes, Elements DEF Only, PidInv, PidFits, Of, Pre
  <2>5. FileInv'
    BY <1>16, SupervisorKilledDoes, Elements DEF Only, FileInv, Of
  <2>6. StageInv'
    BY <1>16, SupervisorKilledDoes, Elements DEF Only, StageInv, AfterReap, Ended, Detached
  <2>. QED
    BY <2>1, <2>2, <2>3, <2>4, <2>5, <2>6
<1>17. ASSUME NEW k \in CLIs, NEW c \in Ids, RefreshCheck(k, c) PROVE Goal'
  <2>1. SpawnInv' /\ PidInv' /\ StageInv'
    BY <1>17, RefreshCheckDoes
    DEF SpawnInv, PidInv, StageInv, PidFits, Of, Pre, AfterReap, Ended, Detached
  <2>2. BornInv'
    BY <1>17, RefreshCheckDoes, Elements DEF Moves, BornInv, Of, NoStatus
  <2>3. FileInv'
    BY <1>17, RefreshCheckDoes, Elements DEF Moves, FileInv, Of
  <2>4. CliInv'
    BY <1>17, RefreshCheckDoes, Elements DEF Moves, CliInv, Looking
  <2>. QED
    BY <2>1, <2>2, <2>3, <2>4
<1>18. ASSUME NEW k \in CLIs, RefreshMark(k) PROVE Goal'
  <2>1. SpawnInv' /\ StageInv'
    BY <1>18, RefreshMarkDoes DEF SpawnInv, StageInv, AfterReap, Ended, Detached
  <2>2. BornInv'
    BY <1>18, RefreshMarkDoes, Elements DEF Moves, Same, BornInv, Of
  <2>3. PidInv'
    BY <1>18, RefreshMarkDoes, Elements DEF PidInv, PidFits, Of, Pre
  <2>4. FileInv'
    BY <1>18, RefreshMarkDoes, Elements DEF Moves, Same, FileInv, Of
  <2>5. CliInv'
    BY <1>18, RefreshMarkDoes, Elements DEF Moves, Same, CliInv, Looking
  <2>. QED
    BY <2>1, <2>2, <2>3, <2>4, <2>5
<1>19. ASSUME NEW k \in CLIs, RefreshDetach(k) PROVE Goal'
  <2>1. SpawnInv' /\ PidInv' /\ StageInv'
    BY <1>19, RefreshDetachDoes
    DEF SpawnInv, PidInv, StageInv, PidFits, Of, Pre, AfterReap, Ended, Detached
  <2>2. BornInv'
    BY <1>19, RefreshDetachDoes, Elements DEF Moves, Same, BornInv, Of
  <2>3. FileInv'
    BY <1>19, RefreshDetachDoes, Elements DEF Moves, Same, FileInv, Of
  <2>4. CliInv'
    BY <1>19, RefreshDetachDoes, Elements DEF Moves, Same, CliInv, Looking
  <2>. QED
    BY <2>1, <2>2, <2>3, <2>4
<1>20. ASSUME NEW k \in CLIs, RefreshDone(k) PROVE Goal'
  <2>1. SpawnInv' /\ PidInv' /\ StageInv'
    BY <1>20, RefreshDoneDoes
    DEF SpawnInv, PidInv, StageInv, PidFits, Of, Pre, AfterReap, Ended, Detached
  <2>2. BornInv'
    BY <1>20, RefreshDoneDoes, Elements DEF Moves, Same, BornInv, Of
  <2>3. FileInv'
    BY <1>20, RefreshDoneDoes, Elements DEF Moves, Same, FileInv, Of
  <2>4. CliInv'
    BY <1>20, RefreshDoneDoes, Elements DEF Moves, Same, CliInv, Looking
  <2>. QED
    BY <2>1, <2>2, <2>3, <2>4
<1>21. ASSUME NEW k \in CLIs, StopReadPid(k) PROVE Goal'
  <2>1. SpawnInv' /\ PidInv' /\ StageInv'
    BY <1>21, StopReadPidDoes
    DEF SpawnInv, PidInv, StageInv, PidFits, Of, Pre, AfterReap, Ended, Detached
  <2>2. BornInv'
    BY <1>21, StopReadPidDoes, Elements DEF Moves, BornInv, Of
  <2>3. FileInv'
    BY <1>21, StopReadPidDoes, Elements DEF Moves, FileInv, PidInv, PidFits, Of
  <2>4. CliInv'
    BY <1>21, StopReadPidDoes, Elements DEF Moves, CliInv, Looking
  <2>. QED
    BY <2>1, <2>2, <2>3, <2>4
<1>22. ASSUME NEW k \in CLIs, StopSignal(k) PROVE Goal'
  <2>1. SpawnInv' /\ PidInv' /\ StageInv'
    BY <1>22, StopSignalDoes
    DEF SpawnInv, PidInv, StageInv, PidFits, Of, Pre, AfterReap, Ended, Detached
  <2>2. BornInv'
    BY <1>22, StopSignalDoes, Elements DEF Moves, BornInv, Of
  <2>3. FileInv'
    BY <1>22, StopSignalDoes, Elements DEF Moves, FileInv, Of
  <2>4. CliInv'
    BY <1>22, StopSignalDoes, Elements DEF Moves, CliInv, Looking
  <2>. QED
    BY <2>1, <2>2, <2>3, <2>4
<1>23. ASSUME NEW k \in CLIs, RmCheck(k) PROVE Goal'
  <2>1. SpawnInv' /\ PidInv' /\ StageInv'
    BY <1>23, RmCheckDoes
    DEF SpawnInv, PidInv, StageInv, PidFits, Of, Pre, AfterReap, Ended, Detached
  <2>2. BornInv'
    BY <1>23, RmCheckDoes, Elements DEF Moves, Same, BornInv, Of
  <2>3. FileInv'
    BY <1>23, RmCheckDoes, Elements DEF Moves, Same, FileInv, Of
  <2>4. CliInv'
    BY <1>23, RmCheckDoes, Elements DEF Moves, Same, CliInv, Looking
  <2>. QED
    BY <2>1, <2>2, <2>3, <2>4
<1>24. ASSUME NEW k \in CLIs, RmRemove(k) PROVE Goal'
  <2>1. SpawnInv' /\ StageInv'
    BY <1>24, RmRemoveDoes DEF SpawnInv, StageInv, AfterReap, Ended, Detached
  <2>2. BornInv'
    BY <1>24, RmRemoveDoes, Elements DEF Moves, Removes, Cleared, NoCfg, BornInv, Of
  <2>3. PidInv'
    <3>. SUFFICES ASSUME NEW c \in Ids PROVE PidFits(c)'
      BY DEF PidInv
    <3>1. cfg'[c] \in {cfg[c], NoCfg}
      BY <1>24, RmRemoveDoes, Elements DEF Removes, Cleared
    <3>2. CASE cfg'[c] = NoCfg
      BY <3>2 DEF PidFits, NoCfg, NoStatus
    <3>3. CASE cfg'[c] = cfg[c]
      BY <1>24, <3>3, RmRemoveDoes DEF PidInv, PidFits, Of, Pre
    <3>. QED
      BY <3>1, <3>2, <3>3
  <2>4. FileInv'
    BY <1>24, RmRemoveDoes, Elements DEF Moves, Removes, Cleared, NoCfg, FileInv, Of
  <2>5. CliInv'
    BY <1>24, RmRemoveDoes, Elements DEF Moves, CliInv, Looking
  <2>. QED
    BY <2>1, <2>2, <2>3, <2>4, <2>5
<1>25. ASSUME NEW k \in CLIs, StartCheck(k) PROVE Goal'
  <2>1. SpawnInv' /\ PidInv' /\ StageInv'
    BY <1>25, StartCheckDoes
    DEF SpawnInv, PidInv, StageInv, PidFits, Of, Pre, AfterReap, Ended, Detached
  <2>2. BornInv'
    BY <1>25, StartCheckDoes, Elements DEF Moves, Same, BornInv, Of
  <2>3. FileInv'
    BY <1>25, StartCheckDoes, Elements DEF Moves, Same, FileInv, Of
  <2>4. CliInv'
    BY <1>25, StartCheckDoes, Elements DEF Moves, Same, CliInv, Looking
  <2>. QED
    BY <2>1, <2>2, <2>3, <2>4
<1>26. ASSUME NEW k \in CLIs, RestartSignal(k) PROVE Goal'
  <2>1. SpawnInv' /\ PidInv' /\ StageInv'
    BY <1>26, RestartSignalDoes
    DEF SpawnInv, PidInv, StageInv, PidFits, Of, Pre, AfterReap, Ended, Detached
  <2>2. BornInv'
    BY <1>26, RestartSignalDoes, Elements DEF Moves, Same, BornInv, Of
  <2>3. FileInv'
    BY <1>26, RestartSignalDoes, Elements DEF Moves, Same, FileInv, Of
  <2>4. CliInv'
    BY <1>26, RestartSignalDoes, Elements DEF Moves, Same, CliInv, Looking
  <2>. QED
    BY <2>1, <2>2, <2>3, <2>4
<1>27. ASSUME NEW k \in CLIs, NEW c \in Ids, AutostartCheck(k, c) PROVE Goal'
  <2>1. SpawnInv' /\ PidInv' /\ StageInv'
    BY <1>27, AutostartCheckDoes
    DEF SpawnInv, PidInv, StageInv, PidFits, Of, Pre, AfterReap, Ended, Detached
  <2>2. BornInv'
    BY <1>27, AutostartCheckDoes, Elements DEF Moves, BornInv, Of
  <2>3. FileInv'
    BY <1>27, AutostartCheckDoes, Elements DEF Moves, FileInv, Of
  <2>4. CliInv'
    BY <1>27, AutostartCheckDoes, Elements DEF Moves, CliInv, Looking
  <2>. QED
    BY <2>1, <2>2, <2>3, <2>4
<1>28. ASSUME NEW k \in CLIs, AutostartDone(k) PROVE Goal'
  <2>1. SpawnInv' /\ PidInv' /\ StageInv'
    BY <1>28, AutostartDoneDoes
    DEF SpawnInv, PidInv, StageInv, PidFits, Of, Pre, AfterReap, Ended, Detached
  <2>2. BornInv'
    BY <1>28, AutostartDoneDoes, Elements DEF Moves, BornInv, Of
  <2>3. FileInv'
    BY <1>28, AutostartDoneDoes, Elements DEF Moves, FileInv, Of
  <2>4. CliInv'
    BY <1>28, AutostartDoneDoes, Elements DEF Moves, CliInv, Looking
  <2>. QED
    BY <2>1, <2>2, <2>3, <2>4
<1>29. ASSUME NEW k \in CLIs, Launch(k) PROVE Goal'
  <2>1. SpawnInv'
    <3>1. spawned \in Nat /\ Sessions \subseteq Nat
      BY LifecycleConstants DEF TypeOK, Pids, Sessions
    <3>. QED
      BY <1>29, <3>1, LaunchDoes DEF SpawnInv
  <2>2. BornInv'
    <3>1. \A c \in Ids : Of(c) \subseteq Of(c)'
      BY <1>29, LaunchAdds
    <3>2. \A j \in CLIs : cli'[j].at \in {"launch", "pidfile"} => cli'[j].id \in born
      BY <1>29, LaunchDoes DEF Moves, Same, BornInv
    <3>3. \A j \in CLIs : cli'[j].at = "mark" => cli'[j].cur = cli[j].cur /\ cli[j].at = "mark"
      BY <1>29, LaunchDoes DEF Moves, Same
    <3>4. \A u \in Sessions : stage'[u] # "unborn" => sid'[u] \in born
      BY <1>29, LaunchDoes, LaunchAdds DEF BornInv
    <3>. QED
      BY <1>29, <3>1, <3>2, <3>3, <3>4, LaunchDoes, Elements DEF BornInv
  <2>3. PidInv'
    <3>. SUFFICES ASSUME NEW c \in Ids PROVE PidFits(c)'
      BY DEF PidInv
    <3>1. Of(c) \subseteq Of(c)'
      BY <1>29, LaunchAdds
    <3>2. PidFits(c) /\ cfg' = cfg /\ boot' = boot /\ proc' = proc
      BY <1>29, LaunchDoes DEF PidInv
    <3>3. cfg[c].pid # 0 => cfg[c].pid \in Sessions /\ stage'[cfg[c].pid] = stage[cfg[c].pid]
      BY <1>29, <3>2, LaunchDoes, LaunchAdds DEF PidFits, Of
    <3>. QED
      BY <3>1, <3>2, <3>3 DEF PidFits, Pre
  <2>4. FileInv'
    <3>1. \A c \in Ids : Of(c) \subseteq Of(c)'
      BY <1>29, LaunchAdds
    <3>2. \A c \in Ids : c = cli[k].id => spawned + 1 \in Of(c)'
      BY <1>29, LaunchAdds
    <3>. QED
      BY <1>29, <3>1, <3>2, LaunchDoes, Elements DEF Moves, Same, FileInv
  <2>5. CliInv'
    BY <1>29, LaunchDoes, Elements DEF Moves, Same, CliInv, Looking
  <2>6. StageInv'
    BY <1>29, LaunchDoes, LaunchAdds DEF StageInv, AfterReap, Detached
  <2>. QED
    BY <2>1, <2>2, <2>3, <2>4, <2>5, <2>6
<1>30. ASSUME NEW k \in CLIs, LaunchFails(k) PROVE Goal'
  <2>1. SpawnInv' /\ PidInv' /\ StageInv'
    BY <1>30, LaunchFailsDoes
    DEF SpawnInv, PidInv, StageInv, PidFits, Of, Pre, AfterReap, Ended, Detached
  <2>2. BornInv'
    BY <1>30, LaunchFailsDoes, Elements DEF Moves, Same, BornInv, Of
  <2>3. FileInv'
    BY <1>30, LaunchFailsDoes, Elements DEF Moves, Same, FileInv, Of
  <2>4. CliInv'
    BY <1>30, LaunchFailsDoes, Elements DEF Moves, Same, CliInv, Looking
  <2>. QED
    BY <2>1, <2>2, <2>3, <2>4
<1>31. ASSUME NEW k \in CLIs, WritePidFile(k) PROVE Goal'
  <2>1. SpawnInv' /\ PidInv' /\ StageInv'
    BY <1>31, WritePidFileDoes
    DEF SpawnInv, PidInv, StageInv, PidFits, Of, Pre, AfterReap, Ended, Detached
  <2>2. BornInv'
    BY <1>31, WritePidFileDoes, Elements DEF Moves, Same, BornInv, Of
  <2>3. FileInv'
    BY <1>31, WritePidFileDoes, Elements DEF Moves, Same, FileInv, Of
  <2>4. CliInv'
    BY <1>31, WritePidFileDoes, Elements DEF Moves, Same, CliInv, Looking
  <2>. QED
    BY <2>1, <2>2, <2>3, <2>4
<1>32. ASSUME NEW k \in CLIs, CliKilled(k) PROVE Goal'
  <2>1. SpawnInv' /\ PidInv' /\ StageInv'
    BY <1>32, CliKilledDoes
    DEF SpawnInv, PidInv, StageInv, PidFits, Of, Pre, AfterReap, Ended, Detached
  <2>2. BornInv'
    BY <1>32, CliKilledDoes, Elements DEF Moves, BornInv, Of
  <2>3. FileInv'
    BY <1>32, CliKilledDoes, Elements DEF Moves, FileInv, Of
  <2>4. CliInv'
    BY <1>32, CliKilledDoes, Elements DEF Moves, CliInv, Looking
  <2>. QED
    BY <2>1, <2>2, <2>3, <2>4
<1>33. ASSUME NEW k \in CLIs, NEW cmd \in AllCommands, NEW c \in Ids, Issue(k, cmd, c) PROVE Goal'
  <2>1. SpawnInv' /\ PidInv' /\ StageInv'
    BY <1>33, IssueDoes
    DEF SpawnInv, PidInv, StageInv, PidFits, Of, Pre, AfterReap, Ended, Detached
  <2>2. BornInv'
    BY <1>33, IssueDoes, Elements DEF Moves, BornInv, Of
  <2>3. FileInv'
    BY <1>33, IssueDoes, Elements DEF Moves, FileInv, Of
  <2>4. CliInv'
    BY <1>33, IssueDoes, Elements DEF Moves, CliInv, Looking
  <2>. QED
    BY <2>1, <2>2, <2>3, <2>4
<1>34. ASSUME Reboot PROVE Goal'
  <2>1. SpawnInv'
    BY <1>34, RebootDoes, Elements DEF SpawnInv
  <2>2. BornInv'
    BY <1>34, RebootDoes, Elements DEF BornInv, Of
  <2>3. PidInv'
    BY <1>34, RebootDoes, Elements DEF PidInv, PidFits, Of, Pre
  <2>4. FileInv'
    BY <1>34, RebootDoes, Elements DEF FileInv, Of
  <2>5. CliInv'
    BY <1>34, RebootDoes, Elements DEF CliInv, Looking
  <2>6. StageInv'
    BY <1>34, RebootDoes, Elements DEF StageInv, AfterReap, Ended, Detached
  <2>. QED
    BY <2>1, <2>2, <2>3, <2>4, <2>5, <2>6
<1>35. CASE UNCHANGED vars
  BY <1>35
  DEF vars, supervisors, files, kernel, SpawnInv, BornInv, PidInv, FileInv, CliInv, StageInv,
      Of, PidFits, Pre, Looking, AfterReap, Ended, Detached
<1>. QED
  BY <1>1, <1>2, <1>3, <1>4, <1>5, <1>6, <1>7, <1>8, <1>9, <1>10, <1>11, <1>12, <1>13, <1>14,
     <1>15, <1>16, <1>17, <1>18, <1>19, <1>20, <1>21, <1>22, <1>23, <1>24, <1>25, <1>26, <1>27,
     <1>28, <1>29, <1>30, <1>31, <1>32, <1>33, <1>34, <1>35
  DEF Next, SupervisorStep, CommandStep, Fault

-----------------------------------------------------------------------------
(* What holds in addition of users that keep the order.                    *)

\* At work: its supervisor has not ended, or its init runs.
Busy(s) == stage[s] \notin {"unborn", "done", "dead"} \/ Live(s)

(* At most one session of a container is at work.                          *)
OneInv ==
    /\ \A s, t \in Sessions : sid[s] = sid[t] /\ Busy(s) /\ Busy(t) => s = t
    /\ RunsOnce => \A s, t \in Sessions :
          sid[s] = sid[t] /\ stage[s] # "unborn" /\ stage[t] # "unborn" => s = t

(* Who launches a container finds none of its sessions at work, and nobody
   else launches it.                                                       *)
LaunchInv ==
    /\ \A k \in CLIs : cli[k].at = "launch" =>
          /\ \A s \in Of(cli[k].id) : ~Busy(s)
          /\ RunsOnce => Of(cli[k].id) = {}
    /\ \A j, k \in CLIs :
          cli[j].at = "launch" /\ cli[k].at = "launch" /\ cli[j].id = cli[k].id => j = k

(* What a status says of the sessions that are at work.                    *)
StatusFits(c) ==
    /\ cfg[c].status = "Active" =>
          /\ stage[cfg[c].pid] \notin {"reported", "done"}
          /\ \A s \in Of(c) : Busy(s) => s = cfg[c].pid \/ stage[s] \in Pre
    /\ cfg[c].status \in Final => \A s \in Of(c) : Busy(s) => stage[s] \in Pre \cup AfterReap
    /\ cfg[c].status = "Stopped" =>
          \A s \in Of(c) : stage[s] \in Pre \cup {"reported", "done", "dead"}
    /\ RunsOnce /\ cfg[c].status # NoStatus => \A s \in Of(c) : stage[s] \notin Pre
StatusInv == \A c \in Ids : StatusFits(c)

DirInv == \A s \in Sessions : stage[s] \in {"mounted", "cloned"} \/ Live(s) => dir[sid[s]]

\* Container c was launched, its supervisors are past the set-up, and it is
\* not launched again; nor does an init of it run.
Beyond(c) ==
    /\ Of(c) # {}
    /\ \A s \in Of(c) : stage[s] \notin Pre
    /\ \A k \in CLIs : cli[k].at = "launch" => cli[k].id # c
Over(c) == Beyond(c) /\ \A s \in Of(c) : proc[s] \in {"none", "gone"}

(* Commands act on containers that are past the set-up, and mark or remove
   those that are over.                                                    *)
LookFits(k) ==
    /\ cli[k].at \in {"act", "signal"} => Beyond(cli[k].id)
    /\ cli[k].at = "signal" /\ cfg[cli[k].id].status = "Active" =>
          cli[k].pid # 0 /\ cli[k].pid = cfg[cli[k].id].pid
    /\ cli[k].at = "remove" => Over(cli[k].id)
    /\ cli[k].at = "mark" => Over(cli[k].cur)
    /\ cli[k].at = "mark" /\ Patient =>
          /\ cfg[cli[k].cur].status # "Stopped"
          /\ \A s \in Of(cli[k].cur) : stage[s] \in Ended
    /\ cli[k].at \in Looking /\ ~RunsOnce =>
          \A c \in Ids : cfg[c].status # NoStatus /\ c \notin cli[k].todo =>
             \A s \in Of(c) : stage[s] \notin Pre
LookInv == \A k \in CLIs : LookFits(k)

(* Only a session at the right stage, or one whose supervisor died, leaves
   something of the container in the kernel.                               *)
Holding == {"mounted", "cloned", "configured", "released", "waiting", "reaped", "uncaged"}
Caging  == {"cloned", "configured", "released", "waiting", "reaped"}
LeftOf(c) ==
    (\A s \in Of(c) : stage[s] # "dead") =>
        /\ mounts[c] # 0 => mounts[c] = 1 /\ \E s \in Of(c) : stage[s] \in Holding
        /\ cgroup[c] => \E s \in Of(c) : stage[s] \in Caging
LeftInv == \A c \in Ids : LeftOf(c)

LEMMA Turns ==
    ASSUME CliInv, Orderly, ~RunsOnce
    PROVE  /\ Patient /\ "kill" \notin Faults
           /\ \A j, k \in CLIs : cli[j].at # "idle" /\ cli[k].at # "idle" => j = k
  BY DEF CliInv, Orderly, TakeTurns, OneCLI

LEMMA Repeats ==
    ASSUME TypeOK, CliInv, NEW k \in CLIs,
           \/ cli[k].at \in {"sleep", "auto"}
           \/ cli[k].cmd \in {"start", "restart", "autostart"}
    PROVE  ~RunsOnce
<1>1. cli[k].cmd \in Commands \cup {"ps"}
  BY CliTypes DEF Invocation
<1>. QED
  BY <1>1 DEF RunsOnce, CliInv

(* Nothing is to be shown of a command that looks at no container.         *)
LEMMA NotLooking ==
    ASSUME NEW k \in CLIs, cli'[k].at \notin Looking
    PROVE  LookFits(k)'
  BY DEF LookFits, Looking

(* A command that does not set out to launch takes nothing from the others. *)
LEMMA OthersLook ==
    ASSUME LookInv, NEW k \in CLIs, NEW l \in Places, Moves(k, l), l # "launch",
           UNCHANGED <<setting, sid, stage, proc>>,
           \A c \in Ids : cfg'[c] = cfg[c] \/ cfg'[c].status = NoStatus, TypeOK
    PROVE  /\ \A c \in Ids : (Beyond(c) => Beyond(c)') /\ (Over(c) => Over(c)')
           /\ \A j \in CLIs : j # k => LookFits(j)'
<1>1. \A c \in Ids : Of(c)' = Of(c)
  BY DEF Of
<1>2. ASSUME NEW c \in Ids PROVE Beyond(c) => Beyond(c)'
  BY <1>1 DEF Beyond, Moves, Pre
<1>3. ASSUME NEW c \in Ids PROVE Over(c) => Over(c)'
  BY <1>1, <1>2 DEF Over
<1>4. ASSUME NEW j \in CLIs, j # k PROVE LookFits(j)'
  <2>1. LookFits(j) /\ cli'[j] = cli[j] /\ cli[j].id \in Ids /\ cli[j].cur \in Ids
    BY <1>4, Elements DEF LookInv, Moves
  <2>. QED
    BY <1>1, <1>2, <1>3, <2>1 DEF LookFits, Pre, RunsOnce, Commands, Patient, NoStatus
<1>. QED
  BY <1>2, <1>3, <1>4

(* Every step of users that keep the order keeps it.                       *)
LEMMA OrderStep ==
    ASSUME TypeOK, SpawnInv, BornInv, PidInv, FileInv, CliInv, StageInv,
           Orderly, OneInv, LaunchInv, StatusInv, DirInv, LookInv, LeftInv, [Next]_vars
    PROVE  OneInv' /\ LaunchInv' /\ StatusInv' /\ DirInv' /\ LookInv' /\ LeftInv'
<1>. DEFINE Goal == OneInv /\ LaunchInv /\ StatusInv /\ DirInv /\ LookInv /\ LeftInv
<1>1. ASSUME NEW s \in Sessions, Mount(s) PROVE Goal'
  <2>1. OneInv'
    BY <1>1, MountDoes, Elements DEF Only, OneInv, Busy, Live, RunsOnce, Commands
  <2>2. LaunchInv'
    BY <1>1, MountDoes, Elements DEF Only, LaunchInv, Of, Busy, Live, RunsOnce, Commands
  <2>3. StatusInv'
    <3>. SUFFICES ASSUME NEW c \in Ids PROVE StatusFits(c)'
      BY DEF StatusInv
    <3>1. StatusFits(c) /\ PidFits(c)
      BY DEF StatusInv, PidInv
    <3>2. Of(c)' = Of(c) /\ Of(c) \subseteq Sessions /\ (s \in Of(c) => sid[s] = c)
      BY <1>1, MountDoes DEF Only, Of
    <3>3. proc[s] = "none"
      BY <1>1, MountDoes DEF StageInv, AfterReap
    <3>. QED
      BY <1>1, <3>1, <3>2, <3>3, MountDoes
      DEF Only, StatusFits, Busy, Live, Pre, AfterReap, Final, RunsOnce, Commands, PidFits
  <2>4. DirInv'
    BY <1>1, MountDoes, Elements DEF Only, DirInv, Live
  <2>5. LookInv'
    BY <1>1, MountDoes, Elements
    DEF Only, LookInv, LookFits, Over, Beyond, Of, Pre, Looking, Ended, RunsOnce, Commands,
        Patient
  <2>6. LeftInv'
    <3>. SUFFICES ASSUME NEW c \in Ids PROVE LeftOf(c)'
      BY DEF LeftInv
    <3>1. LeftOf(c) /\ Of(c)' = Of(c) /\ Of(c) \subseteq Sessions /\ (s \in Of(c) <=> sid[s] = c)
      BY <1>1, MountDoes DEF LeftInv, Only, Of
    <3>2. CASE c # sid[s]
      BY <1>1, <3>1, <3>2, MountDoes DEF Only, LeftOf
    <3>3. CASE c = sid[s]
      <4>1. \A t \in Of(c) : t # s => stage[t] \notin Holding \cup Caging
        BY <1>1, <3>3, MountDoes DEF OneInv, Busy, Of, Holding, Caging
      <4>2. (\A t \in Of(c) : stage[t] # "dead") => mounts[c] = 0 /\ ~cgroup[c]
        BY <1>1, <4>1, <3>1, MountDoes DEF LeftOf, Holding, Caging
      <4>3. \A t \in Of(c) : stage'[t] = "dead" <=> stage[t] = "dead"
        BY <1>1, <3>1, MountDoes DEF Only
      <4>. QED
        BY <1>1, <3>1, <3>3, <4>2, <4>3, MountDoes DEF LeftOf, Holding
    <3>. QED
      BY <3>2, <3>3
  <2>. QED
    BY <2>1, <2>2, <2>3, <2>4, <2>5, <2>6
<1>2. ASSUME NEW s \in Sessions, SetupFails(s) PROVE Goal'
  <2>1. OneInv'
    BY <1>2, SetupFailsDoes, Elements DEF Only, OneInv, Busy, Live, RunsOnce, Commands
  <2>2. LaunchInv'
    BY <1>2, SetupFailsDoes, Elements DEF Only, LaunchInv, Of, Busy, Live, RunsOnce, Commands
  <2>3. StatusInv'
    <3>. SUFFICES ASSUME NEW c \in Ids PROVE StatusFits(c)'
      BY DEF StatusInv
    <3>1. StatusFits(c) /\ PidFits(c)
      BY DEF StatusInv, PidInv
    <3>2. Of(c)' = Of(c) /\ Of(c) \subseteq Sessions /\ (s \in Of(c) => sid[s] = c)
      BY <1>2, SetupFailsDoes DEF Only, Of
    <3>3. proc[s] = "none"
      BY <1>2, SetupFailsDoes DEF StageInv, AfterReap
    <3>. QED
      BY <1>2, <3>1, <3>2, <3>3, SetupFailsDoes
      DEF Only, StatusFits, Busy, Live, Pre, AfterReap, Final, RunsOnce, Commands, PidFits
  <2>4. DirInv'
    BY <1>2, SetupFailsDoes, Elements DEF Only, DirInv, Live
  <2>5. LookInv'
    BY <1>2, SetupFailsDoes, Elements
    DEF Only, LookInv, LookFits, Over, Beyond, Of, Pre, Looking, Ended, RunsOnce, Commands,
        Patient
  <2>6. LeftInv'
    BY <1>2, SetupFailsDoes, Elements DEF Only, LeftInv, LeftOf, Of, Holding, Caging
  <2>. QED
    BY <2>1, <2>2, <2>3, <2>4, <2>5, <2>6
<1>3. ASSUME NEW s \in Sessions, Clone(s) PROVE Goal'
  <2>1. OneInv'
    BY <1>3, CloneDoes, Elements DEF Only, OneInv, Busy, Live, RunsOnce, Commands
  <2>2. LaunchInv'
    BY <1>3, CloneDoes, Elements DEF Only, LaunchInv, Of, Busy, Live, RunsOnce, Commands
  <2>3. StatusInv'
    <3>. SUFFICES ASSUME NEW c \in Ids PROVE StatusFits(c)'
      BY DEF StatusInv
    <3>1. StatusFits(c) /\ PidFits(c)
      BY DEF StatusInv, PidInv
    <3>2. Of(c)' = Of(c) /\ Of(c) \subseteq Sessions /\ (s \in Of(c) => sid[s] = c)
      BY <1>3, CloneDoes DEF Only, Of
    <3>3. proc[s] = "none"
      BY <1>3, CloneDoes DEF StageInv, AfterReap
    <3>. QED
      BY <1>3, <3>1, <3>2, <3>3, CloneDoes
      DEF Only, StatusFits, Busy, Live, Pre, AfterReap, Final, RunsOnce, Commands, PidFits
  <2>4. DirInv'
    BY <1>3, CloneDoes, Elements DEF Only, DirInv, Live
  <2>5. LookInv'
    BY <1>3, CloneDoes, Elements
    DEF Only, LookInv, LookFits, Over, Beyond, Of, Pre, Looking, Ended, RunsOnce, Commands,
        Patient
  <2>6. LeftInv'
    BY <1>3, CloneDoes, Elements DEF Only, LeftInv, LeftOf, Of, Holding, Caging
  <2>. QED
    BY <2>1, <2>2, <2>3, <2>4, <2>5, <2>6
<1>4. ASSUME NEW s \in Sessions, WriteActive(s) PROVE Goal'
  <2>1. OneInv'
    BY <1>4, WriteActiveDoes, Elements DEF Only, OneInv, Busy, Live, RunsOnce, Commands
  <2>2. LaunchInv'
    BY <1>4, WriteActiveDoes, Elements DEF Only, LaunchInv, Of, Busy, Live, RunsOnce, Commands
  <2>3. StatusInv'
    <3>. SUFFICES ASSUME NEW c \in Ids PROVE StatusFits(c)'
      BY DEF StatusInv
    <3>1. StatusFits(c) /\ PidFits(c)
      BY DEF StatusInv, PidInv
    <3>2. Of(c)' = Of(c) /\ Of(c) \subseteq Sessions /\ (s \in Of(c) <=> sid[s] = c)
      BY <1>4, WriteActiveDoes DEF Only, Of
    <3>3. dir[sid[s]]
      BY <1>4, WriteActiveDoes DEF DirInv
    <3>4. CASE c # sid[s]
      BY <1>4, <3>1, <3>2, <3>4, WriteActiveDoes
      DEF Only, StatusFits, Busy, Live, Pre, AfterReap, Final, RunsOnce, Commands, PidFits
    <3>5. CASE c = sid[s]
      <4>1. \A t \in Of(c) : Busy(t) => t = s
        BY <1>4, <3>2, <3>5, WriteActiveDoes DEF OneInv, Busy, Of
      <4>2. RunsOnce => \A t \in Of(c) : t = s
        BY <1>4, <3>2, <3>5, WriteActiveDoes DEF OneInv, Of
      <4>3. cfg'[c].status = "Active" /\ cfg'[c].pid = s /\ stage'[s] \in {"configured", "released"}
        BY <1>4, <3>3, <3>5, WriteActiveDoes
      <4>4. \A t \in Of(c) : Busy(t)' => Busy(t)
        BY <1>4, <3>2, WriteActiveDoes DEF Only, Busy, Live
      <4>. QED
        BY <1>4, <3>2, <4>1, <4>2, <4>3, <4>4, WriteActiveDoes
        DEF StatusFits, Pre, Final, RunsOnce, Commands
    <3>. QED
      BY <3>4, <3>5
  <2>4. DirInv'
    BY <1>4, WriteActiveDoes, Elements DEF Only, DirInv, Live
  <2>5. LookInv'
    <3>. SUFFICES ASSUME NEW k \in CLIs PROVE LookFits(k)'
      BY DEF LookInv
    <3>1. \A c \in Ids : Of(c)' = Of(c) /\ Of(c) \subseteq Sessions
      BY <1>4, WriteActiveDoes DEF Only, Of
    <3>2. stage[s] \notin Ended /\ stage'[s] \notin Pre /\ s \in Of(sid[s]) /\ sid[s] \in Ids
      BY <1>4, WriteActiveDoes, Elements DEF Ended, Pre, Of
    <3>3. \A c \in Ids : Beyond(c) => Beyond(c)'
      BY <1>4, <3>1, <3>2, WriteActiveDoes DEF Only, Beyond
    <3>4. \A c \in Ids : Over(c) => Over(c)'
      BY <1>4, <3>1, <3>3, WriteActiveDoes DEF Only, Over
    <3>5. LookFits(k) /\ cli' = cli /\ setting' = setting /\ cli[k].id \in Ids /\ cli[k].cur \in Ids
      BY <1>4, WriteActiveDoes, Elements DEF LookInv
    <3>6. cli[k].at = "mark" /\ Patient => sid[s] # cli[k].cur
      BY <3>2, <3>5 DEF LookFits
    <3>7. \A t \in Of(sid[s]) : t # s => stage[t] \notin Pre /\ stage'[t] \notin Pre
      BY <1>4, <3>1, <3>2, WriteActiveDoes DEF OneInv, Only, Busy, Pre, Of
    <3>8. \A c \in Ids : c # sid[s] => cfg'[c] = cfg[c] /\ \A t \in Of(c) : stage'[t] = stage[t]
      BY <1>4, <3>1, WriteActiveDoes DEF Only, Of
    <3>9. \A c \in Ids : \A t \in Of(c) : stage[t] \in Ended => stage'[t] \in Ended
      BY <1>4, <3>1, <3>2, WriteActiveDoes DEF Only
    <3>10. cli[k].at = "signal" => sid[s] # cli[k].id
      BY <1>4, <3>2, <3>5, WriteActiveDoes DEF LookFits, Beyond, Pre
    <3>. QED
      BY <3>1, <3>2, <3>3, <3>4, <3>5, <3>6, <3>7, <3>8, <3>9, <3>10
      DEF LookFits, RunsOnce, Commands, Patient
  <2>6. LeftInv'
    BY <1>4, WriteActiveDoes, Elements DEF Only, LeftInv, LeftOf, Of, Holding, Caging
  <2>. QED
    BY <2>1, <2>2, <2>3, <2>4, <2>5, <2>6
<1>5. ASSUME NEW s \in Sessions, WriteGo(s) PROVE Goal'
  <2>1. OneInv'
    BY <1>5, WriteGoDoes, Elements DEF Only, OneInv, Busy, Live, RunsOnce, Commands
  <2>2. LaunchInv'
    BY <1>5, WriteGoDoes, Elements DEF Only, LaunchInv, Of, Busy, Live, RunsOnce, Commands
  <2>3. StatusInv'
    <3>. SUFFICES ASSUME NEW c \in Ids PROVE StatusFits(c)'
      BY DEF StatusInv
    <3>1. StatusFits(c) /\ PidFits(c)
      BY DEF StatusInv, PidInv
    <3>2. Of(c)' = Of(c) /\ Of(c) \subseteq Sessions /\ (s \in Of(c) => sid[s] = c)
      BY <1>5, WriteGoDoes DEF Only, Of
    <3>3. proc[s] = "blocked"
      BY <1>5, WriteGoDoes DEF StageInv, AfterReap
    <3>. QED
      BY <1>5, <3>1, <3>2, <3>3, WriteGoDoes
      DEF Only, StatusFits, Busy, Live, Pre, AfterReap, Final, RunsOnce, Commands, PidFits
  <2>4. DirInv'
    <3>1. proc[s] = "blocked"
      BY <1>5, WriteGoDoes DEF StageInv
    <3>. QED
      BY <1>5, <3>1, WriteGoDoes DEF Only, DirInv, Live
  <2>5. LookInv'
    <3>. SUFFICES ASSUME NEW k \in CLIs PROVE LookFits(k)'
      BY DEF LookInv
    <3>1. proc[s] = "blocked" /\ \A c \in Ids : Of(c)' = Of(c) /\ Of(c) \subseteq Sessions
      BY <1>5, WriteGoDoes DEF StageInv, Only, Of
    <3>2. \A c \in Ids : (Beyond(c) => Beyond(c)') /\ (Over(c) => Over(c)')
      BY <1>5, <3>1, WriteGoDoes DEF Only, Over, Beyond, Pre
    <3>. QED
      BY <1>5, <3>1, <3>2, WriteGoDoes, Elements
      DEF Only, LookInv, LookFits, Pre, Ended, RunsOnce, Commands, Patient
  <2>6. LeftInv'
    BY <1>5, WriteGoDoes, Elements DEF Only, LeftInv, LeftOf, Of, Holding, Caging
  <2>. QED
    BY <2>1, <2>2, <2>3, <2>4, <2>5, <2>6
<1>6. ASSUME NEW s \in Sessions, Connect(s) PROVE Goal'
  <2>1. OneInv'
    BY <1>6, ConnectDoes, Elements DEF Only, OneInv, Busy, Live, RunsOnce, Commands
  <2>2. LaunchInv'
    BY <1>6, ConnectDoes, Elements DEF Only, LaunchInv, Of, Busy, Live, RunsOnce, Commands
  <2>3. StatusInv'
    <3>. SUFFICES ASSUME NEW c \in Ids PROVE StatusFits(c)'
      BY DEF StatusInv
    <3>1. StatusFits(c) /\ PidFits(c)
      BY DEF StatusInv, PidInv
    <3>2. Of(c)' = Of(c) /\ Of(c) \subseteq Sessions /\ (s \in Of(c) => sid[s] = c)
      BY <1>6, ConnectDoes DEF Only, Of
    <3>3. proc[s] \in {"running", "zombie"}
      BY <1>6, ConnectDoes DEF StageInv, AfterReap
    <3>. QED
      BY <1>6, <3>1, <3>2, <3>3, ConnectDoes
      DEF Only, StatusFits, Busy, Live, Pre, AfterReap, Final, RunsOnce, Commands, PidFits
  <2>4. DirInv'
    BY <1>6, ConnectDoes, Elements DEF Only, DirInv, Live
  <2>5. LookInv'
    BY <1>6, ConnectDoes, Elements
    DEF Only, LookInv, LookFits, Over, Beyond, Of, Pre, Looking, Ended, RunsOnce, Commands,
        Patient
  <2>6. LeftInv'
    BY <1>6, ConnectDoes, Elements DEF Only, LeftInv, LeftOf, Of, Holding, Caging
  <2>. QED
    BY <2>1, <2>2, <2>3, <2>4, <2>5, <2>6
<1>7. ASSUME NEW s \in Sessions, NEW x \in Codes, Exit(s, x) PROVE Goal'
  <2>1. LeftInv'
    BY <1>7, ExitDoes DEF LeftInv, LeftOf, Of, Holding, Caging
  <2>2. OneInv'
    BY <1>7, ExitDoes, Elements DEF Only, OneInv, Busy, Live, RunsOnce, Commands
  <2>3. LaunchInv'
    BY <1>7, ExitDoes, Elements DEF Only, LaunchInv, Of, Busy, Live, RunsOnce, Commands
  <2>4. StatusInv'
    BY <1>7, ExitDoes, Elements
    DEF Only, StatusInv, StatusFits, Of, Busy, Live, Pre, AfterReap, Final, RunsOnce, Commands
  <2>5. DirInv'
    BY <1>7, ExitDoes, Elements DEF Only, DirInv, Live
  <2>6. LookInv'
    BY <1>7, ExitDoes, Elements
    DEF Only, LookInv, LookFits, Over, Beyond, Of, Pre, Looking, Ended, RunsOnce, Commands,
        Patient
  <2>. QED
    BY <2>1, <2>2, <2>3, <2>4, <2>5, <2>6
<1>8. ASSUME NEW s \in Sessions, Reap(s) PROVE Goal'
  <2>1. OneInv'
    BY <1>8, ReapDoes, Elements DEF Only, OneInv, Busy, Live, RunsOnce, Commands
  <2>2. LaunchInv'
    BY <1>8, ReapDoes, Elements DEF Only, LaunchInv, Of, Busy, Live, RunsOnce, Commands
  <2>3. StatusInv'
    <3>. SUFFICES ASSUME NEW c \in Ids PROVE StatusFits(c)'
      BY DEF StatusInv
    <3>1. StatusFits(c) /\ PidFits(c)
      BY DEF StatusInv, PidInv
    <3>2. Of(c)' = Of(c) /\ Of(c) \subseteq Sessions /\ (s \in Of(c) => sid[s] = c)
      BY <1>8, ReapDoes DEF Only, Of
    <3>3. proc[s] = "zombie"
      BY <1>8, ReapDoes DEF StageInv, AfterReap
    <3>. QED
      BY <1>8, <3>1, <3>2, <3>3, ReapDoes
      DEF Only, StatusFits, Busy, Live, Pre, AfterReap, Final, RunsOnce, Commands, PidFits
  <2>4. DirInv'
    BY <1>8, ReapDoes, Elements DEF Only, DirInv, Live
  <2>5. LookInv'
    BY <1>8, ReapDoes, Elements
    DEF Only, LookInv, LookFits, Over, Beyond, Of, Pre, Looking, Ended, RunsOnce, Commands,
        Patient
  <2>6. LeftInv'
    BY <1>8, ReapDoes, Elements DEF Only, LeftInv, LeftOf, Of, Holding, Caging
  <2>. QED
    BY <2>1, <2>2, <2>3, <2>4, <2>5, <2>6
<1>9. ASSUME NEW s \in Sessions, ReleaseFails(s) PROVE Goal'
  <2>1. OneInv'
    BY <1>9, ReleaseFailsDoes, Elements DEF Only, OneInv, Busy, Live, RunsOnce, Commands
  <2>2. LaunchInv'
    BY <1>9, ReleaseFailsDoes, Elements DEF Only, LaunchInv, Of, Busy, Live, RunsOnce, Commands
  <2>3. StatusInv'
    <3>. SUFFICES ASSUME NEW c \in Ids PROVE StatusFits(c)'
      BY DEF StatusInv
    <3>1. StatusFits(c) /\ PidFits(c)
      BY DEF StatusInv, PidInv
    <3>2. Of(c)' = Of(c) /\ Of(c) \subseteq Sessions /\ (s \in Of(c) => sid[s] = c)
      BY <1>9, ReleaseFailsDoes DEF Only, Of
    <3>3. proc[s] = "gone"
      BY <1>9, ReleaseFailsDoes DEF StageInv, AfterReap
    <3>. QED
      BY <1>9, <3>1, <3>2, <3>3, ReleaseFailsDoes
      DEF Only, StatusFits, Busy, Live, Pre, AfterReap, Final, RunsOnce, Commands, PidFits
  <2>4. DirInv'
    BY <1>9, ReleaseFailsDoes, Elements DEF Only, DirInv, Live
  <2>5. LookInv'
    BY <1>9, ReleaseFailsDoes, Elements
    DEF Only, LookInv, LookFits, Over, Beyond, Of, Pre, Looking, Ended, RunsOnce, Commands,
        Patient
  <2>6. LeftInv'
    BY <1>9, ReleaseFailsDoes, Elements DEF Only, LeftInv, LeftOf, Of, Holding, Caging
  <2>. QED
    BY <2>1, <2>2, <2>3, <2>4, <2>5, <2>6
<1>10. ASSUME NEW s \in Sessions, RemoveCgroup(s) PROVE Goal'
  <2>1. OneInv'
    BY <1>10, RemoveCgroupDoes, Elements DEF Only, OneInv, Busy, Live, RunsOnce, Commands
  <2>2. LaunchInv'
    BY <1>10, RemoveCgroupDoes, Elements DEF Only, LaunchInv, Of, Busy, Live, RunsOnce, Commands
  <2>3. StatusInv'
    <3>. SUFFICES ASSUME NEW c \in Ids PROVE StatusFits(c)'
      BY DEF StatusInv
    <3>1. StatusFits(c) /\ PidFits(c)
      BY DEF StatusInv, PidInv
    <3>2. Of(c)' = Of(c) /\ Of(c) \subseteq Sessions /\ (s \in Of(c) => sid[s] = c)
      BY <1>10, RemoveCgroupDoes DEF Only, Of
    <3>3. proc[s] = "gone"
      BY <1>10, RemoveCgroupDoes DEF StageInv, AfterReap
    <3>. QED
      BY <1>10, <3>1, <3>2, <3>3, RemoveCgroupDoes
      DEF Only, StatusFits, Busy, Live, Pre, AfterReap, Final, RunsOnce, Commands, PidFits
  <2>4. DirInv'
    BY <1>10, RemoveCgroupDoes, Elements DEF Only, DirInv, Live
  <2>5. LookInv'
    BY <1>10, RemoveCgroupDoes, Elements
    DEF Only, LookInv, LookFits, Over, Beyond, Of, Pre, Looking, Ended, RunsOnce, Commands,
        Patient
  <2>6. LeftInv'
    <3>. SUFFICES ASSUME NEW c \in Ids PROVE LeftOf(c)'
      BY DEF LeftInv
    <3>1. LeftOf(c) /\ Of(c)' = Of(c) /\ Of(c) \subseteq Sessions /\ (s \in Of(c) <=> sid[s] = c)
      BY <1>10, RemoveCgroupDoes DEF LeftInv, Only, Of
    <3>2. CASE c # sid[s]
      BY <1>10, <3>1, <3>2, RemoveCgroupDoes DEF Only, LeftOf
    <3>3. CASE c = sid[s]
      <4>1. ~Running(c)
        BY <1>10, <3>3, RemoveCgroupDoes DEF OneInv, StageInv, AfterReap, Busy, Live, Running
      <4>. QED
        BY <1>10, <3>1, <3>3, <4>1, RemoveCgroupDoes DEF Only, LeftOf, Holding
    <3>. QED
      BY <3>2, <3>3
  <2>. QED
    BY <2>1, <2>2, <2>3, <2>4, <2>5, <2>6
<1>11. ASSUME NEW s \in Sessions, Unmount(s) PROVE Goal'
  <2>1. OneInv'
    BY <1>11, UnmountDoes, Elements DEF Only, OneInv, Busy, Live, RunsOnce, Commands
  <2>2. LaunchInv'
    BY <1>11, UnmountDoes, Elements DEF Only, LaunchInv, Of, Busy, Live, RunsOnce, Commands
  <2>3. StatusInv'
    <3>. SUFFICES ASSUME NEW c \in Ids PROVE StatusFits(c)'
      BY DEF StatusInv
    <3>1. StatusFits(c) /\ PidFits(c)
      BY DEF StatusInv, PidInv
    <3>2. Of(c)' = Of(c) /\ Of(c) \subseteq Sessions /\ (s \in Of(c) => sid[s] = c)
      BY <1>11, UnmountDoes DEF Only, Of
    <3>3. proc[s] = "gone"
      BY <1>11, UnmountDoes DEF StageInv, AfterReap
    <3>. QED
      BY <1>11, <3>1, <3>2, <3>3, UnmountDoes
      DEF Only, StatusFits, Busy, Live, Pre, AfterReap, Final, RunsOnce, Commands, PidFits
  <2>4. DirInv'
    BY <1>11, UnmountDoes, Elements DEF Only, DirInv, Live
  <2>5. LookInv'
    BY <1>11, UnmountDoes, Elements
    DEF Only, LookInv, LookFits, Over, Beyond, Of, Pre, Looking, Ended, RunsOnce, Commands,
        Patient
  <2>6. LeftInv'
    BY <1>11, UnmountDoes, Elements DEF Only, LeftInv, LeftOf, Of, Holding, Caging
  <2>. QED
    BY <2>1, <2>2, <2>3, <2>4, <2>5, <2>6
<1>12. ASSUME NEW s \in Sessions, DetachedRemovesDir(s) PROVE Goal'
  <2>1. OneInv'
    BY <1>12, DetachedRemovesDirDoes, Elements DEF Only, OneInv, Busy, Live, RunsOnce, Commands
  <2>2. LaunchInv'
    BY <1>12, DetachedRemovesDirDoes, Elements
    DEF Only, LaunchInv, Of, Busy, Live, RunsOnce, Commands
  <2>3. StatusInv'
    <3>. SUFFICES ASSUME NEW c \in Ids PROVE StatusFits(c)'
      BY DEF StatusInv
    <3>1. StatusFits(c) /\ PidFits(c)
      BY DEF StatusInv, PidInv
    <3>2. Of(c)' = Of(c) /\ Of(c) \subseteq Sessions /\ (s \in Of(c) => sid[s] = c)
      BY <1>12, DetachedRemovesDirDoes DEF Only, Of
    <3>3. cfg'[c] \in {cfg[c], NoCfg}
      BY <1>12, DetachedRemovesDirDoes, Elements DEF Removes, Cleared
    <3>4. CASE cfg'[c] = NoCfg
      BY <3>4 DEF StatusFits, NoCfg, NoStatus, Final
    <3>5. CASE cfg'[c] = cfg[c]
      <4>1. proc[s] = "gone"
        BY <1>12, DetachedRemovesDirDoes DEF StageInv, AfterReap
      <4>. QED
        BY <1>12, <3>1, <3>2, <3>5, <4>1, DetachedRemovesDirDoes
        DEF Only, StatusFits, Busy, Live, Pre, AfterReap, Final, RunsOnce, Commands, PidFits
    <3>. QED
      BY <3>3, <3>4, <3>5
  <2>4. DirInv'
    <3>1. proc[s] = "gone"
      BY <1>12, DetachedRemovesDirDoes DEF StageInv, AfterReap
    <3>2. \A t \in Sessions : t # s /\ (stage[t] \in {"mounted", "cloned"} \/ Live(t))
             => sid[t] # sid[s]
      BY <1>12, DetachedRemovesDirDoes DEF OneInv, Busy
    <3>3. \A c \in Ids : c # sid[s] => dir'[c] = dir[c]
      BY <1>12, DetachedRemovesDirDoes, Elements DEF Removes, Cleared
    <3>. QED
      BY <1>12, <3>1, <3>2, <3>3, DetachedRemovesDirDoes, Elements DEF Only, DirInv, Live
  <2>5. LookInv'
    <3>. SUFFICES ASSUME NEW k \in CLIs PROVE LookFits(k)'
      BY DEF LookInv
    <3>1. \A c \in Ids : Of(c)' = Of(c) /\ Of(c) \subseteq Sessions
      BY <1>12, DetachedRemovesDirDoes DEF Only, Of
    <3>2. \A t \in Sessions : stage[t] \in Ended => stage'[t] \in Ended
      BY <1>12, DetachedRemovesDirDoes DEF Only, Ended
    <3>3. \A t \in Sessions : stage'[t] \in Pre => stage[t] \in Pre
      BY <1>12, DetachedRemovesDirDoes DEF Only, Pre
    <3>4. UNCHANGED <<setting, sid, proc, cli>>
      BY <1>12, DetachedRemovesDirDoes
    <3>5. \A c \in Ids : (Beyond(c) => Beyond(c)') /\ (Over(c) => Over(c)')
      BY <3>1, <3>3, <3>4 DEF Beyond, Over
    <3>6. \A c \in Ids : cfg'[c] = cfg[c] \/ cfg'[c].status = NoStatus
      BY <1>12, DetachedRemovesDirDoes, Elements DEF Removes, Cleared, NoCfg
    <3>7. LookFits(k) /\ cli[k].id \in Ids /\ cli[k].cur \in Ids
      BY Elements DEF LookInv
    <3>. QED
      BY <3>1, <3>2, <3>3, <3>4, <3>5, <3>6, <3>7
      DEF LookFits, RunsOnce, Commands, Patient, NoStatus
  <2>6. LeftInv'
    BY <1>12, DetachedRemovesDirDoes, Elements DEF Only, LeftInv, LeftOf, Of, Holding, Caging
  <2>. QED
    BY <2>1, <2>2, <2>3, <2>4, <2>5, <2>6
<1>13. ASSUME NEW s \in Sessions, WriteFinal(s) PROVE Goal'
  <2>1. OneInv'
    BY <1>13, WriteFinalDoes, Elements DEF Only, OneInv, Busy, Live, RunsOnce, Commands
  <2>2. LaunchInv'
    BY <1>13, WriteFinalDoes, Elements DEF Only, LaunchInv, Of, Busy, Live, RunsOnce, Commands
  <2>3. StatusInv'
    <3>. SUFFICES ASSUME NEW c \in Ids PROVE StatusFits(c)'
      BY DEF StatusInv
    <3>1. StatusFits(c) /\ PidFits(c)
      BY DEF StatusInv, PidInv
    <3>2. Of(c)' = Of(c) /\ Of(c) \subseteq Sessions /\ (s \in Of(c) <=> sid[s] = c)
      BY <1>13, WriteFinalDoes DEF Only, Of
    <3>3. proc[s] = "gone" /\ proc'[s] = "gone"
      BY <1>13, WriteFinalDoes DEF StageInv, AfterReap
    <3>4. CASE c # sid[s]
      BY <1>13, <3>1, <3>2, <3>4, WriteFinalDoes
      DEF Only, StatusFits, Busy, Live, Pre, AfterReap, Final, RunsOnce, Commands, PidFits
    <3>5. CASE c = sid[s] /\ ~dir[c]
      BY <1>13, <3>5, WriteFinalDoes DEF BornInv, StatusFits, NoStatus, Final
    <3>6. CASE c = sid[s] /\ dir[c]
      <4>1. \A t \in Of(c) : Busy(t) => t = s
        BY <1>13, <3>2, <3>6, WriteFinalDoes DEF OneInv, Busy, Of
      <4>2. RunsOnce => \A t \in Of(c) : t = s
        BY <1>13, <3>2, <3>6, WriteFinalDoes DEF OneInv, Of
      <4>3. cfg'[c].status \in Final /\ stage'[s] = "reported"
        BY <1>13, <3>6, WriteFinalDoes
      <4>4. \A t \in Of(c) : t # s => ~Busy(t)' /\ stage'[t] \in Ended
        BY <1>13, <3>2, <4>1, WriteFinalDoes DEF Only, Busy, Live, Of, Ended
      <4>. QED
        BY <1>13, <3>2, <4>2, <4>3, <4>4, WriteFinalDoes
        DEF StatusFits, Pre, AfterReap, Ended, Final, RunsOnce, Commands
    <3>. QED
      BY <3>4, <3>5, <3>6
  <2>4. DirInv'
    BY <1>13, WriteFinalDoes, Elements DEF Only, DirInv, Live
  <2>5. LookInv'
    <3>. SUFFICES ASSUME NEW k \in CLIs PROVE LookFits(k)'
      BY DEF LookInv
    <3>1. \A c \in Ids : Of(c)' = Of(c) /\ Of(c) \subseteq Sessions
      BY <1>13, WriteFinalDoes DEF Only, Of
    <3>2. stage[s] \notin Ended /\ stage'[s] \notin Pre /\ s \in Of(sid[s]) /\ sid[s] \in Ids
      BY <1>13, WriteFinalDoes, Elements DEF Ended, Pre, Of
    <3>3. \A c \in Ids : Beyond(c) => Beyond(c)'
      BY <1>13, <3>1, <3>2, WriteFinalDoes DEF Only, Beyond
    <3>4. \A c \in Ids : Over(c) => Over(c)'
      BY <1>13, <3>1, <3>3, WriteFinalDoes DEF Only, Over
    <3>5. LookFits(k) /\ cli' = cli /\ setting' = setting /\ cli[k].id \in Ids /\ cli[k].cur \in Ids
      BY <1>13, WriteFinalDoes, Elements DEF LookInv
    <3>6. cli[k].at = "mark" /\ Patient => sid[s] # cli[k].cur
      BY <3>2, <3>5 DEF LookFits
    <3>7. \A t \in Of(sid[s]) : t # s => stage[t] \notin Pre /\ stage'[t] \notin Pre
      BY <1>13, <3>1, <3>2, WriteFinalDoes DEF OneInv, Only, Busy, Pre, Of
    <3>8. \A c \in Ids : c # sid[s] => cfg'[c] = cfg[c] /\ \A t \in Of(c) : stage'[t] = stage[t]
      BY <1>13, <3>1, WriteFinalDoes DEF Only, Of
    <3>9. \A c \in Ids : \A t \in Of(c) : stage[t] \in Ended => stage'[t] \in Ended
      BY <1>13, <3>1, <3>2, WriteFinalDoes DEF Only
    <3>10. \A c \in Ids : cfg'[c].status = "Active" => cfg'[c] = cfg[c]
      BY <1>13, WriteFinalDoes DEF Final
    <3>. QED
      BY <3>1, <3>2, <3>3, <3>4, <3>5, <3>6, <3>7, <3>8, <3>9, <3>10
      DEF LookFits, RunsOnce, Commands, Patient
  <2>6. LeftInv'
    BY <1>13, WriteFinalDoes, Elements DEF Only, LeftInv, LeftOf, Of, Holding, Caging
  <2>. QED
    BY <2>1, <2>2, <2>3, <2>4, <2>5, <2>6
<1>14. ASSUME NEW s \in Sessions, KillPidFile(s) PROVE Goal'
  <2>1. OneInv'
    BY <1>14, KillPidFileDoes, Elements DEF OneInv, Busy, Live, RunsOnce, Commands
  <2>2. LaunchInv'
    BY <1>14, KillPidFileDoes, Elements DEF LaunchInv, Of, Busy, Live, RunsOnce, Commands
  <2>3. StatusInv'
    <3>. SUFFICES ASSUME NEW c \in Ids PROVE StatusFits(c)'
      BY DEF StatusInv
    <3>1. StatusFits(c) /\ PidFits(c)
      BY DEF StatusInv, PidInv
    <3>2. proc[s] = "gone"
      BY <1>14, KillPidFileDoes DEF StageInv, AfterReap
    <3>3. Only(s)
      <4>1. pidfile[sid[s]] # 0 => pidfile[sid[s]] \in Of(sid[s])
        BY <1>14, Elements DEF FileInv
      <4>. QED
        BY <1>14, <4>1, KillPidFileDoes, Elements DEF Only, OneInv, Busy, Of
    <3>4. Of(c)' = Of(c) /\ Of(c) \subseteq Sessions /\ (s \in Of(c) => sid[s] = c)
      BY <1>14, <3>3, KillPidFileDoes DEF Only, Of
    <3>. QED
      BY <1>14, <3>1, <3>2, <3>3, <3>4, KillPidFileDoes
      DEF Only, StatusFits, Busy, Live, Pre, AfterReap, Final, RunsOnce, Commands, PidFits
  <2>4. DirInv'
    BY <1>14, KillPidFileDoes, Elements DEF DirInv, Live
  <2>5. LookInv'
    BY <1>14, KillPidFileDoes, Elements
    DEF LookInv, LookFits, Over, Beyond, Of, Pre, Looking, Ended, RunsOnce, Commands, Patient
  <2>6. LeftInv'
    BY <1>14, KillPidFileDoes, Elements DEF LeftInv, LeftOf, Of, Holding, Caging
  <2>. QED
    BY <2>1, <2>2, <2>3, <2>4, <2>5, <2>6
<1>15. ASSUME NEW s \in Sessions, ForegroundEnds(s) PROVE Goal'
  <2>1. OneInv'
    BY <1>15, ForegroundEndsDoes, Elements DEF Only, OneInv, Busy, Live, RunsOnce, Commands
  <2>2. LaunchInv'
    BY <1>15, ForegroundEndsDoes, Elements DEF Only, LaunchInv, Of, Busy, Live, RunsOnce, Commands
  <2>3. StatusInv'
    <3>. SUFFICES ASSUME NEW c \in Ids PROVE StatusFits(c)'
      BY DEF StatusInv
    <3>1. StatusFits(c) /\ PidFits(c)
      BY DEF StatusInv, PidInv
    <3>2. Of(c)' = Of(c) /\ Of(c) \subseteq Sessions /\ (s \in Of(c) => sid[s] = c)
      BY <1>15, ForegroundEndsDoes DEF Only, Of
    <3>3. cfg'[c] \in {cfg[c], NoCfg}
      BY <1>15, ForegroundEndsDoes, Elements DEF Removes, Cleared
    <3>4. CASE cfg'[c] = NoCfg
      BY <3>4 DEF StatusFits, NoCfg, NoStatus, Final
    <3>5. CASE cfg'[c] = cfg[c]
      <4>1. proc[s] = "gone"
        BY <1>15, ForegroundEndsDoes DEF StageInv, AfterReap
      <4>. QED
        BY <1>15, <3>1, <3>2, <3>5, <4>1, ForegroundEndsDoes
        DEF Only, StatusFits, Busy, Live, Pre, AfterReap, Final, RunsOnce, Commands, PidFits
    <3>. QED
      BY <3>3, <3>4, <3>5
  <2>4. DirInv'
    <3>1. proc[s] = "gone"
      BY <1>15, ForegroundEndsDoes DEF StageInv, AfterReap
    <3>2. \A t \in Sessions : t # s /\ (stage[t] \in {"mounted", "cloned"} \/ Live(t))
             => sid[t] # sid[s]
      BY <1>15, ForegroundEndsDoes DEF OneInv, Busy
    <3>3. \A c \in Ids : c # sid[s] => dir'[c] = dir[c]
      BY <1>15, ForegroundEndsDoes, Elements DEF Removes, Cleared
    <3>. QED
      BY <1>15, <3>1, <3>2, <3>3, ForegroundEndsDoes, Elements DEF Only, DirInv, Live
  <2>5. LookInv'
    <3>. SUFFICES ASSUME NEW k \in CLIs PROVE LookFits(k)'
      BY DEF LookInv
    <3>1. \A c \in Ids : Of(c)' = Of(c) /\ Of(c) \subseteq Sessions
      BY <1>15, ForegroundEndsDoes DEF Only, Of
    <3>2. \A t \in Sessions : stage[t] \in Ended => stage'[t] \in Ended
      BY <1>15, ForegroundEndsDoes DEF Only, Ended
    <3>3. \A t \in Sessions : stage'[t] \in Pre => stage[t] \in Pre
      BY <1>15, ForegroundEndsDoes DEF Only, Pre
    <3>4. UNCHANGED <<setting, sid, proc, cli>>
      BY <1>15, ForegroundEndsDoes
    <3>5. \A c \in Ids : (Beyond(c) => Beyond(c)') /\ (Over(c) => Over(c)')
      BY <3>1, <3>3, <3>4 DEF Beyond, Over
    <3>6. \A c \in Ids : cfg'[c] = cfg[c] \/ cfg'[c].status = NoStatus
      BY <1>15, ForegroundEndsDoes, Elements DEF Removes, Cleared, NoCfg
    <3>7. LookFits(k) /\ cli[k].id \in Ids /\ cli[k].cur \in Ids
      BY Elements DEF LookInv
    <3>. QED
      BY <3>1, <3>2, <3>3, <3>4, <3>5, <3>6, <3>7
      DEF LookFits, RunsOnce, Commands, Patient, NoStatus
  <2>6. LeftInv'
    BY <1>15, ForegroundEndsDoes, Elements DEF Only, LeftInv, LeftOf, Of, Holding, Caging
  <2>. QED
    BY <2>1, <2>2, <2>3, <2>4, <2>5, <2>6
<1>16. ASSUME NEW s \in Sessions, SupervisorKilled(s) PROVE Goal'
  <2>1. OneInv'
    BY <1>16, SupervisorKilledDoes, Elements DEF Only, OneInv, Busy, Live, RunsOnce, Commands
  <2>2. LaunchInv'
    BY <1>16, SupervisorKilledDoes, Elements
    DEF Only, LaunchInv, Of, Busy, Live, RunsOnce, Commands
  <2>3. StatusInv'
    <3>. SUFFICES ASSUME NEW c \in Ids PROVE StatusFits(c)'
      BY DEF StatusInv
    <3>1. StatusFits(c) /\ PidFits(c)
      BY DEF StatusInv, PidInv
    <3>2. Of(c)' = Of(c) /\ Of(c) \subseteq Sessions /\ (s \in Of(c) => sid[s] = c)
      BY <1>16, SupervisorKilledDoes DEF Only, Of
    <3>3. RunsOnce
      BY <1>16, SupervisorKilledDoes, Turns
    <3>4. stage[s] \in AfterReap => proc[s] = "gone"
      BY <1>16 DEF StageInv
    <3>. QED
      BY <1>16, <3>1, <3>2, <3>3, <3>4, SupervisorKilledDoes
      DEF Only, StatusFits, Busy, Live, Pre, AfterReap, Final, RunsOnce, Commands, NoStatus,
          PidFits
  <2>4. DirInv'
    BY <1>16, SupervisorKilledDoes, Elements DEF Only, DirInv, Live
  <2>5. LookInv'
    BY <1>16, SupervisorKilledDoes, Elements
    DEF Only, LookInv, LookFits, Over, Beyond, Of, Pre, Looking, Ended, RunsOnce, Commands,
        Patient
  <2>6. LeftInv'
    BY <1>16, SupervisorKilledDoes, Elements DEF Only, LeftInv, LeftOf, Of, Holding, Caging
  <2>. QED
    BY <2>1, <2>2, <2>3, <2>4, <2>5, <2>6
<1>17. ASSUME NEW k \in CLIs, NEW c \in Ids, RefreshCheck(k, c) PROVE Goal'
  <2>1. OneInv' /\ StatusInv' /\ DirInv' /\ LeftInv'
    BY <1>17, RefreshCheckDoes
    DEF OneInv, StatusInv, DirInv, LeftInv, Busy, Live, RunsOnce, Commands, StatusFits, Of, Pre,
        AfterReap, Final, LeftOf, Holding, Caging
  <2>2. LaunchInv'
    BY <1>17, RefreshCheckDoes, Elements DEF Moves, LaunchInv, Of, Busy, Live, RunsOnce, Commands
  <2>3. LookInv'
    <3>1. PICK l \in {"scan", "mark"} : Moves(k, l) /\
            (l = "mark" => cfg[c].status = "Active" /\ ~Alive(cfg[c]))
      BY <1>17, RefreshCheckDoes
    <3>2. /\ \A d \in Ids : Over(d) => Over(d)'
          /\ \A j \in CLIs : j # k => LookFits(j)'
      BY <1>17, <3>1, RefreshCheckDoes, OthersLook DEF Places
    <3>3. \A d \in Ids : Of(d)' = Of(d) /\ Of(d) \subseteq Sessions
      BY <1>17, RefreshCheckDoes DEF Of
    <3>4. LookFits(k) /\ cli[k].at = "scan" /\ cli'[k].todo = cli[k].todo \ {c} /\ cli'[k].cur = c
      BY <1>17, RefreshCheckDoes DEF LookInv
    <3>5. Patient => \A s \in Of(c) : stage[s] \in Ended \cup {"waiting"}
      BY <1>17, RefreshCheckDoes DEF Steady, Working, Of
    <3>6. cfg[c].status # NoStatus => \A s \in Of(c) : stage[s] \notin Pre
      <4>1. CASE RunsOnce
        BY <4>1 DEF StatusInv, StatusFits
      <4>2. CASE ~RunsOnce
        BY <3>5, <4>2, Turns DEF Pre, Ended
      <4>. QED
        BY <4>1, <4>2
    <3>7. CASE l = "scan"
      <4>1. cli'[k].at = "scan"
        BY <3>1, <3>7 DEF Moves
      <4>2. LookFits(k)'
        BY <1>17, <3>3, <3>4, <3>6, <4>1, RefreshCheckDoes
        DEF LookFits, Looking, Pre, RunsOnce, Commands
      <4>. QED
        BY <3>2, <4>2 DEF LookInv
    <3>8. CASE l = "mark"
      <4>. DEFINE p == cfg[c].pid
      <4>1. cfg[c].status = "Active" /\ p \in Of(c) /\ proc[p] = "gone"
        <5>1. cfg[c].status = "Active" /\ ~Alive(cfg[c]) /\ PidFits(c)
          BY <3>1, <3>8 DEF PidInv
        <5>2. p # 0 /\ p \in Of(c) /\ proc[p] # "none"
          BY <5>1 DEF PidFits
        <5>3. CASE cfg[c].boot # boot
          BY <5>1, <5>2, <5>3 DEF PidFits
        <5>4. CASE cfg[c].boot = boot
          BY <3>3, <5>1, <5>2, <5>4 DEF Alive, Exists, TypeOK, Procs
        <5>. QED
          BY <5>1, <5>2, <5>3, <5>4
      <4>. HIDE DEF p
      <4>2. \A s \in Of(c) : stage[s] \notin Pre
        BY <3>6, <4>1 DEF NoStatus
      <4>3. \A s \in Of(c) : Busy(s) => s = p
        BY <4>1, <4>2 DEF StatusInv, StatusFits, p
      <4>4. \A s \in Of(c) : proc[s] \in {"none", "gone"}
        BY <3>3, <4>1, <4>3 DEF StageInv, Of, Busy, Live, TypeOK, Procs
      <4>5. \A j \in CLIs : cli[j].at = "launch" => cli[j].id # c
        <5>1. CASE RunsOnce
          BY <4>1, <5>1 DEF LaunchInv
        <5>2. CASE ~RunsOnce
          BY <3>4, <5>2, Turns
        <5>. QED
          BY <5>1, <5>2
      <4>6. Over(c)
        BY <4>1, <4>2, <4>4, <4>5 DEF Over, Beyond
      <4>7. Patient => \A s \in Of(c) : stage[s] \in Ended
        BY <3>3, <3>5, <4>4 DEF StageInv
      <4>8. cli'[k].at = "mark"
        BY <3>1, <3>8 DEF Moves
      <4>9. LookFits(k)'
        BY <1>17, <3>2, <3>3, <3>4, <3>6, <4>1, <4>6, <4>7, <4>8, RefreshCheckDoes
        DEF LookFits, Looking, Pre, RunsOnce, Commands, Patient
      <4>. QED
        BY <3>2, <4>9 DEF LookInv
    <3>. QED
      BY <3>7, <3>8
  <2>. QED
    BY <2>1, <2>2, <2>3
<1>18. ASSUME NEW k \in CLIs, RefreshMark(k) PROVE Goal'
  <2>1. OneInv' /\ DirInv' /\ LeftInv'
    BY <1>18, RefreshMarkDoes
    DEF OneInv, DirInv, LeftInv, Busy, Live, RunsOnce, Commands, LeftOf, Of, Holding, Caging
  <2>2. LaunchInv'
    BY <1>18, RefreshMarkDoes, Elements
    DEF Moves, Same, LaunchInv, Of, Busy, Live, RunsOnce, Commands
  <2>3. StatusInv'
    <3>. SUFFICES ASSUME NEW c \in Ids PROVE StatusFits(c)'
      BY DEF StatusInv
    <3>1. StatusFits(c) /\ Of(c)' = Of(c) /\ Of(c) \subseteq Sessions
      BY <1>18, RefreshMarkDoes DEF StatusInv, Of
    <3>2. CASE cfg'[c] = cfg[c]
      BY <1>18, <3>1, <3>2, RefreshMarkDoes
      DEF StatusFits, Busy, Live, Pre, AfterReap, Final, RunsOnce, Commands
    <3>3. CASE c = cli[k].cur /\ cfg'[c].status = "Exited"
      <4>1. Over(c)
        BY <1>18, <3>3, RefreshMarkDoes DEF LookInv, LookFits
      <4>2. \A s \in Of(c) : Busy(s) => stage[s] \in AfterReap
        BY <1>18, <3>1, <4>1
        DEF Over, Beyond, StageInv, Busy, Live, AfterReap, Pre, TypeOK, Stages, Ended
      <4>. QED
        BY <1>18, <3>1, <3>3, <4>1, <4>2, RefreshMarkDoes
        DEF Over, Beyond, StatusFits, Busy, Live, Pre, AfterReap, Final, RunsOnce, Commands
    <3>. QED
      BY <1>18, <3>2, <3>3, RefreshMarkDoes
  <2>4. LookInv'
    BY <1>18, RefreshMarkDoes, Elements
    DEF Moves, Same, LookInv, LookFits, Over, Beyond, Of, Pre, Looking, Ended, RunsOnce,
        Commands, Patient
  <2>. QED
    BY <2>1, <2>2, <2>3, <2>4
<1>19. ASSUME NEW k \in CLIs, RefreshDetach(k) PROVE Goal'
  <2>1. OneInv' /\ StatusInv' /\ DirInv'
    BY <1>19, RefreshDetachDoes
    DEF OneInv, StatusInv, DirInv, Busy, Live, RunsOnce, Commands, StatusFits, Of, Pre,
        AfterReap, Final
  <2>2. LaunchInv'
    BY <1>19, RefreshDetachDoes, Elements
    DEF Moves, Same, LaunchInv, Of, Busy, Live, RunsOnce, Commands
  <2>3. LookInv'
    BY <1>19, RefreshDetachDoes, Elements
    DEF Moves, Same, LookInv, LookFits, Over, Beyond, Of, Pre, Looking, Ended, RunsOnce,
        Commands, Patient
  <2>4. LeftInv'
    BY <1>19, RefreshDetachDoes, Elements DEF LeftInv, LeftOf, Of, Holding, Caging
  <2>. QED
    BY <2>1, <2>2, <2>3, <2>4
<1>20. ASSUME NEW k \in CLIs, RefreshDone(k) PROVE Goal'
  <2>1. OneInv' /\ StatusInv' /\ DirInv' /\ LeftInv'
    BY <1>20, RefreshDoneDoes
    DEF OneInv, StatusInv, DirInv, LeftInv, Busy, Live, RunsOnce, Commands, StatusFits, Of, Pre,
        AfterReap, Final, LeftOf, Holding, Caging
  <2>2. LaunchInv'
    BY <1>20, RefreshDoneDoes, Elements
    DEF Moves, Same, LaunchInv, Of, Busy, Live, RunsOnce, Commands
  <2>3. LookInv'
    <3>1. PICK l \in {"idle", "act"} :
               Moves(k, l) /\ (l = "act" => Same(k) /\ cfg[cli[k].id].status # NoStatus)
      BY <1>20, RefreshDoneDoes
    <3>2. /\ \A c \in Ids : Beyond(c) => Beyond(c)'
          /\ \A j \in CLIs : j # k => LookFits(j)'
      BY <1>20, <3>1, RefreshDoneDoes, OthersLook DEF Places
    <3>3. CASE l = "idle"
      BY <3>1, <3>2, <3>3, NotLooking DEF LookInv, Moves, Looking
    <3>4. CASE l = "act"
      <4>1. LookFits(k) /\ cli[k].at = "scan" /\ cli[k].todo = {} /\ cli[k].id \in Ids
        BY <1>20, RefreshDoneDoes, Elements DEF LookInv
      <4>2. Of(cli[k].id) # {} /\ cfg[cli[k].id].status # NoStatus
        BY <3>1, <3>4, <4>1 DEF BornInv
      <4>3. \A s \in Of(cli[k].id) : stage[s] \notin Pre
        BY <4>1, <4>2 DEF LookFits, Looking, StatusInv, StatusFits
      <4>4. \A j \in CLIs : cli[j].at = "launch" => cli[j].id # cli[k].id
        <5>1. CASE RunsOnce
          BY <4>2, <5>1 DEF LaunchInv
        <5>2. CASE ~RunsOnce
          BY <4>1, <5>2, Turns
        <5>. QED
          BY <5>1, <5>2
      <4>5. Beyond(cli[k].id)
        BY <4>2, <4>3, <4>4 DEF Beyond
      <4>6. cli'[k].at = "act" /\ cli'[k].id = cli[k].id /\ cli'[k].todo = {}
        BY <3>1, <3>4, <4>1 DEF Moves, Same
      <4>7. \A c \in Ids : Of(c)' = Of(c)
        BY <1>20, RefreshDoneDoes DEF Of
      <4>8. LookFits(k)'
        BY <1>20, <3>2, <4>1, <4>5, <4>6, <4>7, RefreshDoneDoes
        DEF LookFits, Looking, Pre, RunsOnce, Commands
      <4>. QED
        BY <3>2, <4>8 DEF LookInv
    <3>. QED
      BY <3>3, <3>4
  <2>. QED
    BY <2>1, <2>2, <2>3
<1>21. ASSUME NEW k \in CLIs, StopReadPid(k) PROVE Goal'
  <2>1. OneInv' /\ StatusInv' /\ DirInv' /\ LeftInv'
    BY <1>21, StopReadPidDoes
    DEF OneInv, StatusInv, DirInv, LeftInv, Busy, Live, RunsOnce, Commands, StatusFits, Of, Pre,
        AfterReap, Final, LeftOf, Holding, Caging
  <2>2. LaunchInv'
    BY <1>21, StopReadPidDoes, Elements DEF Moves, LaunchInv, Of, Busy, Live, RunsOnce, Commands
  <2>3. LookInv'
    <3>1. \A j \in CLIs : j # k => LookFits(j)'
      BY <1>21, StopReadPidDoes, OthersLook DEF Places
    <3>2. \A c \in Ids : (Beyond(c) => Beyond(c)') /\ Of(c)' = Of(c)
      BY <1>21, StopReadPidDoes DEF Moves, Beyond, Of, Pre
    <3>3. /\ cli'[k].at = "signal" /\ cli'[k].id = cli[k].id /\ cli'[k].todo = cli[k].todo
          /\ cli[k].id \in Ids /\ cli'[k].pid = cfg[cli[k].id].pid
          /\ UNCHANGED <<setting, cfg, stage>>
      BY <1>21, StopReadPidDoes, Elements DEF Moves
    <3>4. LookFits(k) /\ cli[k].at = "act" /\ PidFits(cli[k].id)
      BY <1>21, <3>3, StopReadPidDoes DEF LookInv, PidInv
    <3>5. LookFits(k)'
      BY <3>2, <3>3, <3>4 DEF LookFits, PidFits, Looking, RunsOnce, Commands
    <3>. QED
      BY <3>1, <3>5 DEF LookInv
  <2>. QED
    BY <2>1, <2>2, <2>3
<1>22. ASSUME NEW k \in CLIs, StopSignal(k) PROVE Goal'
  <2>1. OneInv' /\ StatusInv' /\ DirInv' /\ LeftInv'
    BY <1>22, StopSignalDoes
    DEF OneInv, StatusInv, DirInv, LeftInv, Busy, Live, RunsOnce, Commands, StatusFits, Of, Pre,
        AfterReap, Final, LeftOf, Holding, Caging
  <2>2. LaunchInv'
    BY <1>22, StopSignalDoes, Elements DEF Moves, LaunchInv, Of, Busy, Live, RunsOnce, Commands
  <2>3. LookInv'
    BY <1>22, StopSignalDoes, Elements
    DEF Moves, LookInv, LookFits, Over, Beyond, Of, Pre, Looking, Ended, RunsOnce, Commands,
        Patient
  <2>. QED
    BY <2>1, <2>2, <2>3
<1>23. ASSUME NEW k \in CLIs, RmCheck(k) PROVE Goal'
  <2>1. OneInv' /\ StatusInv' /\ DirInv' /\ LeftInv'
    BY <1>23, RmCheckDoes
    DEF OneInv, StatusInv, DirInv, LeftInv, Busy, Live, RunsOnce, Commands, StatusFits, Of, Pre,
        AfterReap, Final, LeftOf, Holding, Caging
  <2>2. LaunchInv'
    BY <1>23, RmCheckDoes, Elements DEF Moves, Same, LaunchInv, Of, Busy, Live, RunsOnce, Commands
  <2>3. LookInv'
    <3>1. PICK l \in {"idle", "remove"} : Moves(k, l) /\
            (l = "remove" => Same(k) /\ cfg[cli[k].id].status \notin {NoStatus, "Active"})
      BY <1>23, RmCheckDoes
    <3>2. /\ \A c \in Ids : Over(c) => Over(c)'
          /\ \A j \in CLIs : j # k => LookFits(j)'
      BY <1>23, <3>1, RmCheckDoes, OthersLook DEF Places
    <3>3. CASE l = "idle"
      BY <3>1, <3>2, <3>3, NotLooking DEF LookInv, Moves, Looking
    <3>4. CASE l = "remove"
      <4>1. LookFits(k) /\ Beyond(cli[k].id) /\ cli[k].at = "act" /\ cli[k].id \in Ids
        BY <1>23, RmCheckDoes, Elements DEF LookInv, LookFits
      <4>2. cfg[cli[k].id].status \in Final
        <5>1. cfg[cli[k].id].status \in Statuses \ {NoStatus, "Active"}
          BY <3>1, <3>4, <4>1 DEF TypeOK
        <5>. QED
          BY <5>1 DEF Statuses, Final
      <4>3. \A s \in Of(cli[k].id) : Busy(s) => stage[s] \in AfterReap
        BY <4>1, <4>2 DEF StatusInv, StatusFits, Beyond
      <4>4. \A s \in Of(cli[k].id) : proc[s] \in {"none", "gone"}
        BY <4>3 DEF StageInv, Of, Busy, Live, TypeOK, Procs
      <4>5. Over(cli[k].id)
        BY <4>1, <4>4 DEF Over
      <4>6. cli'[k].at = "remove" /\ cli'[k].id = cli[k].id /\ cli'[k].todo = cli[k].todo
        BY <3>1, <3>4 DEF Moves, Same
      <4>7. \A c \in Ids : Of(c)' = Of(c)
        BY <1>23, RmCheckDoes DEF Of
      <4>8. LookFits(k)'
        BY <1>23, <3>2, <4>1, <4>5, <4>6, <4>7, RmCheckDoes
        DEF LookFits, Looking, Pre, RunsOnce, Commands
      <4>. QED
        BY <3>2, <4>8 DEF LookInv
    <3>. QED
      BY <3>3, <3>4
  <2>. QED
    BY <2>1, <2>2, <2>3
<1>24. ASSUME NEW k \in CLIs, RmRemove(k) PROVE Goal'
  <2>1. OneInv' /\ LeftInv'
    BY <1>24, RmRemoveDoes
    DEF OneInv, LeftInv, Busy, Live, RunsOnce, Commands, LeftOf, Of, Holding, Caging
  <2>2. LaunchInv'
    BY <1>24, RmRemoveDoes, Elements DEF Moves, LaunchInv, Of, Busy, Live, RunsOnce, Commands
  <2>3. StatusInv'
    <3>. SUFFICES ASSUME NEW c \in Ids PROVE StatusFits(c)'
      BY DEF StatusInv
    <3>1. StatusFits(c) /\ Of(c)' = Of(c) /\ Of(c) \subseteq Sessions
      BY <1>24, RmRemoveDoes DEF StatusInv, Of
    <3>2. cfg'[c] \in {cfg[c], NoCfg}
      BY <1>24, RmRemoveDoes, Elements DEF Removes, Cleared
    <3>3. CASE cfg'[c] = NoCfg
      BY <3>3 DEF StatusFits, NoCfg, NoStatus, Final
    <3>4. CASE cfg'[c] = cfg[c]
      BY <1>24, <3>1, <3>4, RmRemoveDoes
      DEF StatusFits, Busy, Live, Pre, AfterReap, Final, RunsOnce, Commands
    <3>. QED
      BY <3>2, <3>3, <3>4
  <2>4. DirInv'
    <3>1. Over(cli[k].id)
      BY <1>24, RmRemoveDoes DEF LookInv, LookFits
    <3>2. \A t \in Sessions : stage[t] \in {"mounted", "cloned"} \/ Live(t) => sid[t] # cli[k].id
      BY <3>1 DEF StageInv, Over, Beyond, Of, Pre, Live
    <3>3. \A c \in Ids : c # cli[k].id => dir'[c] = dir[c]
      BY <1>24, RmRemoveDoes, Elements DEF Removes, Cleared
    <3>. QED
      BY <1>24, <3>2, <3>3, RmRemoveDoes, Elements DEF DirInv, Live
  <2>5. LookInv'
    <3>1. \A c \in Ids : cfg'[c] = cfg[c] \/ cfg'[c].status = NoStatus
      BY <1>24, RmRemoveDoes, Elements DEF Removes, Cleared, NoCfg
    <3>2. \A j \in CLIs : j # k => LookFits(j)'
      BY <1>24, <3>1, RmRemoveDoes, OthersLook DEF Places
    <3>3. LookFits(k)'
      BY <1>24, RmRemoveDoes, NotLooking DEF Moves, Looking
    <3>. QED
      BY <3>2, <3>3 DEF LookInv
  <2>. QED
    BY <2>1, <2>2, <2>3, <2>4, <2>5
<1>25. ASSUME NEW k \in CLIs, StartCheck(k) PROVE Goal'
  <2>1. OneInv' /\ StatusInv' /\ DirInv' /\ LeftInv'
    BY <1>25, StartCheckDoes
    DEF OneInv, StatusInv, DirInv, LeftInv, Busy, Live, RunsOnce, Commands, StatusFits, Of, Pre,
        AfterReap, Final, LeftOf, Holding, Caging
  <2>2. LaunchInv'
    <3>1. ~RunsOnce
      BY <1>25, StartCheckDoes, Repeats
    <3>2. \A j \in CLIs : j # k => cli[j].at = "idle"
      BY <1>25, <3>1, StartCheckDoes, Turns
    <3>3. \A j \in CLIs : cli'[j].at = "launch" => j = k
      BY <1>25, <3>2, StartCheckDoes DEF Moves
    <3>4. ASSUME cli'[k].at = "launch" PROVE \A s \in Of(cli[k].id) : ~Busy(s)
      <4>1. cfg[cli[k].id].status \in Final /\ cli[k].id \in Ids
        <5>1. cfg[cli[k].id].status \in Statuses \ {NoStatus, "Active"} /\ cli[k].id \in Ids
          BY <1>25, <3>4, StartCheckDoes, Elements DEF Moves, TypeOK
        <5>. QED
          BY <5>1 DEF Statuses, Final
      <4>2. \A s \in Of(cli[k].id) : stage[s] \in Ended
        BY <1>25, <3>1, StartCheckDoes, Turns DEF Settled, Working, Of
      <4>. QED
        BY <4>1, <4>2 DEF StatusInv, StatusFits, Busy, Ended, Pre, AfterReap
    <3>5. cli'[k].at = "launch" => cli'[k].id = cli[k].id
      BY <1>25, StartCheckDoes DEF Moves, Same
    <3>. QED
      BY <1>25, <3>1, <3>3, <3>4, <3>5, StartCheckDoes
      DEF LaunchInv, Of, Busy, Live, RunsOnce, Commands
  <2>3. LookInv'
    <3>1. ~RunsOnce
      BY <1>25, StartCheckDoes, Repeats
    <3>2. \A j \in CLIs : j # k => cli[j].at = "idle"
      BY <1>25, <3>1, StartCheckDoes, Turns
    <3>3. \A j \in CLIs : cli'[j].at \notin Looking
      BY <1>25, <3>2, StartCheckDoes DEF Moves, Looking
    <3>. QED
      BY <3>3, NotLooking DEF LookInv
  <2>. QED
    BY <2>1, <2>2, <2>3
<1>26. ASSUME NEW k \in CLIs, RestartSignal(k) PROVE Goal'
  <2>1. OneInv' /\ StatusInv' /\ DirInv' /\ LeftInv'
    BY <1>26, RestartSignalDoes
    DEF OneInv, StatusInv, DirInv, LeftInv, Busy, Live, RunsOnce, Commands, StatusFits, Of, Pre,
        AfterReap, Final, LeftOf, Holding, Caging
  <2>2. LaunchInv'
    BY <1>26, RestartSignalDoes, Elements
    DEF Moves, Same, LaunchInv, Of, Busy, Live, RunsOnce, Commands
  <2>3. LookInv'
    BY <1>26, RestartSignalDoes, Elements
    DEF Moves, Same, LookInv, LookFits, Over, Beyond, Of, Pre, Looking, Ended, RunsOnce,
        Commands, Patient
  <2>. QED
    BY <2>1, <2>2, <2>3
<1>27. ASSUME NEW k \in CLIs, NEW c \in Ids, AutostartCheck(k, c) PROVE Goal'
  <2>1. OneInv' /\ StatusInv' /\ DirInv' /\ LeftInv'
    BY <1>27, AutostartCheckDoes
    DEF OneInv, StatusInv, DirInv, LeftInv, Busy, Live, RunsOnce, Commands, StatusFits, Of, Pre,
        AfterReap, Final, LeftOf, Holding, Caging
  <2>2. LaunchInv'
    <3>1. ~RunsOnce
      BY <1>27, AutostartCheckDoes, Repeats
    <3>2. \A j \in CLIs : j # k => cli[j].at = "idle"
      BY <1>27, <3>1, AutostartCheckDoes, Turns
    <3>3. \A j \in CLIs : cli'[j].at = "launch" => j = k
      BY <1>27, <3>2, AutostartCheckDoes DEF Moves
    <3>4. \A s \in Of(c) : ~Busy(s)
      BY <1>27, <3>1, AutostartCheckDoes, Turns
      DEF Still, Settled, Running, Working, Ended, Of, Busy
    <3>. QED
      BY <1>27, <3>1, <3>3, <3>4, AutostartCheckDoes
      DEF LaunchInv, Of, Busy, Live, RunsOnce, Commands
  <2>3. LookInv'
    <3>1. ~RunsOnce
      BY <1>27, AutostartCheckDoes, Repeats
    <3>2. \A j \in CLIs : j # k => cli[j].at = "idle"
      BY <1>27, <3>1, AutostartCheckDoes, Turns
    <3>3. \A j \in CLIs : cli'[j].at \notin Looking
      BY <1>27, <3>2, AutostartCheckDoes DEF Moves, Looking
    <3>. QED
      BY <3>3, NotLooking DEF LookInv
  <2>. QED
    BY <2>1, <2>2, <2>3
<1>28. ASSUME NEW k \in CLIs, AutostartDone(k) PROVE Goal'
  <2>1. OneInv' /\ StatusInv' /\ DirInv' /\ LeftInv'
    BY <1>28, AutostartDoneDoes
    DEF OneInv, StatusInv, DirInv, LeftInv, Busy, Live, RunsOnce, Commands, StatusFits, Of, Pre,
        AfterReap, Final, LeftOf, Holding, Caging
  <2>2. LaunchInv'
    BY <1>28, AutostartDoneDoes, Elements DEF Moves, LaunchInv, Of, Busy, Live, RunsOnce, Commands
  <2>3. LookInv'
    BY <1>28, AutostartDoneDoes, Elements
    DEF Moves, LookInv, LookFits, Over, Beyond, Of, Pre, Looking, Ended, RunsOnce, Commands,
        Patient
  <2>. QED
    BY <2>1, <2>2, <2>3
<1>29. ASSUME NEW k \in CLIs, Launch(k) PROVE Goal'
  <2>1. OneInv'
    <3>. DEFINE n == spawned + 1
    <3>1. /\ n \in Sessions /\ stage[n] = "unborn" /\ proc[n] = "none" /\ proc' = proc
          /\ sid'[n] = cli[k].id /\ stage'[n] = "starting" /\ cli[k].at = "launch"
      BY <1>29, LaunchDoes, LaunchAdds DEF StageInv
    <3>2. \A u \in Sessions : u # n => sid'[u] = sid[u] /\ stage'[u] = stage[u]
      BY <1>29, LaunchDoes
    <3>3. \A c \in Ids : Of(c) \subseteq Of(c)'
      BY <1>29, LaunchAdds
    <3>. HIDE DEF n
    <3>4. \A u \in Sessions : u # n /\ sid[u] = cli[k].id
             => ~Busy(u)' /\ (RunsOnce => stage[u] = "unborn")
      BY <3>1, <3>2 DEF LaunchInv, StageInv, Of, Busy, Live
    <3>5. \A u \in Sessions : u # n /\ Busy(u)' => Busy(u)
      BY <3>1, <3>2 DEF Busy, Live
    <3>. QED
      BY <1>29, <3>1, <3>2, <3>4, <3>5, LaunchDoes DEF OneInv, RunsOnce, Commands
  <2>2. LaunchInv'
    BY <1>29, LaunchDoes, Elements DEF Moves, Same, LaunchInv, Of, Busy, Live, RunsOnce, Commands
  <2>3. StatusInv'
    <3>. SUFFICES ASSUME NEW c \in Ids PROVE StatusFits(c)'
      BY DEF StatusInv
    <3>1. StatusFits(c) /\ PidFits(c) /\ Of(c) \subseteq Sessions
      BY DEF StatusInv, PidInv, Of
    <3>2. CASE c # cli[k].id
      <4>1. Of(c)' = Of(c) /\ spawned + 1 \notin Of(c)
        BY <1>29, <3>2, LaunchAdds DEF Of
      <4>. QED
        BY <1>29, <3>1, <4>1, LaunchDoes
        DEF PidFits, StatusFits, Busy, Live, Pre, AfterReap, Final, RunsOnce, Commands
    <3>3. CASE c = cli[k].id
      <4>1. Of(c)' = Of(c) \cup {spawned + 1} /\ spawned + 1 \notin Of(c)
        BY <1>29, <3>3, LaunchAdds DEF Of
      <4>2. RunsOnce => cfg[c].status = NoStatus
        BY <1>29, <3>3, LaunchDoes DEF LaunchInv, BornInv
      <4>. QED
        BY <1>29, <3>1, <4>1, <4>2, LaunchDoes
        DEF PidFits, StatusFits, Busy, Live, Pre, AfterReap, Final, RunsOnce, Commands
    <3>. QED
      BY <3>2, <3>3
  <2>4. DirInv'
    <3>. DEFINE n == spawned + 1
    <3>1. /\ n \in Sessions /\ stage[n] = "unborn" /\ proc[n] = "none" /\ proc' = proc
          /\ sid'[n] = cli[k].id /\ stage'[n] = "starting" /\ cli[k].at = "launch"
      BY <1>29, LaunchDoes, LaunchAdds DEF StageInv
    <3>2. \A u \in Sessions : u # n => sid'[u] = sid[u] /\ stage'[u] = stage[u]
      BY <1>29, LaunchDoes
    <3>3. \A c \in Ids : Of(c) \subseteq Of(c)'
      BY <1>29, LaunchAdds
    <3>. HIDE DEF n
    <3>. QED
      BY <1>29, <3>1, <3>2, LaunchDoes, Elements DEF DirInv, Live
  <2>5. LookInv'
    <3>1. CASE RunsOnce
      <4>. SUFFICES ASSUME NEW j \in CLIs, cli'[j].at \in Looking PROVE LookFits(j)'
        BY NotLooking DEF LookInv
      <4>1. \A c \in Ids : Beyond(c) => c # cli[k].id
        BY <1>29, LaunchDoes DEF Beyond
      <4>2. \A c \in Ids : Beyond(c) =>
              Of(c)' = Of(c) /\ spawned + 1 \notin Of(c) /\ Of(c) \subseteq Sessions
        BY <1>29, <4>1, LaunchAdds DEF Of
      <4>3. \A c \in Ids : Beyond(c) => Beyond(c)'
        BY <1>29, <4>2, LaunchDoes DEF Beyond, Pre, Moves
      <4>4. \A c \in Ids : Over(c) => Over(c)'
        BY <1>29, <4>2, <4>3, LaunchDoes DEF Over
      <4>5. LookFits(j) /\ cli'[j] = cli[j] /\ cli[j].id \in Ids /\ cli[j].cur \in Ids
        BY <1>29, LaunchDoes, Elements DEF LookInv, Moves, Looking
      <4>6. RunsOnce' /\ UNCHANGED <<cfg, setting>>
        BY <1>29, <3>1, LaunchDoes DEF RunsOnce, Commands
      <4>7. \A c \in Ids : Over(c) => Of(c)' = Of(c) /\ \A s \in Of(c) : stage'[s] = stage[s]
        BY <1>29, <4>2, LaunchDoes DEF Over
      <4>. QED
        BY <4>3, <4>4, <4>5, <4>6, <4>7 DEF LookFits, Patient
    <3>2. CASE ~RunsOnce
      <4>1. \A j \in CLIs : j # k => cli[j].at = "idle"
        BY <1>29, <3>2, LaunchDoes, Turns
      <4>2. \A j \in CLIs : cli'[j].at \notin Looking
        BY <1>29, <4>1, LaunchDoes DEF Moves, Looking
      <4>. QED
        BY <4>2, NotLooking DEF LookInv
    <3>. QED
      BY <3>1, <3>2
  <2>6. LeftInv'
    <3>. SUFFICES ASSUME NEW c \in Ids PROVE LeftOf(c)'
      BY DEF LeftInv
    <3>. DEFINE n == spawned + 1
    <3>1. /\ n \in Sessions /\ stage[n] = "unborn" /\ proc[n] = "none" /\ proc' = proc
          /\ sid'[n] = cli[k].id /\ stage'[n] = "starting" /\ cli[k].at = "launch"
      BY <1>29, LaunchDoes, LaunchAdds DEF StageInv
    <3>2. \A u \in Sessions : u # n => sid'[u] = sid[u] /\ stage'[u] = stage[u]
      BY <1>29, LaunchDoes
    <3>3. Of(c) \subseteq Of(c)'
      BY <1>29, LaunchAdds
    <3>. HIDE DEF n
    <3>4. LeftOf(c) /\ UNCHANGED <<mounts, cgroup>>
      BY <1>29, LaunchDoes DEF LeftInv
    <3>5. \A u \in Of(c) : stage'[u] = stage[u]
      BY <3>1, <3>2 DEF Of
    <3>. QED
      BY <3>3, <3>4, <3>5 DEF LeftOf, Holding, Caging
  <2>. QED
    BY <2>1, <2>2, <2>3, <2>4, <2>5, <2>6
<1>30. ASSUME NEW k \in CLIs, LaunchFails(k) PROVE Goal'
  <2>1. OneInv' /\ StatusInv' /\ DirInv' /\ LeftInv'
    BY <1>30, LaunchFailsDoes
    DEF OneInv, StatusInv, DirInv, LeftInv, Busy, Live, RunsOnce, Commands, StatusFits, Of, Pre,
        AfterReap, Final, LeftOf, Holding, Caging
  <2>2. LaunchInv'
    BY <1>30, LaunchFailsDoes, Elements
    DEF Moves, Same, LaunchInv, Of, Busy, Live, RunsOnce, Commands
  <2>3. LookInv'
    BY <1>30, LaunchFailsDoes, Elements
    DEF Moves, Same, LookInv, LookFits, Over, Beyond, Of, Pre, Looking, Ended, RunsOnce,
        Commands, Patient
  <2>. QED
    BY <2>1, <2>2, <2>3
<1>31. ASSUME NEW k \in CLIs, WritePidFile(k) PROVE Goal'
  <2>1. OneInv' /\ StatusInv' /\ DirInv' /\ LeftInv'
    BY <1>31, WritePidFileDoes
    DEF OneInv, StatusInv, DirInv, LeftInv, Busy, Live, RunsOnce, Commands, StatusFits, Of, Pre,
        AfterReap, Final, LeftOf, Holding, Caging
  <2>2. LaunchInv'
    BY <1>31, WritePidFileDoes, Elements
    DEF Moves, Same, LaunchInv, Of, Busy, Live, RunsOnce, Commands
  <2>3. LookInv'
    BY <1>31, WritePidFileDoes, Elements
    DEF Moves, Same, LookInv, LookFits, Over, Beyond, Of, Pre, Looking, Ended, RunsOnce,
        Commands, Patient
  <2>. QED
    BY <2>1, <2>2, <2>3
<1>32. ASSUME NEW k \in CLIs, CliKilled(k) PROVE Goal'
  <2>1. OneInv' /\ StatusInv' /\ DirInv' /\ LeftInv'
    BY <1>32, CliKilledDoes
    DEF OneInv, StatusInv, DirInv, LeftInv, Busy, Live, RunsOnce, Commands, StatusFits, Of, Pre,
        AfterReap, Final, LeftOf, Holding, Caging
  <2>2. LaunchInv'
    BY <1>32, CliKilledDoes, Elements DEF Moves, LaunchInv, Of, Busy, Live, RunsOnce, Commands
  <2>3. LookInv'
    BY <1>32, CliKilledDoes, Elements
    DEF Moves, LookInv, LookFits, Over, Beyond, Of, Pre, Looking, Ended, RunsOnce, Commands,
        Patient
  <2>. QED
    BY <2>1, <2>2, <2>3
<1>33. ASSUME NEW k \in CLIs, NEW cmd \in AllCommands, NEW c \in Ids, Issue(k, cmd, c) PROVE Goal'
  <2>1. OneInv' /\ StatusInv' /\ DirInv' /\ LeftInv'
    BY <1>33, IssueDoes
    DEF OneInv, StatusInv, DirInv, LeftInv, Busy, Live, RunsOnce, Commands, StatusFits, Of, Pre,
        AfterReap, Final, LeftOf, Holding, Caging
  <2>2. LaunchInv'
    <3>1. CASE cli'[k].at # "launch"
      BY <1>33, <3>1, IssueDoes DEF Moves, LaunchInv, Of, Busy, Live, RunsOnce, Commands
    <3>2. CASE cli'[k].at = "launch"
      <4>1. c \notin born /\ cli'[k].id = c /\ Of(c) = {}
        BY <1>33, <3>2, IssueDoes DEF Moves, BornInv, Of
      <4>2. \A j \in CLIs : cli[j].at = "launch" => cli[j].id # c
        BY <4>1 DEF BornInv
      <4>. QED
        BY <1>33, <4>1, <4>2, IssueDoes DEF Moves, LaunchInv, Of, Busy, Live, RunsOnce, Commands
    <3>. QED
      BY <3>1, <3>2
  <2>3. LookInv'
    <3>1. CASE cli'[k].at # "launch"
      <4>1. PICK l \in Places : Moves(k, l) /\ l \in {"scan", "auto"}
        BY <1>33, <3>1, IssueDoes DEF Moves, Places
      <4>2. \A j \in CLIs : j # k => LookFits(j)'
        BY <1>33, <4>1, IssueDoes, OthersLook
      <4>3. CASE l = "auto"
        BY <4>1, <4>2, <4>3, NotLooking DEF LookInv, Moves, Looking
      <4>4. CASE l = "scan"
        <5>1. cli'[k].at = "scan" /\ cli'[k].todo = {d \in Ids : dir[d]} /\ cfg' = cfg
          BY <1>33, <4>1, <4>4, IssueDoes DEF Moves
        <5>2. LookFits(k)'
          BY <5>1 DEF LookFits, BornInv
        <5>. QED
          BY <4>2, <5>2 DEF LookInv
      <4>. QED
        BY <4>1, <4>3, <4>4
    <3>2. CASE cli'[k].at = "launch"
      <4>1. c \notin born /\ cli'[k].id = c /\ Of(c) = {}
        BY <1>33, <3>2, IssueDoes DEF Moves, BornInv, Of
      <4>2. \A d \in Ids : Of(d)' = Of(d)
        BY <1>33, IssueDoes DEF Of
      <4>3. \A d \in Ids : Beyond(d) => Beyond(d)'
        BY <1>33, <4>1, <4>2, IssueDoes DEF Beyond, Moves, Pre
      <4>4. \A d \in Ids : Over(d) => Over(d)'
        BY <1>33, <4>2, <4>3, IssueDoes DEF Over
      <4>5. ASSUME NEW j \in CLIs, j # k PROVE LookFits(j)'
        <5>1. LookFits(j) /\ cli'[j] = cli[j] /\ cli[j].id \in Ids /\ cli[j].cur \in Ids
          BY <1>33, <3>2, <4>5, IssueDoes, Elements DEF LookInv, Moves
        <5>. QED
          BY <1>33, <4>2, <4>3, <4>4, <5>1, IssueDoes
          DEF LookFits, Pre, RunsOnce, Commands, Patient
      <4>. QED
        BY <3>2, <4>5, NotLooking DEF LookInv, Looking
    <3>. QED
      BY <3>1, <3>2
  <2>. QED
    BY <2>1, <2>2, <2>3
<1>34. ASSUME Reboot PROVE Goal'
  <2>1. OneInv'
    BY <1>34, RebootDoes, Elements DEF OneInv, Busy, Live, RunsOnce, Commands
  <2>2. LaunchInv'
    BY <1>34, RebootDoes, Elements DEF LaunchInv, Of, Busy, Live, RunsOnce, Commands
  <2>3. StatusInv'
    <3>. SUFFICES ASSUME NEW c \in Ids PROVE StatusFits(c)'
      BY DEF StatusInv
    <3>1. StatusFits(c) /\ PidFits(c) /\ Of(c)' = Of(c) /\ Of(c) \subseteq Sessions
      BY <1>34, RebootDoes DEF StatusInv, PidInv, Of
    <3>2. \A s \in Of(c) : ~Busy(s)' /\ stage'[s] \in {"done", "dead"}
      BY <1>34, <3>1, RebootDoes DEF Busy, Live, Of
    <3>. QED
      BY <1>34, <3>1, <3>2, RebootDoes DEF StatusFits, PidFits, Pre, RunsOnce, Commands
  <2>4. DirInv'
    BY <1>34, RebootDoes, Elements DEF DirInv, Live
  <2>5. LookInv'
    BY <1>34, RebootDoes, Elements
    DEF LookInv, LookFits, Over, Beyond, Of, Pre, Looking, Ended, RunsOnce, Commands, Patient
  <2>6. LeftInv'
    BY <1>34, RebootDoes, Elements DEF LeftInv, LeftOf, Of, Holding, Caging
  <2>. QED
    BY <2>1, <2>2, <2>3, <2>4, <2>5, <2>6
<1>35. CASE UNCHANGED vars
  BY <1>35
  DEF vars, supervisors, files, kernel, OneInv, LaunchInv, StatusInv, DirInv, LookInv, LeftInv,
      Busy, Live, RunsOnce, Commands, Of, StatusFits, Pre, AfterReap, Final, LookFits, Over,
      Beyond, Looking, Ended, Patient, LeftOf, Holding, Caging
<1>. QED
  BY <1>1, <1>2, <1>3, <1>4, <1>5, <1>6, <1>7, <1>8, <1>9, <1>10, <1>11, <1>12, <1>13, <1>14,
     <1>15, <1>16, <1>17, <1>18, <1>19, <1>20, <1>21, <1>22, <1>23, <1>24, <1>25, <1>26, <1>27,
     <1>28, <1>29, <1>30, <1>31, <1>32, <1>33, <1>34, <1>35
  DEF Next, SupervisorStep, CommandStep, Fault


-----------------------------------------------------------------------------
(* What holds in addition of one user whose containers are run once.       *)

TornDown == {"unmounted", "emptied", "reported"}

(* A root file system stays mounted on a finished container only until the
   refresh that marked the container detaches it.                          *)
BurntInv ==
    /\ burnt = {}
    /\ \A c \in Ids : mounts[c] \in {0, 1}
    /\ \A c \in Ids : cfg[c].status \in Final /\ mounts[c] # 0 =>
          \E k \in CLIs : cli[k].at = "detach" /\ cli[k].cur = c
    /\ \A k \in CLIs : cli[k].at = "remove" => mounts[cli[k].id] = 0
    /\ \A s \in Sessions : stage[s] \in TornDown => mounts[sid[s]] = 0

(* Steps that mount, unmount and report nothing, and no command on its way
   to a removal.                                                           *)
LEMMA BurntFrame ==
    ASSUME BurntInv, UNCHANGED <<mounts, burnt>>,
           \A c \in Ids : cfg'[c].status \in {cfg[c].status, NoStatus, "Active"},
           \A s \in Sessions : stage'[s] \in TornDown =>
              stage[s] \in TornDown /\ sid'[s] = sid[s],
           \A k \in CLIs : cli[k].at = "detach" => cli'[k] = cli[k],
           \A k \in CLIs : cli'[k].at = "remove" => cli'[k] = cli[k]
    PROVE  BurntInv'
  BY DEF BurntInv, Final, NoStatus

(* A supervisor that sets up is the only one its container has had: nothing
   is mounted before it mounts, and no command has come to a removal.      *)
LEMMA SettingUp ==
    ASSUME TypeOK, BornInv, RunsOnce, OneInv, StatusInv, LookInv, LeftInv,
           NEW s \in Sessions, stage[s] \in {"starting", "mounted"}
    PROVE  /\ stage[s] = "starting" => mounts[sid[s]] = 0
           /\ cfg[sid[s]].status = NoStatus
           /\ \A k \in CLIs : cli[k].at = "remove" => cli[k].id # sid[s]
           /\ \A t \in Sessions : sid[t] = sid[s] /\ stage[t] # "unborn" => t = s
<1>1. sid[s] \in Ids /\ s \in Of(sid[s])
  BY Elements DEF Of
<1>2. \A t \in Sessions : sid[t] = sid[s] /\ stage[t] # "unborn" => t = s
  BY DEF OneInv
<1>3. \A t \in Of(sid[s]) : t = s
  BY <1>2 DEF Of
<1>4. cfg[sid[s]].status = NoStatus
  BY <1>1 DEF StatusInv, StatusFits, Pre
<1>5. stage[s] = "starting" => mounts[sid[s]] = 0
  BY <1>1, <1>3 DEF LeftInv, LeftOf, Holding
<1>6. \A k \in CLIs : cli[k].at = "remove" => cli[k].id # sid[s]
  BY <1>1 DEF LookInv, LookFits, Over, Beyond, Pre
<1>. QED
  BY <1>2, <1>4, <1>5, <1>6

LEMMA SetupFailsMounts ==
    ASSUME TypeOK, NEW s \in Sessions, SetupFails(s)
    PROVE  mounts'[sid[s]] \in IF stage[s] = "starting" THEN {mounts[sid[s]], mounts[sid[s]] + 1}
                                                       ELSE {mounts[sid[s]]}
  BY DEF SetupFails, TypeOK

(* Nothing is burnt when a directory without a mount is removed.           *)
LEMMA RemovalBurnsNothing ==
    ASSUME TypeOK, BurntInv, NEW c \in Ids, mounts[c] = 0, Removes(c)
    PROVE  /\ burnt' = burnt
           /\ \A d \in Ids : cfg'[d].status \in {cfg[d].status, NoStatus}
<1>1. CASE dir[c]
  <2>1. Cleared(c)
    BY <1>1 DEF Removes
  <2>2. cfg'[c] = NoCfg /\ burnt' = burnt
    BY <2>1 DEF Cleared
  <2>3. \A d \in Ids : d # c => cfg'[d] = cfg[d]
    BY <2>1 DEF Cleared
  <2>. QED
    BY <2>2, <2>3 DEF NoCfg
<1>2. CASE ~dir[c]
  BY <1>2 DEF Removes
<1>. QED
  BY <1>1, <1>2

(* Every step of such a user keeps it.                                     *)
LEMMA BurntStep ==
    ASSUME TypeOK, BornInv, CliInv, OneInv, StatusInv, LookInv, LeftInv,
           RunsOnce, OneCLI, "abort" \notin Faults, BurntInv, [Next]_vars
    PROVE  BurntInv'
<1>1. ASSUME NEW s \in Sessions, Mount(s) PROVE BurntInv'
  <2>1. mounts[sid[s]] = 0 /\ cfg[sid[s]].status = NoStatus /\ sid[s] \in Ids
    BY <1>1, MountDoes, SettingUp, Elements
  <2>2. \A k \in CLIs : cli[k].at = "remove" => cli[k].id # sid[s] /\ cli[k].id \in Ids
    BY <1>1, MountDoes, SettingUp, Elements
  <2>3. \A t \in Sessions : stage'[t] \in TornDown => sid[t] # sid[s] /\ stage[t] \in TornDown
    BY <1>1, MountDoes, SettingUp DEF Only, TornDown
  <2>4. \A c \in Ids : mounts'[c] \in {0, 1}
    BY <1>1, <2>1, MountDoes DEF BurntInv
  <2>5. \A c \in Ids : cfg[c].status \in Final => mounts'[c] = mounts[c]
    BY <1>1, <2>1, MountDoes DEF Final, NoStatus
  <2>6. \A t \in Sessions : stage'[t] \in TornDown => mounts'[sid[t]] = 0
    BY <1>1, <2>3, MountDoes, Elements DEF BurntInv
  <2>. QED
    BY <1>1, <2>2, <2>4, <2>5, <2>6, MountDoes DEF BurntInv
<1>2. ASSUME NEW s \in Sessions, SetupFails(s) PROVE BurntInv'
  <2>1. /\ stage[s] = "starting" => mounts[sid[s]] = 0
        /\ cfg[sid[s]].status = NoStatus /\ sid[s] \in Ids
    BY <1>2, SetupFailsDoes, SettingUp, Elements
  <2>2. \A k \in CLIs : cli[k].at = "remove" => cli[k].id # sid[s] /\ cli[k].id \in Ids
    BY <1>2, SetupFailsDoes, SettingUp, Elements
  <2>3. \A t \in Sessions : stage'[t] \in TornDown => sid[t] # sid[s] /\ stage[t] \in TornDown
    BY <1>2, SetupFailsDoes, SettingUp DEF Only, TornDown
  <2>4. \A c \in Ids : mounts'[c] \in {0, 1}
    <3>1. mounts[sid[s]] \in {0, 1}
      BY <2>1 DEF BurntInv
    <3>2. mounts'[sid[s]] \in IF stage[s] = "starting" THEN {mounts[sid[s]], mounts[sid[s]] + 1}
                                                      ELSE {mounts[sid[s]]}
      BY <1>2, SetupFailsMounts
    <3>3. mounts'[sid[s]] \in {0, 1}
      BY <2>1, <3>1, <3>2
    <3>. QED
      BY <1>2, <3>3, SetupFailsDoes DEF BurntInv
  <2>5. \A c \in Ids : cfg[c].status \in Final => mounts'[c] = mounts[c]
    BY <1>2, <2>1, SetupFailsDoes DEF Final, NoStatus
  <2>6. \A t \in Sessions : stage'[t] \in TornDown => mounts'[sid[t]] = 0
    BY <1>2, <2>3, SetupFailsDoes, Elements DEF BurntInv
  <2>. QED
    BY <1>2, <2>2, <2>4, <2>5, <2>6, SetupFailsDoes DEF BurntInv
<1>3. ASSUME NEW s \in Sessions, Clone(s) PROVE BurntInv'
  BY <1>3, CloneDoes, BurntFrame DEF Only, TornDown
<1>4. ASSUME NEW s \in Sessions, WriteActive(s) PROVE BurntInv'
  <2>1. \A u \in Sessions : stage'[u] \in TornDown => stage[u] \in TornDown
    BY <1>4, WriteActiveDoes DEF Only, TornDown
  <2>2. \A c \in Ids : cfg'[c].status \in {cfg[c].status, "Active"}
    BY <1>4, WriteActiveDoes
  <2>. QED
    BY <1>4, <2>1, <2>2, WriteActiveDoes, BurntFrame
<1>5. ASSUME NEW s \in Sessions, WriteGo(s) PROVE BurntInv'
  BY <1>5, WriteGoDoes, BurntFrame DEF Only, TornDown
<1>6. ASSUME NEW s \in Sessions, Connect(s) PROVE BurntInv'
  BY <1>6, ConnectDoes, BurntFrame DEF Only, TornDown
<1>7. ASSUME NEW s \in Sessions, NEW x \in Codes, Exit(s, x) PROVE BurntInv'
  BY <1>7, ExitDoes, BurntFrame
<1>8. ASSUME NEW s \in Sessions, Reap(s) PROVE BurntInv'
  BY <1>8, ReapDoes, BurntFrame DEF Only, TornDown
<1>9. ASSUME NEW s \in Sessions, ReleaseFails(s) PROVE BurntInv'
  BY <1>9, ReleaseFailsDoes, BurntFrame DEF Only, TornDown
<1>10. ASSUME NEW s \in Sessions, RemoveCgroup(s) PROVE BurntInv'
  BY <1>10, RemoveCgroupDoes, BurntFrame DEF Only, TornDown
<1>11. ASSUME NEW s \in Sessions, Unmount(s) PROVE BurntInv'
  <2>1. sid[s] \in Ids /\ mounts'[sid[s]] = 0
    BY <1>11, UnmountDoes, Elements DEF BurntInv
  <2>2. \A c \in Ids : mounts'[c] \in {mounts[c], 0}
    BY <1>11, <2>1, UnmountDoes
  <2>3. \A t \in Sessions : stage'[t] \in TornDown => t = s \/ stage[t] \in TornDown
    BY <1>11, UnmountDoes DEF Only
  <2>4. \A c \in Ids : mounts'[c] \in {0, 1}
    BY <2>2 DEF BurntInv
  <2>. QED
    BY <1>11, <2>1, <2>2, <2>3, <2>4, UnmountDoes, Elements DEF BurntInv
<1>12. ASSUME NEW s \in Sessions, DetachedRemovesDir(s) PROVE BurntInv'
  <2>1. sid[s] \in Ids /\ mounts[sid[s]] = 0
    BY <1>12, DetachedRemovesDirDoes, Elements DEF BurntInv, TornDown
  <2>2. burnt' = burnt /\ \A d \in Ids : cfg'[d].status \in {cfg[d].status, NoStatus}
    BY <1>12, <2>1, DetachedRemovesDirDoes, RemovalBurnsNothing
  <2>3. \A t \in Sessions : stage'[t] \in TornDown => stage[t] \in TornDown
    BY <1>12, DetachedRemovesDirDoes DEF Only, TornDown
  <2>. QED
    BY <1>12, <2>2, <2>3, DetachedRemovesDirDoes, BurntFrame
<1>13. ASSUME NEW s \in Sessions, WriteFinal(s) PROVE BurntInv'
  <2>1. sid[s] \in Ids /\ mounts[sid[s]] = 0
    BY <1>13, WriteFinalDoes, Elements DEF BurntInv, TornDown
  <2>2. \A c \in Ids : c # sid[s] => cfg'[c] = cfg[c]
    BY <1>13, WriteFinalDoes
  <2>3. \A t \in Sessions : stage'[t] \in TornDown => stage[t] \in TornDown
    BY <1>13, WriteFinalDoes DEF Only, TornDown
  <2>4. UNCHANGED <<mounts, burnt, sid, cli>>
    BY <1>13, WriteFinalDoes
  <2>. QED
    BY <2>1, <2>2, <2>3, <2>4 DEF BurntInv
<1>14. ASSUME NEW s \in Sessions, KillPidFile(s) PROVE BurntInv'
  <2>1. \A u \in Sessions : stage'[u] \in TornDown => stage[u] \in TornDown
    BY <1>14, KillPidFileDoes DEF TornDown
  <2>. QED
    BY <1>14, <2>1, KillPidFileDoes, BurntFrame
<1>15. ASSUME NEW s \in Sessions, ForegroundEnds(s) PROVE BurntInv'
  <2>1. sid[s] \in Ids /\ mounts[sid[s]] = 0
    BY <1>15, ForegroundEndsDoes, Elements DEF BurntInv, TornDown
  <2>2. burnt' = burnt /\ \A d \in Ids : cfg'[d].status \in {cfg[d].status, NoStatus}
    BY <1>15, <2>1, ForegroundEndsDoes, RemovalBurnsNothing
  <2>3. \A t \in Sessions : stage'[t] \in TornDown => stage[t] \in TornDown
    BY <1>15, ForegroundEndsDoes DEF Only, TornDown
  <2>. QED
    BY <1>15, <2>2, <2>3, ForegroundEndsDoes, BurntFrame
<1>16. ASSUME NEW s \in Sessions, SupervisorKilled(s) PROVE BurntInv'
  BY <1>16, SupervisorKilledDoes, BurntFrame DEF Only, TornDown
<1>17. ASSUME NEW k \in CLIs, NEW c \in Ids, RefreshCheck(k, c) PROVE BurntInv'
  BY <1>17, RefreshCheckDoes, BurntFrame DEF Moves
<1>18. ASSUME NEW k \in CLIs, RefreshMark(k) PROVE BurntInv'
  <2>1. cli[k].cur \in Ids /\ cli[k].at = "mark" /\ UNCHANGED <<mounts, burnt, stage, sid>>
    BY <1>18, RefreshMarkDoes, Elements
  <2>2. \A j \in CLIs : cli[j].at # "idle" => j = k
    BY <2>1 DEF CliInv, OneCLI
  <2>3. CASE cfg' = cfg /\ Moves(k, "idle")
    BY <2>1, <2>3, BurntFrame DEF Moves
  <2>4. CASE Moves(k, "detach") /\ Same(k)
    <3>1. cli'[k].at = "detach" /\ cli'[k].cur = cli[k].cur
      BY <2>4 DEF Moves, Same
    <3>2. \A j \in CLIs : cli'[j].at # "remove"
      BY <2>2, <2>4, <3>1 DEF Moves
    <3>3. \A c \in Ids : cfg'[c].status \in Final /\ mounts[c] # 0 => c = cli[k].cur
      <4>. SUFFICES ASSUME NEW c \in Ids, cfg'[c].status \in Final, mounts[c] # 0,
                           c # cli[k].cur
                    PROVE  FALSE
        OBVIOUS
      <4>1. cfg'[c] = cfg[c]
        BY <1>18, RefreshMarkDoes
      <4>2. \E j \in CLIs : cli[j].at = "detach"
        BY <4>1 DEF BurntInv
      <4>. QED
        BY <2>1, <2>2, <4>2
    <3>. QED
      BY <2>1, <3>1, <3>2, <3>3 DEF BurntInv
  <2>. QED
    BY <1>18, <2>3, <2>4, RefreshMarkDoes
<1>19. ASSUME NEW k \in CLIs, RefreshDetach(k) PROVE BurntInv'
  <2>1. /\ cli[k].cur \in Ids /\ cli[k].at = "detach" /\ cli'[k].at = "scan"
        /\ UNCHANGED <<burnt, stage, sid, cfg>>
        /\ \A j \in CLIs : j # k => cli'[j] = cli[j]
    BY <1>19, RefreshDetachDoes, Elements DEF Moves
  <2>2. \A j \in CLIs : cli[j].at # "idle" => j = k
    BY <2>1 DEF CliInv, OneCLI
  <2>3. mounts'[cli[k].cur] = 0
    BY <1>19, <2>1, RefreshDetachDoes DEF BurntInv
  <2>4. \A c \in Ids : mounts'[c] \in {mounts[c], 0}
    BY <1>19, <2>3, RefreshDetachDoes
  <2>5. \A c \in Ids : cfg'[c].status \in Final => mounts'[c] = 0
    <3>. SUFFICES ASSUME NEW c \in Ids, cfg'[c].status \in Final, mounts'[c] # 0 PROVE FALSE
      OBVIOUS
    <3>1. mounts[c] # 0 /\ cfg[c].status \in Final
      BY <2>1, <2>4
    <3>2. PICK j \in CLIs : cli[j].at = "detach" /\ cli[j].cur = c
      BY <3>1 DEF BurntInv
    <3>. QED
      BY <2>2, <2>3, <3>2
  <2>6. \A j \in CLIs : cli'[j].at # "remove"
    BY <2>1, <2>2
  <2>7. \A c \in Ids : mounts'[c] \in {0, 1}
    BY <2>4 DEF BurntInv
  <2>. QED
    BY <2>1, <2>4, <2>5, <2>6, <2>7, Elements DEF BurntInv
<1>20. ASSUME NEW k \in CLIs, RefreshDone(k) PROVE BurntInv'
  BY <1>20, RefreshDoneDoes, BurntFrame DEF Moves
<1>21. ASSUME NEW k \in CLIs, StopReadPid(k) PROVE BurntInv'
  BY <1>21, StopReadPidDoes, BurntFrame DEF Moves
<1>22. ASSUME NEW k \in CLIs, StopSignal(k) PROVE BurntInv'
  BY <1>22, StopSignalDoes, BurntFrame DEF Moves
<1>23. ASSUME NEW k \in CLIs, RmCheck(k) PROVE BurntInv'
  <2>1. cli[k].id \in Ids /\ cli[k].at = "act"
        /\ UNCHANGED <<mounts, burnt, stage, sid, cfg>>
    BY <1>23, RmCheckDoes, Elements
  <2>2. \A j \in CLIs : cli[j].at # "idle" => j = k
    BY <2>1 DEF CliInv, OneCLI
  <2>3. CASE Moves(k, "idle")
    BY <2>1, <2>3, BurntFrame DEF Moves
  <2>4. CASE Moves(k, "remove") /\ Same(k) /\ cfg[cli[k].id].status \notin {NoStatus, "Active"}
    <3>1. cfg[cli[k].id].status \in Final
      BY <2>1, <2>4 DEF TypeOK, Statuses, Final
    <3>2. \A j \in CLIs : cli[j].at # "detach"
      BY <2>1, <2>2
    <3>3. mounts[cli[k].id] = 0
      BY <2>1, <3>1, <3>2 DEF BurntInv
    <3>4. \A j \in CLIs : cli'[j].at = "remove" => mounts[cli'[j].id] = 0
      BY <2>4, <3>3 DEF BurntInv, Moves, Same
    <3>. QED
      BY <2>1, <3>2, <3>4 DEF BurntInv
  <2>. QED
    BY <1>23, <2>3, <2>4, RmCheckDoes
<1>24. ASSUME NEW k \in CLIs, RmRemove(k) PROVE BurntInv'
  <2>1. cli[k].id \in Ids /\ mounts[cli[k].id] = 0
    BY <1>24, RmRemoveDoes, Elements DEF BurntInv
  <2>2. burnt' = burnt /\ \A d \in Ids : cfg'[d].status \in {cfg[d].status, NoStatus}
    BY <1>24, <2>1, RmRemoveDoes, RemovalBurnsNothing
  <2>. QED
    BY <1>24, <2>2, RmRemoveDoes, BurntFrame DEF Moves
<1>25. ASSUME NEW k \in CLIs, StartCheck(k) PROVE BurntInv'
  BY <1>25, StartCheckDoes, BurntFrame DEF Moves
<1>26. ASSUME NEW k \in CLIs, RestartSignal(k) PROVE BurntInv'
  BY <1>26, RestartSignalDoes, BurntFrame DEF Moves
<1>27. ASSUME NEW k \in CLIs, NEW c \in Ids, AutostartCheck(k, c) PROVE BurntInv'
  BY <1>27, AutostartCheckDoes, BurntFrame DEF Moves
<1>28. ASSUME NEW k \in CLIs, AutostartDone(k) PROVE BurntInv'
  BY <1>28, AutostartDoneDoes, BurntFrame DEF Moves
<1>29. ASSUME NEW k \in CLIs, Launch(k) PROVE BurntInv'
  <2>1. UNCHANGED <<mounts, burnt, cfg>>
    BY <1>29, LaunchDoes
  <2>2. \A s \in Sessions : stage'[s] \in TornDown => stage[s] \in TornDown /\ sid'[s] = sid[s]
    BY <1>29, LaunchDoes DEF TornDown
  <2>. QED
    BY <1>29, <2>1, <2>2, LaunchDoes, BurntFrame DEF Moves
<1>30. ASSUME NEW k \in CLIs, LaunchFails(k) PROVE BurntInv'
  BY <1>30, LaunchFailsDoes, BurntFrame DEF Moves
<1>31. ASSUME NEW k \in CLIs, WritePidFile(k) PROVE BurntInv'
  BY <1>31, WritePidFileDoes, BurntFrame DEF Moves
<1>32. ASSUME NEW k \in CLIs, CliKilled(k) PROVE BurntInv'
  BY <1>32, CliKilledDoes
<1>33. ASSUME NEW k \in CLIs, NEW cmd \in AllCommands, NEW c \in Ids, Issue(k, cmd, c)
       PROVE  BurntInv'
  BY <1>33, IssueDoes, BurntFrame DEF Moves
<1>34. ASSUME Reboot PROVE BurntInv'
  BY <1>34, RebootDoes, Elements DEF BurntInv
<1>35. CASE UNCHANGED vars
  BY <1>35, BurntFrame DEF vars, supervisors, files, kernel
<1>. QED
  BY <1>1, <1>2, <1>3, <1>4, <1>5, <1>6, <1>7, <1>8, <1>9, <1>10, <1>11, <1>12, <1>13, <1>14,
     <1>15, <1>16, <1>17, <1>18, <1>19, <1>20, <1>21, <1>22, <1>23, <1>24, <1>25, <1>26, <1>27,
     <1>28, <1>29, <1>30, <1>31, <1>32, <1>33, <1>34, <1>35
  DEF Next, SupervisorStep, CommandStep, Fault


-----------------------------------------------------------------------------
(* What a command knows of the boot.                                       *)

\* A config that a command has checked, and that still says Active, is of this
\* boot, unless the command is about to mark it.
Checked(k, c) == cfg[c].status = "Active" =>
                     cfg[c].boot = boot \/ (cli[k].at = "mark" /\ cli[k].cur = c)
BootInv ==
    /\ \A k \in CLIs : cli[k].at \in Looking => \A c \in Ids \ cli[k].todo : Checked(k, c)
    /\ \A k \in CLIs : cli[k].at \in {"act", "signal"} => cli[k].todo = {}

\* No config becomes Active but with the boot id of now.
NoOldActive == \A c \in Ids : \/ cfg'[c] = cfg[c]
                              \/ cfg'[c].status # "Active"
                              \/ cfg'[c].boot = boot

(* What a command has checked stays so, as long as it goes on with the same
   list of containers to be checked.                                       *)
LEMMA CheckedStays ==
    ASSUME BootInv, NoOldActive, boot' = boot, NEW k \in CLIs, cli[k].at \in Looking,
           cli'[k].todo = cli[k].todo, NEW c \in Ids \ cli[k].todo,
           cli[k].at = "mark" /\ cli[k].cur = c =>
               cfg'[c].status # "Active" \/ (cli'[k].at = "mark" /\ cli'[k].cur = c)
    PROVE  Checked(k, c)'
  BY DEF BootInv, NoOldActive, Checked

(* A step that looks at no list of its own keeps the invariant.            *)
LEMMA BootFrame ==
    ASSUME TypeOK, BootInv, NoOldActive, boot' = boot,
           \A k \in CLIs : \/ cli'[k] = cli[k]
                           \/ cli'[k].at \notin Looking
                           \/ /\ cli[k].at \in Looking /\ cli'[k].todo = cli[k].todo
                              /\ cli[k].at = "mark" => cfg'[cli[k].cur].status # "Active"
                              /\ cli'[k].at \in {"act", "signal"} => cli'[k].todo = {}
    PROVE  BootInv'
<1>1. ASSUME NEW k \in CLIs, cli'[k].at \in Looking, NEW c \in Ids \ cli'[k].todo
      PROVE  Checked(k, c)'
  BY <1>1, CheckedStays
<1>2. \A k \in CLIs : cli'[k].at \in {"act", "signal"} => cli'[k].todo = {}
  BY DEF BootInv, Looking
<1>. QED
  BY <1>1, <1>2 DEF BootInv

(* Writes of a config are of this boot, or final.                          *)
LEMMA RemovalIsOld ==
    ASSUME TypeOK, NEW c \in Ids, Removes(c)
    PROVE  NoOldActive
  BY DEF Removes, Cleared, NoOldActive, NoCfg, NoStatus

LEMMA BootStep ==
    ASSUME TypeOK, BornInv, BootInv, [Next]_vars
    PROVE  BootInv'
<1>1. ASSUME NEW s \in Sessions, SupervisorStep(s) PROVE BootInv'
  <2>1. UNCHANGED <<boot, cli>>
    BY <1>1
    DEF SupervisorStep, Mount, Clone, WriteActive, WriteGo, Connect, Reap, RemoveCgroup,
        Unmount, DetachedRemovesDir, WriteFinal, KillPidFile, ForegroundEnds, kernel
  <2>2. NoOldActive
    <3>1. CASE WriteActive(s)
      BY <3>1, ActiveWrites DEF WriteActive, NoOldActive
    <3>2. CASE DetachedRemovesDir(s)
      BY <3>2, DetachedRemovesDirDoes, RemovalIsOld, Elements
    <3>3. CASE WriteFinal(s)
      BY <3>3, ReportWrites DEF WriteFinal, NoOldActive
    <3>4. CASE ForegroundEnds(s)
      BY <3>4, ForegroundEndsDoes, RemovalIsOld, Elements DEF NoOldActive
    <3>5. CASE Mount(s) \/ Clone(s) \/ WriteGo(s) \/ Connect(s) \/ Reap(s) \/ RemoveCgroup(s)
                 \/ Unmount(s) \/ KillPidFile(s)
      BY <3>5 DEF Mount, Clone, WriteGo, Connect, Reap, RemoveCgroup, Unmount, KillPidFile,
                  files, NoOldActive
    <3>. QED
      BY <1>1, <3>1, <3>2, <3>3, <3>4, <3>5 DEF SupervisorStep
  <2>. QED
    BY <2>1, <2>2, BootFrame
<1>2. ASSUME NEW s \in Sessions, NEW x \in Codes, Exit(s, x) PROVE BootInv'
  BY <1>2, BootFrame DEF Exit, files, kernel, NoOldActive
<1>3. ASSUME NEW k \in CLIs, NEW d \in Ids, RefreshCheck(k, d) PROVE BootInv'
  <2>1. UNCHANGED <<boot, cfg>> /\ NoOldActive /\ cli[k].at = "scan" /\ "scan" \in Looking
    BY <1>3, RefreshCheckDoes DEF NoOldActive, Looking
  <2>2. ASSUME NEW j \in CLIs, j # k, cli'[j].at \in Looking, NEW c \in Ids \ cli'[j].todo
        PROVE  Checked(j, c)'
    BY <1>3, <2>1, <2>2, RefreshCheckDoes, CheckedStays DEF Moves
  <2>3. ASSUME NEW c \in Ids \ cli'[k].todo, c # d PROVE Checked(k, c)'
    BY <1>3, <2>1, <2>3, RefreshCheckDoes DEF BootInv, Checked
  <2>4. Checked(k, d)'
    BY <1>3, <2>1, RefreshCheckDoes DEF Moves, Checked, Alive
  <2>5. \A j \in CLIs : cli'[j].at \in {"act", "signal"} => cli'[j].todo = {}
    BY <1>3, RefreshCheckDoes DEF Moves, BootInv
  <2>. QED
    BY <2>2, <2>3, <2>4, <2>5 DEF BootInv
<1>4. ASSUME NEW k \in CLIs, RefreshMark(k) PROVE BootInv'
  <2>1. NoOldActive /\ boot' = boot /\ cli[k].at = "mark" /\ "mark" \in Looking
    BY <1>4, RefreshMarkDoes, Elements DEF NoOldActive, Looking
  <2>2. \/ cli'[k].at \notin Looking
        \/ /\ cli'[k].at = "detach" /\ cli'[k].todo = cli[k].todo
           /\ cfg'[cli[k].cur].status # "Active"
    BY <1>4, RefreshMarkDoes DEF Moves, Same, Looking
  <2>3. \A j \in CLIs : j # k => cli'[j] = cli[j]
    BY <1>4, RefreshMarkDoes DEF Moves
  <2>. QED
    BY <2>1, <2>2, <2>3, BootFrame
<1>5. ASSUME NEW k \in CLIs, RefreshDetach(k) \/ RefreshDone(k) \/ StopReadPid(k) \/ RmCheck(k)
      PROVE  BootInv'
  <2>1. UNCHANGED <<boot, cfg>> /\ NoOldActive
    BY <1>5, RefreshDetachDoes, RefreshDoneDoes, StopReadPidDoes, RmCheckDoes DEF NoOldActive
  <2>2. /\ cli[k].at \in {"detach", "scan", "act"}
        /\ cli'[k].at = "idle" \/ cli'[k].todo = cli[k].todo
        /\ cli'[k].at \in {"act", "signal"} => cli'[k].todo = {}
        /\ \A j \in CLIs : j # k => cli'[j] = cli[j]
    BY <1>5, RefreshDetachDoes, RefreshDoneDoes, StopReadPidDoes, RmCheckDoes
    DEF Moves, Same, BootInv
  <2>. QED
    BY <2>1, <2>2, BootFrame DEF Looking
<1>6. ASSUME NEW k \in CLIs, StopSignal(k) \/ StartCheck(k) \/ RestartSignal(k)
                             \/ AutostartDone(k) \/ LaunchFails(k) \/ CliKilled(k)
      PROVE  BootInv'
  <2>1. UNCHANGED <<boot, cfg>> /\ NoOldActive
    BY <1>6, StopSignalDoes, StartCheckDoes, RestartSignalDoes, AutostartDoneDoes,
       LaunchFailsDoes, CliKilledDoes DEF NoOldActive
  <2>2. /\ cli'[k].at \notin Looking
        /\ \A j \in CLIs : j # k => cli'[j] = cli[j]
    BY <1>6, StopSignalDoes, StartCheckDoes, RestartSignalDoes, AutostartDoneDoes,
       LaunchFailsDoes, CliKilledDoes DEF Moves, Looking
  <2>. QED
    BY <2>1, <2>2, BootFrame
<1>7. ASSUME NEW k \in CLIs, Launch(k) \/ WritePidFile(k) PROVE BootInv'
  <2>1. UNCHANGED <<boot, cfg>> /\ NoOldActive
    BY <1>7, LaunchDoes, WritePidFileDoes DEF NoOldActive
  <2>2. /\ cli'[k].at \notin Looking
        /\ \A j \in CLIs : j # k => cli'[j] = cli[j]
    BY <1>7, LaunchDoes, WritePidFileDoes DEF Moves, Looking
  <2>. QED
    BY <2>1, <2>2, BootFrame
<1>8. ASSUME NEW k \in CLIs, NEW d \in Ids, AutostartCheck(k, d) PROVE BootInv'
  <2>1. UNCHANGED <<boot, cfg>> /\ NoOldActive
    BY <1>8, AutostartCheckDoes DEF NoOldActive
  <2>2. /\ cli'[k].at \notin Looking
        /\ \A j \in CLIs : j # k => cli'[j] = cli[j]
    BY <1>8, AutostartCheckDoes DEF Moves, Looking
  <2>. QED
    BY <2>1, <2>2, BootFrame
<1>9. ASSUME NEW k \in CLIs, RmRemove(k) PROVE BootInv'
  <2>1. boot' = boot /\ NoOldActive
    BY <1>9, RmRemoveDoes, RemovalIsOld, Elements
  <2>2. /\ cli'[k].at \notin Looking
        /\ \A j \in CLIs : j # k => cli'[j] = cli[j]
    BY <1>9, RmRemoveDoes DEF Moves, Looking
  <2>. QED
    BY <2>1, <2>2, BootFrame
<1>10. ASSUME NEW k \in CLIs, NEW cmd \in AllCommands, NEW d \in Ids, Issue(k, cmd, d)
       PROVE  BootInv'
  <2>1. UNCHANGED <<boot, cfg>> /\ NoOldActive
    BY <1>10, IssueDoes DEF NoOldActive
  <2>2. ASSUME NEW j \in CLIs, j # k, cli'[j].at \in Looking, NEW c \in Ids \ cli'[j].todo
        PROVE  Checked(j, c)'
    BY <1>10, <2>1, <2>2, IssueDoes, CheckedStays DEF Moves
  <2>3. ASSUME cli'[k].at \in Looking, NEW c \in Ids \ cli'[k].todo PROVE Checked(k, c)'
    <3>1. cli'[k].todo = {e \in Ids : dir[e]}
      BY <1>10, <2>3, IssueDoes DEF Moves, Looking
    <3>2. cfg[c].status = NoStatus
      BY <2>3, <3>1 DEF BornInv
    <3>. QED
      BY <2>1, <3>2 DEF Checked, NoStatus
  <2>4. \A j \in CLIs : cli'[j].at \in {"act", "signal"} => cli'[j].todo = {}
    BY <1>10, IssueDoes DEF Moves, BootInv
  <2>. QED
    BY <2>2, <2>3, <2>4 DEF BootInv
<1>11. ASSUME Reboot PROVE BootInv'
  BY <1>11, RebootDoes DEF BootInv, Looking
<1>12. ASSUME NEW s \in Sessions, SetupFails(s) \/ ReleaseFails(s) \/ SupervisorKilled(s)
       PROVE  BootInv'
  BY <1>12, BootFrame DEF SetupFails, ReleaseFails, SupervisorKilled, files, kernel, NoOldActive
<1>13. CASE UNCHANGED vars
  BY <1>13, BootFrame DEF vars, files, kernel, NoOldActive
<1>. QED
  BY <1>1, <1>2, <1>3, <1>4, <1>5, <1>6, <1>7, <1>8, <1>9, <1>10, <1>11, <1>12, <1>13
  DEF Next, CommandStep, Fault

-----------------------------------------------------------------------------
(* The invariant, part by part under the circumstances it needs.           *)

Order == OneInv /\ LaunchInv /\ StatusInv /\ DirInv /\ LookInv /\ LeftInv

Alone == RunsOnce /\ OneCLI /\ "abort" \notin Faults

Inv == /\ General
       /\ BootInv
       /\ Orderly => Order
       /\ Alone => BurntInv

LEMMA InvInit == Init => Inv
<1>. SUFFICES ASSUME Init PROVE Inv
  OBVIOUS
<1>1. /\ \A c \in Ids : Of(c) = {} /\ cfg[c].status = NoStatus /\ mounts[c] = 0 /\ ~cgroup[c]
      /\ \A s \in Sessions : stage[s] = "unborn" /\ ~Live(s)
      /\ burnt = {} /\ sid \in [Sessions -> Ids]
  BY ConstantFacts DEF Init, Of, NoCfg, Live
<1>2. \A k \in CLIs : cli[k].at = "idle"
  BY DEF Init, Idle
<1>3. OneInv /\ LaunchInv /\ DirInv
  BY <1>1, <1>2 DEF OneInv, LaunchInv, DirInv, Busy
<1>4. StatusInv /\ LookInv
  BY <1>1, <1>2 DEF StatusInv, StatusFits, LookInv, LookFits, Looking, Final, NoStatus
<1>5. LeftInv
  BY <1>1 DEF LeftInv, LeftOf
<1>6. BurntInv
  BY <1>1, <1>2 DEF BurntInv, TornDown
<1>7. BootInv
  BY <1>2 DEF BootInv, Looking
<1>. QED
  BY <1>3, <1>4, <1>5, <1>6, <1>7, GeneralInit DEF Inv, Order

LEMMA SettingStays == [Next]_vars => UNCHANGED setting
<1>1. CASE \E s \in Sessions : SupervisorStep(s)
  BY <1>1
  DEF SupervisorStep, Mount, Clone, WriteActive, WriteGo, Connect, Reap, RemoveCgroup, Unmount,
      DetachedRemovesDir, WriteFinal, KillPidFile, ForegroundEnds, kernel
<1>2. CASE \E s \in Sessions, x \in Codes : Exit(s, x)
  BY <1>2 DEF Exit, kernel
<1>3. ASSUME NEW k \in CLIs, CommandStep(k) PROVE UNCHANGED setting
  <2>1. ASSUME NEW c \in Ids, RefreshCheck(k, c) \/ AutostartCheck(k, c)
        PROVE  UNCHANGED setting
    BY <2>1 DEF RefreshCheck, AutostartCheck, kernel
  <2>2. CASE RefreshMark(k) \/ RefreshDetach(k) \/ RefreshDone(k)
    BY <2>2 DEF RefreshMark, RefreshDetach, RefreshDone, kernel
  <2>3. CASE StopReadPid(k) \/ StopSignal(k) \/ RmCheck(k) \/ RmRemove(k)
    BY <2>3 DEF StopReadPid, StopSignal, RmCheck, RmRemove, kernel
  <2>4. CASE StartCheck(k) \/ RestartSignal(k) \/ AutostartDone(k)
    BY <2>4 DEF StartCheck, RestartSignal, AutostartDone, kernel
  <2>5. CASE Launch(k) \/ LaunchFails(k) \/ WritePidFile(k)
    BY <2>5 DEF Launch, LaunchFails, WritePidFile, kernel
  <2>. QED
    BY <1>3, <2>1, <2>2, <2>3, <2>4, <2>5 DEF CommandStep
<1>4. CASE \E k \in CLIs, cmd \in AllCommands, c \in Ids : Issue(k, cmd, c)
  BY <1>4 DEF Issue, kernel
<1>5. CASE Fault
  BY <1>5 DEF Fault, SetupFails, ReleaseFails, SupervisorKilled, CliKilled, Reboot, kernel
<1>6. CASE UNCHANGED vars
  BY <1>6 DEF vars, kernel
<1>. QED
  BY <1>1, <1>2, <1>3, <1>4, <1>5, <1>6 DEF Next

LEMMA InvNext == Inv /\ [Next]_vars => Inv'
<1>. SUFFICES ASSUME Inv, [Next]_vars PROVE Inv'
  OBVIOUS
<1>1. UNCHANGED setting
  BY SettingStays
<1>2. (Orderly' <=> Orderly) /\ (Alone' <=> Alone)
  BY <1>1 DEF Orderly, Alone, RunsOnce, TakeTurns, OneCLI, Patient, Commands, Faults
<1>3. General'
  BY TypeStep, GeneralStep DEF Inv, General
<1>4. Orderly => Order'
  BY OrderStep DEF Inv, General, Order
<1>5. ASSUME Alone PROVE BurntInv'
  <2>1. RunsOnce /\ Orderly /\ BurntInv
    BY <1>5 DEF Inv, Alone, Orderly
  <2>. QED
    BY <1>5, <2>1, BurntStep DEF Inv, General, Order, Alone
<1>6. BootInv'
  BY BootStep DEF Inv, General
<1>. QED
  BY <1>2, <1>3, <1>4, <1>5, <1>6 DEF Inv

(* The inductive invariant holds in every state.                           *)
THEOREM InvAlways == Spec => []Inv
<1>1. Init => Inv
  BY InvInit
<1>2. Inv /\ [Next]_vars => Inv'
  BY InvNext
<1>. QED
  BY <1>1, <1>2, PTL DEF Spec

-----------------------------------------------------------------------------
(* The theorems.  Circumstances are orderly where containers are run once, or
   where commands take turns, users wait for teardowns and no supervisor is
   killed (Orderly).                                                       *)

(* Every variable keeps its type.                                          *)
THEOREM TypeCorrect == Spec => []TypeOK
<1>1. Inv => TypeOK
  BY DEF Inv, General
<1>. QED
  BY <1>1, InvAlways, PTL

(* In orderly circumstances a container reported as finished has no process,
   but for one cloned so recently that its supervisor is about to write the
   config.                                                                 *)
THEOREM FinishedIsDead == Spec => []FinishedMeansDead
<1>1. Inv => FinishedMeansDead
  <2>. SUFFICES ASSUME Inv, Orderly, NEW s \in Sessions, cfg[sid[s]].status \in Final, Live(s)
                PROVE  stage[s] = "cloned"
    BY DEF FinishedMeansDead
  <2>1. /\ TypeOK /\ StageInv /\ StatusInv
    BY DEF Inv, General, Order
  <2>2. stage[s] \notin {"unborn", "starting", "mounted"} \cup AfterReap
    BY <2>1 DEF StageInv, Live
  <2>3. s \in Of(sid[s]) /\ sid[s] \in Ids
    BY <2>1, <2>2, Elements DEF Of
  <2>4. stage[s] \in Pre \cup AfterReap
    BY <2>1, <2>3 DEF StatusInv, StatusFits, Busy
  <2>. QED
    BY <2>2, <2>4 DEF Pre
<1>. QED
  BY <1>1, InvAlways, PTL

(* In orderly circumstances no command and no supervisor takes the directory
   away from a running container.                                          *)
THEOREM RunningKeepsDir == Spec => []RunningHasDir
<1>1. Inv => RunningHasDir
  BY DEF Inv, Order, DirInv, RunningHasDir, Running
<1>. QED
  BY <1>1, InvAlways, PTL

(* In orderly circumstances a container has at most one running instance.  *)
THEOREM OneInstanceEach == Spec => []OneInstance
<1>1. Inv => OneInstance
  BY DEF Inv, Order, OneInv, OneInstance, Instances, Busy
<1>. QED
  BY <1>1, InvAlways, PTL

(* In orderly circumstances the pid that stop is about to signal is the one
   that the config has at its second reading, and of this boot, whatever is
   written between the two.                                                *)
THEOREM StopsReadOneInstance == Spec => []StopReadsAgree
<1>1. Inv => StopReadsAgree
  <2>. SUFFICES ASSUME Inv, Orderly, NEW k \in CLIs, cli[k].at = "signal",
                       cfg[cli[k].id].status = "Active"
                PROVE  /\ cli[k].pid # 0 /\ cli[k].pid = cfg[cli[k].id].pid
                       /\ cfg[cli[k].id].boot = boot
    BY DEF StopReadsAgree
  <2>1. cli[k].pid # 0 /\ cli[k].pid = cfg[cli[k].id].pid
    BY DEF Inv, Order, LookInv, LookFits
  <2>2. cli[k].id \in Ids /\ cli[k].todo = {}
    BY Elements DEF Inv, General, BootInv
  <2>. QED
    BY <2>1, <2>2 DEF Inv, BootInv, Checked, Looking
<1>. QED
  BY <1>1, InvAlways, PTL

(* In orderly circumstances, when the supervisors a container has had have
   all ended regularly, it is not mounted, has no control group and is not Active.                    *)
THEOREM NothingIsLeft == Spec => []NothingLeft
<1>1. Inv => NothingLeft
  <2>. SUFFICES ASSUME Inv, Orderly, NEW c \in Ids, Of(c) # {},
                       \A s \in Of(c) : stage[s] = "done"
                PROVE  mounts[c] = 0 /\ ~cgroup[c] /\ cfg[c].status # "Active"
    BY DEF NothingLeft, Of
  <2>1. LeftOf(c) /\ StatusFits(c) /\ PidFits(c)
    BY DEF Inv, General, Order, LeftInv, StatusInv, PidInv
  <2>2. mounts[c] = 0 /\ ~cgroup[c]
    BY <2>1 DEF LeftOf, Holding, Caging
  <2>3. cfg[c].status # "Active"
    BY <2>1 DEF StatusFits, PidFits
  <2>. QED
    BY <2>2, <2>3
<1>. QED
  BY <1>1, InvAlways, PTL

(* One user who runs containers once and aborts no command deletes nothing
   through a mount, whatever supervisors die of.                           *)
THEOREM NothingIsBurnt == Spec => []NothingBurnt
<1>1. Inv => NothingBurnt
  BY DEF Inv, Alone, BurntInv, NothingBurnt
<1>. QED
  BY <1>1, InvAlways, PTL

(* In orderly circumstances and for users who wait for teardowns, a
   container stopped by SIGTERM stays Stopped until it is started again or
   removed: no supervisor at work and no refresh writes over it.           *)
THEOREM StoppedStaysSo == Spec => StoppedStays
<1>1. ASSUME Inv, [Next]_vars PROVE StoppedStaysStopped
  <2>. SUFFICES ASSUME Patient, Orderly, NEW c \in Ids, cfg[c].status = "Stopped"
                PROVE  cfg'[c].status \in {"Stopped", "Active", NoStatus}
    BY DEF StoppedStaysStopped
  <2>1. TypeOK /\ StatusFits(c) /\ \A k \in CLIs : LookFits(k)
    <3>1. TypeOK /\ Order
      BY <1>1 DEF Inv, General
    <3>. QED
      BY <3>1 DEF Order, StatusInv, LookInv
  <2>2. ASSUME NEW s \in Sessions, SupervisorStep(s)
        PROVE  cfg'[c].status \in {"Stopped", "Active", NoStatus}
    <3>1. CASE WriteActive(s)
      BY <2>1, <3>1, WriteActiveDoes
    <3>2. CASE WriteFinal(s)
      <4>1. sid[s] # c
        BY <2>1, <3>2, WriteFinalDoes DEF StatusFits, Of, Pre
      <4>. QED
        BY <2>1, <3>2, <4>1, WriteFinalDoes
    <3>3. CASE DetachedRemovesDir(s) \/ ForegroundEnds(s)
      BY <2>1, <3>3, DetachedRemovesDirDoes, ForegroundEndsDoes, Elements
      DEF Removes, Cleared, NoCfg
    <3>4. CASE UNCHANGED cfg
      BY <3>4
    <3>. QED
      BY <2>2, <3>1, <3>2, <3>3, <3>4
      DEF SupervisorStep, Mount, Clone, WriteGo, Connect, Reap, RemoveCgroup, Unmount,
          KillPidFile, files
  <2>3. ASSUME NEW k \in CLIs, CommandStep(k)
        PROVE  cfg'[c].status \in {"Stopped", "Active", NoStatus}
    <3>1. CASE RefreshMark(k)
      <4>1. cli[k].cur # c
        BY <2>1, <3>1 DEF LookFits, RefreshMark
      <4>. QED
        BY <2>1, <3>1, <4>1, RefreshMarkDoes
    <3>2. CASE RmRemove(k)
      BY <2>1, <3>2, RmRemoveDoes, Elements DEF Removes, Cleared, NoCfg
    <3>3. CASE UNCHANGED cfg
      BY <3>3
    <3>. QED
      BY <2>3, <3>1, <3>2, <3>3
      DEF CommandStep, RefreshCheck, AutostartCheck, RefreshDetach, RefreshDone, StopReadPid,
          StopSignal, RmCheck, StartCheck, RestartSignal, AutostartDone, Launch, LaunchFails,
          WritePidFile, files
  <2>4. CASE UNCHANGED cfg
    BY <2>4
  <2>5. CASE Fault
    BY <2>4, <2>5 DEF Fault, SetupFails, ReleaseFails, SupervisorKilled, CliKilled, Reboot, files
  <2>6. CASE \E s \in Sessions, x \in Codes : Exit(s, x)
    BY <2>4, <2>6 DEF Exit, files
  <2>7. CASE \E k \in CLIs, cmd \in AllCommands, d \in Ids : Issue(k, cmd, d)
    BY <2>4, <2>7 DEF Issue
  <2>8. CASE UNCHANGED vars
    BY <2>4, <2>8 DEF vars, files
  <2>9. CASE Next
    BY <2>2, <2>3, <2>5, <2>6, <2>7, <2>9 DEF Next
  <2>. QED
    BY <1>1, <2>8, <2>9
<1>2. Inv /\ [Next]_vars => [StoppedStaysStopped]_vars
  BY <1>1
<1>. QED
  BY <1>2, InvAlways, PTL DEF Spec, StoppedStays
=============================================================================
