----------------------------- MODULE Lifecycle -----------------------------
(***************************************************************************)
(* The life of containers: the supervisors that spawn_detach_container and *)
(* run_container leave running (engine/runtime/container.rs), the commands *)
(* that refresh, list, stop, remove, start and restart containers          *)
(* (bin/crabtainer.rs, refresh.rs, stop.rs, start.rs), the boot-time       *)
(* autostart (autostart.rs), and the host they run on: processes, mounts,  *)
(* control groups, crashes and reboots.                                    *)
(*                                                                         *)
(* There is no daemon and no lock.  Every supervisor and every command is  *)
(* a process of its own; they meet in the files under <runtime>/<id>/ and  *)
(* in the kernel.  A step is one read or one write of shared state.        *)
(***************************************************************************)
EXTENDS Naturals, FiniteSets

CONSTANTS
    Ids,          \* container ids
    CLIs,         \* command invocations that can run at the same time
    Settings,     \* the circumstances to be checked: one is chosen at the start
    MaxSpawns,    \* bound: supervisors started in a behaviour
    MaxBoots      \* bound: boots of the host

AllCommands == {"run", "ps", "stop", "rm", "start", "restart", "autostart"}
Policies    == {"never", "always", "unless-stopped", "on-failure"}

ASSUME LifecycleConstants ==
    /\ Ids # {}
    /\ MaxSpawns \in Nat \ {0}
    /\ MaxBoots \in Nat \ {0}
    /\ Settings \subseteq
         [ids      : SUBSET Ids,  \* the containers of this behaviour,
          detached : SUBSET Ids,  \* those run with -d
          removed  : SUBSET Ids,  \* and with --rm;
          policy   : Policies,    \* their restart policy;
          commands : SUBSET AllCommands,
          clis     : SUBSET CLIs, \* who issues commands,
          patient  : BOOLEAN,     \* and waits until supervisors are out of the way;
          faults   : SUBSET {"setup", "kill", "abort", "reboot"},
          spawns   : 1..MaxSpawns]

\* A supervisor is named by its number, and so is the container's init that
\* it clones; 0 is no process.
Sessions == 1..MaxSpawns
Pids     == 0..MaxSpawns

VARIABLES
    setting,   \* the circumstances, which never change
    \* supervisors and their containers
    spawned,   \* how many supervisors were started
    sid,       \* the container each supervisor works for
    stage,     \* where each supervisor is
    proc,      \* the container's init: none, blocked, running, zombie, gone
    code,      \* what the init exited with
    \* files
    dir,       \* does <runtime>/<id> exist?
    cfg,       \* config.json: status, pid, boot_id
    pidfile,   \* the pid file: the supervisor of a detached container
    born,      \* the ids generated so far
    \* kernel
    boot,      \* the boot id
    mounts,    \* root filesystems mounted on <runtime>/<id>/rootfs
    cgroup,    \* does the control group exist?
    burnt,     \* ids whose directory was deleted through a mount
    \* commands
    cli        \* where each command invocation is

supervisors == <<spawned, sid, stage, proc, code>>
files       == <<dir, cfg, pidfile, born>>
kernel      == <<setting, boot, mounts, cgroup, burnt>>
vars        == <<supervisors, files, kernel, cli>>

Detached    == setting.detached
AutoRemoved == setting.removed
Commands    == setting.commands
Patient     == setting.patient
Faults      == setting.faults

NoStatus == "none"  \* there is no config.json
Statuses == {NoStatus, "Active", "Exited", "Stopped", "Error"}
NoCfg    == [status |-> NoStatus, pid |-> 0, boot |-> 0]

Ended  == {"done", "dead"}
Stages == {"unborn", "starting", "mounted", "cloned", "configured", "released",
           "waiting", "reaped", "uncaged", "unmounted", "emptied",
           "reported"} \cup Ended
Codes  == {"zero", "143", "other"}

Places == {"idle", "scan", "mark", "detach", "act", "signal", "remove",
           "sleep", "launch", "pidfile", "auto"}
Idle(c) == [at |-> "idle", cmd |-> "ps", id |-> c, cur |-> c, todo |-> {}, pid |-> 0]

TypeOK ==
    /\ setting \in Settings
    /\ spawned \in Pids
    /\ sid \in [Sessions -> Ids]
    /\ stage \in [Sessions -> Stages]
    /\ proc \in [Sessions -> {"none", "blocked", "running", "zombie", "gone"}]
    /\ code \in [Sessions -> Codes]
    /\ dir \in [Ids -> BOOLEAN]
    /\ cfg \in [Ids -> [status : Statuses, pid : Pids, boot : 0..MaxBoots]]
    /\ pidfile \in [Ids -> Pids]
    /\ born \subseteq Ids
    /\ boot \in 1..MaxBoots
    /\ mounts \in [Ids -> Nat]
    /\ cgroup \in [Ids -> BOOLEAN]
    /\ burnt \subseteq Ids
    /\ cli \in [CLIs -> [at : Places, cmd : Commands \cup {"ps"}, id : Ids,
                         cur : Ids, todo : SUBSET Ids, pid : Pids]]

AnId == CHOOSE c \in Ids : TRUE

Init ==
    /\ setting \in Settings
    /\ spawned = 0
    /\ sid = [s \in Sessions |-> AnId]
    /\ stage = [s \in Sessions |-> "unborn"]
    /\ proc = [s \in Sessions |-> "none"]
    /\ code = [s \in Sessions |-> "zero"]
    /\ dir = [c \in Ids |-> FALSE]
    /\ cfg = [c \in Ids |-> NoCfg]
    /\ pidfile = [c \in Ids |-> 0]
    /\ born = {}
    /\ boot = 1
    /\ mounts = [c \in Ids |-> 0]
    /\ cgroup = [c \in Ids |-> FALSE]
    /\ burnt = {}
    /\ cli = [k \in CLIs |-> Idle(AnId)]

-----------------------------------------------------------------------------
(* The host *)

Live(s)      == proc[s] \in {"blocked", "running"}
Running(c)   == \E s \in Sessions : sid[s] = c /\ Live(s)
Instances(c) == {s \in Sessions : sid[s] = c /\ Live(s)}

\* kill(pid, 0) finds a process: the init, not reaped yet, or, for a pid of
\* an earlier boot, whatever process has that number now.
Exists(pid, b) == b # boot \/ proc[pid] \in {"blocked", "running", "zombie"}

\* Mutant: the answer of the null signal is read the wrong way round.
AliveInverted(x) == x.pid # 0 /\ x.boot = boot /\ ~Exists(x.pid, x.boot)

\* Mutant: the boot ids are not compared.
AliveAnyBoot(x) == x.pid # 0 /\ Exists(x.pid, x.boot)

\* is_container_alive
Alive(x) == x.pid # 0 /\ x.boot = boot /\ Exists(x.pid, x.boot)

\* Mutant: what is not mounted is counted as detached.
DetachUncounted(c) == mounts' = [mounts EXCEPT ![c] = @ - 1]

\* umount2 detaches the file system mounted last.
Detach(c) == mounts' = [mounts EXCEPT ![c] = IF @ = 0 THEN 0 ELSE @ - 1]

\* fs::remove_dir_all(<runtime>/<id>).  With a root file system mounted it
\* first deletes through the mount, in the overlay, the host's /dev and the
\* volumes, then fails on the busy mount point.
RemoveAll(c) ==
    IF mounts[c] = 0
    THEN /\ dir' = [dir EXCEPT ![c] = FALSE]
         /\ cfg' = [cfg EXCEPT ![c] = NoCfg]
         /\ pidfile' = [pidfile EXCEPT ![c] = 0]
         /\ UNCHANGED burnt
    ELSE /\ \E x \in {cfg[c], NoCfg} : cfg' = [cfg EXCEPT ![c] = x]
         /\ \E x \in {pidfile[c], 0} : pidfile' = [pidfile EXCEPT ![c] = x]
         /\ burnt' = burnt \cup {c}
         /\ UNCHANGED dir

Working == {s \in Sessions : stage[s] \notin Ended \cup {"unborn"}}

\* A container outlives its supervisor; a zombie is then reaped by the
\* host's init.
Orphan(s, orphaned) == IF orphaned /\ proc[s] = "zombie" THEN "gone" ELSE proc[s]

Dies(s) == /\ stage' = [stage EXCEPT ![s] = "dead"]
           /\ proc' = [proc EXCEPT ![s] = Orphan(s, TRUE)]

-----------------------------------------------------------------------------
(* A supervisor *)

To(s, l) == stage' = [stage EXCEPT ![s] = l]

\* create_dir_all and the overlay, proc, sys, dev, init and volume mounts.
Mount(s) ==
    /\ stage[s] = "starting"
    /\ dir' = [dir EXCEPT ![sid[s]] = TRUE]
    /\ mounts' = [mounts EXCEPT ![sid[s]] = @ + 1]
    /\ To(s, "mounted")
    /\ UNCHANGED <<spawned, sid, proc, code, cfg, pidfile, born, setting, boot, cgroup,
                   burnt, cli>>

\* A missing layout, bad ports, a failed mount, cgroup or clone: an early
\* return or a panic that leaves what was set up so far.
SetupFails(s) ==
    /\ "setup" \in Faults
    /\ stage[s] \in {"starting", "mounted"}
    /\ \/ UNCHANGED <<dir, mounts>>
       \/ /\ stage[s] = "starting"
          /\ dir' = [dir EXCEPT ![sid[s]] = TRUE]
          /\ mounts' = [mounts EXCEPT ![sid[s]] = @ + 1]
    /\ \/ UNCHANGED cgroup
       \/ stage[s] = "mounted" /\ cgroup' = [cgroup EXCEPT ![sid[s]] = TRUE]
    /\ Dies(s)
    /\ UNCHANGED <<spawned, sid, code, cfg, pidfile, born, setting, boot, burnt, cli>>

\* setup_cgroups and clone.  A detached child waits on the pipe.
Clone(s) ==
    /\ stage[s] = "mounted"
    /\ cgroup' = [cgroup EXCEPT ![sid[s]] = TRUE]
    /\ proc' = [proc EXCEPT ![s] = IF sid[s] \in Detached THEN "blocked"
                                                          ELSE "running"]
    /\ To(s, "cloned")
    /\ UNCHANGED <<spawned, sid, code, files, setting, boot, mounts, burnt, cli>>

\* config.json says Active, with the pid of the init and the boot id.
WriteActive(s) ==
    /\ stage[s] = "cloned"
    /\ IF dir[sid[s]]
       THEN /\ cfg' = [cfg EXCEPT ![sid[s]] =
                          [status |-> "Active", pid |-> s, boot |-> boot]]
            /\ To(s, IF sid[s] \in Detached THEN "configured" ELSE "released")
            /\ UNCHANGED proc
       ELSE Dies(s) /\ UNCHANGED cfg
    /\ UNCHANGED <<spawned, sid, code, dir, pidfile, born, kernel, cli>>

\* The byte that lets a detached child go on.
WriteGo(s) ==
    /\ stage[s] = "configured"
    /\ proc' = [proc EXCEPT ![s] = "running"]
    /\ To(s, "released")
    /\ UNCHANGED <<spawned, sid, code, files, kernel, cli>>

\* Port forwarding and the network; a detached supervisor panics when the
\* ports are bad, a foreground one has checked them before.
Connect(s) ==
    /\ stage[s] = "released"
    /\ \/ To(s, "waiting") /\ UNCHANGED proc
       \/ "setup" \in Faults /\ sid[s] \in Detached /\ Dies(s)
    /\ UNCHANGED <<spawned, sid, code, files, kernel, cli>>

\* The init exits, on its own or after a signal.
Exit(s, x) ==
    /\ proc[s] = "running"
    /\ proc' = [proc EXCEPT ![s] = IF stage[s] \in Ended THEN "gone" ELSE "zombie"]
    /\ code' = [code EXCEPT ![s] = x]
    /\ UNCHANGED <<spawned, sid, stage, files, kernel, cli>>

\* Mutant: waitpid does not wait.
ReapNoHang(s) ==
    /\ stage[s] = "waiting"
    /\ proc' = [proc EXCEPT ![s] = IF @ = "zombie" THEN "gone" ELSE @]
    /\ To(s, "reaped")
    /\ UNCHANGED <<spawned, sid, code, files, kernel, cli>>

\* waitpid
Reap(s) ==
    /\ stage[s] = "waiting"
    /\ proc[s] = "zombie"
    /\ proc' = [proc EXCEPT ![s] = "gone"]
    /\ To(s, "reaped")
    /\ UNCHANGED <<spawned, sid, code, files, kernel, cli>>

\* The address cannot be released (I/O): run_container returns at once.
ReleaseFails(s) ==
    /\ "setup" \in Faults
    /\ stage[s] = "reaped"
    /\ sid[s] \notin Detached
    /\ Dies(s)
    /\ UNCHANGED <<spawned, sid, code, files, kernel, cli>>

\* Mutant: the control group stays behind.
RemoveCgroupNot(s) ==
    /\ stage[s] = "reaped"
    /\ To(s, "uncaged")
    /\ UNCHANGED <<spawned, sid, proc, code, files, kernel, cli>>

\* fs::remove_dir(<cgroup>) fails while a process is in the group.
RemoveCgroup(s) ==
    /\ stage[s] = "reaped"
    /\ cgroup' = [cgroup EXCEPT ![sid[s]] = @ /\ Running(sid[s])]
    /\ To(s, "uncaged")
    /\ UNCHANGED <<spawned, sid, proc, code, files, setting, boot, mounts, burnt, cli>>

\* Mutant: the root filesystem stays mounted.
UnmountNot(s) ==
    /\ stage[s] = "uncaged"
    /\ To(s, "unmounted")
    /\ UNCHANGED <<spawned, sid, proc, code, files, kernel, cli>>

\* umount, and with --rm a detached supervisor deletes the directory next.
Unmount(s) ==
    /\ stage[s] = "uncaged"
    /\ Detach(sid[s])
    /\ To(s, "unmounted")
    /\ UNCHANGED <<spawned, sid, proc, code, files, setting, boot, cgroup, burnt, cli>>

\* The status a supervisor reports.
FinalStatus(s) ==
    CASE code[s] = "zero" -> "Exited"
      [] code[s] = "143" /\ sid[s] \in Detached -> "Stopped"
      [] OTHER -> "Error"

\* config.json, rewritten from the copy made at the start.
ReportFinal(s) ==
    cfg' = [cfg EXCEPT ![sid[s]] =
               [status |-> FinalStatus(s), pid |-> s, boot |-> boot]]

\* --rm, detached: the directory goes before the final status is written.
RemovesDirFirst(s) == sid[s] \in Detached \cap AutoRemoved

DetachedRemovesDir(s) ==
    /\ stage[s] = "unmounted"
    /\ RemovesDirFirst(s)
    /\ IF dir[sid[s]] THEN RemoveAll(sid[s])
                      ELSE UNCHANGED <<dir, cfg, pidfile, burnt>>
    /\ To(s, "emptied")
    /\ UNCHANGED <<spawned, sid, proc, code, born, setting, boot, mounts, cgroup, cli>>

\* Mutant: the config with the final status is not written back.
WriteFinalUnsaved(s) ==
    /\ stage[s] = IF RemovesDirFirst(s) THEN "emptied" ELSE "unmounted"
    /\ To(s, "reported")
    /\ UNCHANGED <<spawned, sid, proc, code, files, kernel, cli>>

\* The final status.  Without the directory a detached supervisor ignores
\* the error and a foreground one panics.
WriteFinal(s) ==
    /\ stage[s] = IF RemovesDirFirst(s) THEN "emptied" ELSE "unmounted"
    /\ IF dir[sid[s]] THEN ReportFinal(s) ELSE UNCHANGED cfg
    /\ IF dir[sid[s]] \/ sid[s] \in Detached
       THEN To(s, "reported") /\ UNCHANGED proc
       ELSE Dies(s)
    /\ UNCHANGED <<spawned, sid, code, dir, pidfile, born, kernel, cli>>

\* A detached supervisor ends by killing the process named in the pid file,
\* which it takes for itself.
KillPidFile(s) ==
    /\ stage[s] = "reported"
    /\ sid[s] \in Detached
    /\ LET gone == (Working \cap {pidfile[sid[s]]}) \ {s}
       IN  /\ stage' = [u \in Sessions |-> CASE u = s -> "done"
                                             [] u \in gone -> "dead"
                                             [] OTHER -> stage[u]]
           /\ proc' = [u \in Sessions |-> Orphan(u, u \in gone)]
    /\ UNCHANGED <<spawned, sid, code, files, kernel, cli>>

\* A foreground supervisor deletes the directory last, if asked to.
ForegroundEnds(s) ==
    /\ stage[s] = "reported"
    /\ sid[s] \notin Detached
    /\ IF sid[s] \in AutoRemoved /\ dir[sid[s]]
       THEN RemoveAll(sid[s])
       ELSE UNCHANGED <<dir, cfg, pidfile, burnt>>
    /\ To(s, "done")
    /\ UNCHANGED <<spawned, sid, proc, code, born, setting, boot, mounts, cgroup, cli>>

SupervisorKilled(s) ==
    /\ "kill" \in Faults
    /\ s \in Working
    /\ Dies(s)
    /\ UNCHANGED <<spawned, sid, code, files, kernel, cli>>

-----------------------------------------------------------------------------
(* Commands *)

\* What patient users wait for: refresh does not meet a supervisor that sets
\* up or tears down; rm and launches meet none at all, so 50 ms are enough
\* for restart; autostart runs only when the container does not.
Steady(c)  == Patient => \A s \in Working : sid[s] = c => stage[s] = "waiting"
Settled(c) == Patient => \A s \in Working : sid[s] # c
Still(c)   == Settled(c) /\ (Patient => ~Running(c))

Become(k, l) == cli' = [cli EXCEPT ![k].at = l]
Ends(k)      == cli' = [cli EXCEPT ![k] = Idle(AnId)]

Refreshing == {"ps", "stop", "rm", "start", "restart"}

\* A command is issued for a container; run is issued for a fresh id.
Issue(k, cmd, c) ==
    /\ cli[k].at = "idle"
    /\ cmd \in Commands /\ k \in setting.clis
    /\ IF cmd \in {"ps", "autostart"} THEN c = AnId ELSE c \in setting.ids
    /\ cmd = "run" => c \notin born
    /\ cmd = "run" => spawned < setting.spawns
    /\ cli' = [cli EXCEPT ![k] =
          [at   |-> CASE cmd \in Refreshing -> "scan"
                      [] cmd = "run" -> "launch"
                      [] cmd = "autostart" -> "auto",
           cmd  |-> cmd, id |-> c, cur |-> c, pid |-> 0,
           todo |-> IF cmd = "run" THEN {} ELSE {d \in Ids : dir[d]}]]
    /\ born' = IF cmd = "run" THEN born \cup {c} ELSE born
    /\ UNCHANGED <<supervisors, dir, cfg, pidfile, kernel>>

(* refresh_container_states, one container after the other *)

\* Mutant: finished containers are checked too.
RefreshCheckAll(k, c) ==
    /\ cli[k].at = "scan"
    /\ c \in cli[k].todo
    /\ Steady(c)
    /\ cli' = [cli EXCEPT ![k].cur = c, ![k].todo = @ \ {c},
                          ![k].at = IF cfg[c].status # NoStatus /\ ~Alive(cfg[c])
                                    THEN "mark" ELSE "scan"]
    /\ UNCHANGED <<supervisors, files, kernel>>

\* Read the config; ask the kernel when it says Active.
RefreshCheck(k, c) ==
    /\ cli[k].at = "scan"
    /\ c \in cli[k].todo
    /\ Steady(c)
    /\ cli' = [cli EXCEPT ![k].cur = c, ![k].todo = @ \ {c},
                          ![k].at = IF cfg[c].status = "Active" /\ ~Alive(cfg[c])
                                    THEN "mark" ELSE "scan"]
    /\ UNCHANGED <<supervisors, files, kernel>>

\* Write the config back as Exited with pid 0, after which nobody looks at
\* its boot id.  The command fails when the directory is gone.
RefreshMark(k) ==
    LET c == cli[k].cur
    IN  /\ cli[k].at = "mark"
        /\ IF dir[c]
           THEN /\ cfg' = [cfg EXCEPT ![c] =
                              [status |-> "Exited", pid |-> 0, boot |-> 0]]
                /\ Become(k, "detach")
           ELSE UNCHANGED cfg /\ Ends(k)
        /\ UNCHANGED <<supervisors, dir, pidfile, born, kernel>>

\* Detach the root file system.
RefreshDetach(k) ==
    /\ cli[k].at = "detach"
    /\ Detach(cli[k].cur)
    /\ Become(k, "scan")
    /\ UNCHANGED <<supervisors, files, setting, boot, cgroup, burnt>>

\* ps prints and ends; the other commands look the container up by name,
\* which needs a config.json.
RefreshDone(k) ==
    /\ cli[k].at = "scan"
    /\ cli[k].todo = {}
    /\ IF cli[k].cmd = "ps" \/ cfg[cli[k].id].status = NoStatus
       THEN Ends(k) ELSE Become(k, "act")
    /\ UNCHANGED <<supervisors, files, kernel>>

(* stop *)

\* find_pid
StopReadPid(k) ==
    /\ cli[k].at = "act"
    /\ cli[k].cmd = "stop"
    /\ cli' = [cli EXCEPT ![k].pid = cfg[cli[k].id].pid, ![k].at = "signal"]
    /\ UNCHANGED <<supervisors, files, kernel>>

\* The config is read a second time; if it says Active the pid read before
\* gets SIGTERM.  The init passes it on, and what the container does then is
\* its own affair (Exit); a missing process makes the command panic.
StopSignal(k) ==
    /\ cli[k].at = "signal"
    /\ Ends(k)
    /\ UNCHANGED <<supervisors, files, kernel>>

(* rm *)

RmCheck(k) ==
    /\ cli[k].at = "act"
    /\ cli[k].cmd = "rm"
    /\ Settled(cli[k].id)
    /\ IF cfg[cli[k].id].status \in {NoStatus, "Active"}
       THEN Ends(k) ELSE Become(k, "remove")
    /\ UNCHANGED <<supervisors, files, kernel>>

RmRemove(k) ==
    /\ cli[k].at = "remove"
    /\ IF dir[cli[k].id] THEN RemoveAll(cli[k].id)
                         ELSE UNCHANGED <<dir, cfg, pidfile, burnt>>
    /\ Ends(k)
    /\ UNCHANGED <<supervisors, born, setting, boot, mounts, cgroup>>

(* start, restart, autostart *)

\* start_container refuses an Active container.
Startable(c) == cfg[c].status \notin {NoStatus, "Active"}

StartCheck(k) ==
    /\ \/ cli[k].at = "act" /\ cli[k].cmd = "start"
       \/ cli[k].at = "sleep"
    /\ Settled(cli[k].id)
    /\ IF Startable(cli[k].id) THEN Become(k, "launch") ELSE Ends(k)
    /\ UNCHANGED <<supervisors, files, kernel>>

\* restart_container: only an Active container; SIGTERM, then 50 ms.
RestartSignal(k) ==
    /\ cli[k].at = "act"
    /\ cli[k].cmd = "restart"
    /\ LET x == cfg[cli[k].id]
       IN  IF x.status = "Active" /\ x.pid # 0 /\ Exists(x.pid, x.boot)
           THEN Become(k, "sleep") ELSE Ends(k)
    /\ UNCHANGED <<supervisors, files, kernel>>

\* autostart_detached
ShouldAutostart(c) ==
    /\ c \in Detached
    /\ CASE setting.policy = "never" -> FALSE
         [] setting.policy \in {"always", "unless-stopped"} ->
                cfg[c].status \notin {NoStatus, "Stopped"}
         [] setting.policy = "on-failure" -> cfg[c].status = "Error"

AutostartCheck(k, c) ==
    /\ cli[k].at = "auto"
    /\ c \in cli[k].todo
    /\ Still(c)
    /\ cli' = [cli EXCEPT ![k].id = c, ![k].todo = @ \ {c},
                          ![k].at = IF ShouldAutostart(c) THEN "launch" ELSE "auto"]
    /\ UNCHANGED <<supervisors, files, kernel>>

AutostartDone(k) ==
    /\ cli[k].at = "auto"
    /\ cli[k].todo = {}
    /\ Ends(k)
    /\ UNCHANGED <<supervisors, files, kernel>>

\* autostart logs a failed launch and goes on with the next container.
Launched(k) == IF cli[k].cmd = "autostart" THEN Become(k, "auto") ELSE Ends(k)

\* spawn_detach_container up to fork, or run_container from its start: the
\* supervisor comes to life.  -d has created the directory by then.
Launch(k) ==
    LET c == cli[k].id
        s == spawned + 1
    IN  /\ cli[k].at = "launch"
        /\ spawned < setting.spawns
        /\ spawned' = s
        /\ sid' = [sid EXCEPT ![s] = c]
        /\ stage' = [stage EXCEPT ![s] = "starting"]
        /\ IF c \in Detached
           THEN /\ dir' = [dir EXCEPT ![c] = TRUE]
                /\ cli' = [cli EXCEPT ![k].at = "pidfile", ![k].pid = s]
           ELSE UNCHANGED dir /\ Launched(k)
        /\ UNCHANGED <<proc, code, cfg, pidfile, born, kernel>>

\* The address, the bridge or the directory cannot be had; also the bound.
LaunchFails(k) ==
    /\ cli[k].at = "launch"
    /\ "setup" \in Faults \/ spawned = setting.spawns
    /\ Launched(k)
    /\ UNCHANGED <<supervisors, files, kernel>>

\* The parent records the supervisor it forked.
WritePidFile(k) ==
    LET c == cli[k].id
    IN  /\ cli[k].at = "pidfile"
        /\ IF dir[c]
           THEN pidfile' = [pidfile EXCEPT ![c] = cli[k].pid] /\ Launched(k)
           ELSE UNCHANGED pidfile /\ Ends(k)
        /\ UNCHANGED <<supervisors, dir, cfg, born, kernel>>

CliKilled(k) ==
    /\ "abort" \in Faults
    /\ cli[k].at # "idle"
    /\ Ends(k)
    /\ UNCHANGED <<supervisors, files, kernel>>

Reboot ==
    /\ "reboot" \in Faults
    /\ boot < MaxBoots
    /\ boot' = boot + 1
    /\ stage' = [s \in Sessions |-> IF s \in Working THEN "dead" ELSE stage[s]]
    /\ proc' = [s \in Sessions |-> IF proc[s] = "none" THEN "none" ELSE "gone"]
    /\ mounts' = [c \in Ids |-> 0]
    /\ cgroup' = [c \in Ids |-> FALSE]
    /\ cli' = [k \in CLIs |-> Idle(AnId)]
    /\ UNCHANGED <<setting, spawned, sid, code, files, burnt>>

-----------------------------------------------------------------------------
SupervisorStep(s) ==
    \/ Mount(s) \/ Clone(s) \/ WriteActive(s) \/ WriteGo(s) \/ Connect(s)
    \/ Reap(s) \/ RemoveCgroup(s) \/ Unmount(s) \/ DetachedRemovesDir(s)
    \/ WriteFinal(s) \/ KillPidFile(s) \/ ForegroundEnds(s)

CommandStep(k) ==
    \/ \E c \in Ids : RefreshCheck(k, c) \/ AutostartCheck(k, c)
    \/ RefreshMark(k) \/ RefreshDetach(k) \/ RefreshDone(k)
    \/ StopReadPid(k) \/ StopSignal(k)
    \/ RmCheck(k) \/ RmRemove(k)
    \/ StartCheck(k) \/ RestartSignal(k) \/ AutostartDone(k)
    \/ Launch(k) \/ LaunchFails(k) \/ WritePidFile(k)

Fault ==
    \/ \E s \in Sessions : SetupFails(s) \/ ReleaseFails(s) \/ SupervisorKilled(s)
    \/ \E k \in CLIs : CliKilled(k)
    \/ Reboot

Next ==
    \/ \E s \in Sessions : SupervisorStep(s)
    \/ \E s \in Sessions, x \in Codes : Exit(s, x)
    \/ \E k \in CLIs : CommandStep(k)
    \/ \E k \in CLIs, cmd \in AllCommands, c \in Ids : Issue(k, cmd, c)
    \/ Fault

Spec == Init /\ [][Next]_vars

\* What the engine's own processes do when nothing stops them.
EngineFairness == /\ \A s \in Sessions : WF_vars(SupervisorStep(s))
                  /\ \A k \in CLIs : WF_vars(CommandStep(k))

FairSpec == Spec /\ EngineFairness

\* Somebody looks at the containers again and again.
PsRecurs == \A k \in CLIs : SF_vars(Issue(k, "ps", AnId))

-----------------------------------------------------------------------------
(* What holds, and for which users.  Users that only run containers may do
   so at any interleaving, with every fault.  Users that start them again
   wait and take turns, and kill no supervisor: a container that is started
   while its last supervisor is still at work, or that has lost one, may be
   Exited and run, be deleted under its feet, or run twice.                *)

OneCLI    == \A j, k \in setting.clis : j = k
RunsOnce  == Commands \cap {"start", "restart", "autostart"} = {}
TakeTurns == Patient /\ OneCLI /\ "kill" \notin Faults
Orderly   == RunsOnce \/ TakeTurns

Final == {"Exited", "Stopped", "Error"}

(* A container that its config reports as finished has no process left,
   except one cloned so recently that its supervisor is about to write the
   config (docs/src/lifecycle.md, the status table): supervisors write a
   final status after waitpid, refresh after the pid is gone.              *)
FinishedMeansDead == Orderly =>
    \A s \in Sessions :
        cfg[sid[s]].status \in Final /\ Live(s) => stage[s] = "cloned"

(* rm and --rm never take the directory away from a running container, in
   whatever order the check, the deletion and the supervisor's own steps
   come.                                                                   *)
RunningHasDir == Orderly => \A c \in Ids : Running(c) => dir[c]

(* With one command at a time that nobody aborts, and containers that are run
   once, no directory is deleted while a root file system is mounted in it,
   which would delete from the host's /dev and from the container's volumes,
   whatever supervisors die of.                                            *)
NothingBurnt == RunsOnce /\ OneCLI /\ "abort" \notin Faults => burnt = {}

(* When every supervisor a container had has ended regularly, nothing of
   the container is left in the kernel and its config does not claim to be
   Active.                                                                 *)
NothingLeft == Orderly =>
    \A c \in Ids :
        LET mine == {s \in Sessions : sid[s] = c /\ stage[s] # "unborn"}
        IN  mine # {} /\ (\A s \in mine : stage[s] = "done")
            => mounts[c] = 0 /\ ~cgroup[c] /\ cfg[c].status # "Active"

(* stop reads the config twice, for the pid and for the status, while
   refreshes and supervisors rewrite it, and the refresh before has to find
   out what a reboot has ended.  When the second reading says Active, the pid
   that the first one took is still that of the config, and a number of this
   boot; it is never 0, which would signal stop's own process group.  Whether
   the process of that number still lives is not claimed: between the end of
   an instance and its final status the kernel may give the number away.     *)
StopReadsAgree == Orderly =>
    \A k \in CLIs :
        LET x == cfg[cli[k].id]
        IN  cli[k].at = "signal" /\ x.status = "Active"
                => cli[k].pid # 0 /\ cli[k].pid = x.pid /\ x.boot = boot

(* A container never has two instances: start rejects Active containers and
   autostart is for containers that do not run.                            *)
OneInstance == Orderly =>
    \A c \in Ids : \A s, t \in Instances(c) : s = t

(* A container stopped by SIGTERM (exit code 143) stays Stopped until it is
   started again or removed, if users wait.                                *)
StoppedStaysStopped == Patient /\ Orderly =>
    \A c \in Ids : cfg[c].status = "Stopped" =>
        cfg'[c].status \in {"Stopped", "Active", NoStatus}
StoppedStays == [][StoppedStaysStopped]_vars

(* A supervisor that lives sees the exit of its container, tears it down,
   and ends with a final status in the config or no config at all: the exit
   is reported without anybody asking for it.                              *)
ExitIsReported ==
    \A s \in Sessions :
        proc[s] = "zombie" ~>
            \/ stage[s] = "dead"
            \/ stage[s] = "done" /\ cfg[sid[s]].status \in Final \cup {NoStatus}

(* Whatever happened to its supervisor or to the host, a container that is
   not running does not stay Active if somebody runs ps again and again, to
   the end: the refresh repairs the config.                                *)
ActiveButDead(c) == "abort" \notin Faults /\ cfg[c].status = "Active" /\ ~Running(c)
DeadIsNoticed == PsRecurs => \A c \in Ids : ActiveButDead(c) ~> ~ActiveButDead(c)
=============================================================================
