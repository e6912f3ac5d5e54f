-------------------------------- MODULE Ipam --------------------------------
(***************************************************************************)
(* The address manager (engine/runtime/network.rs, struct Ipam) and the    *)
(* engine processes that use it.                                           *)
(*                                                                         *)
(* Every engine process reads the whole of ipam.json into a snapshot of    *)
(* its own when it starts (Ipam::new), changes that snapshot, and writes   *)
(* the whole snapshot back (persist_sync).  Nothing locks the file across  *)
(* processes: the mutex in Ipam is inside one process.  The snapshot of a  *)
(* supervisor is as old as the container it supervises.                    *)
(*                                                                         *)
(* A process is a supervisor (spawn_detach_container, run_container) or a  *)
(* refresh (refresh_container_states).  persist_sync is one step here: its *)
(* own steps, and two processes sharing ipam.tmp, are in PersistSync.      *)
(***************************************************************************)
EXTENDS Leases

CONSTANTS NoContainer,      \* what an idle process works for
          Procs,            \* engine processes that can run at the same time
          NoProc, Orphan,   \* what config.json may name instead of a supervised container
          OverlapLaunches,  \* may two launches be between read and write at once?
          Relaunched,       \* the ids that are launched again (start, autostart)
          Failures          \* do processes crash, persists fail and hosts reboot?

ASSUME IpamConstants == /\ NoContainer \notin Containers
                        /\ NoProc \notin Procs /\ Orphan \notin Procs /\ NoProc # Orphan
                        /\ OverlapLaunches \in BOOLEAN
                        /\ Relaunched \subseteq Containers
                        /\ Failures \in BOOLEAN

VARIABLES
    dbExists,  \* does ipam.json exist?
    db,        \* the allocations in ipam.json
    pc,        \* where each engine process is
    cont,      \* the container each engine process works for
    mem,       \* the snapshot each engine process holds
    status,    \* the status in each container's config.json
    named,     \* whose process config.json names: that of a supervisor, an orphan, none
    addr,      \* the address of the running instance that each process supervises
    left,      \* the addresses of running instances that have lost their supervisor
    alone      \* history: no two engine processes have been at work at once, and
               \* no container was launched while an instance of it ran

vars == <<dbExists, db, pc, cont, mem, status, named, addr, left, alone>>

PC == {"idle", "creating", "opened", "leased", "supervising", "exited",
       "released", "refreshing", "refreshOpened"}

\* "new": the id is not in use; "starting": a directory and no config.json;
\* "gone": the directory was removed.
Status == {"new", "starting", "Active", "Exited", "gone"}

TypeOK == /\ dbExists \in BOOLEAN
          /\ db \in LeaseMap
          /\ pc \in [Procs -> PC]
          /\ cont \in [Procs -> Containers \cup {NoContainer}]
          /\ \A p \in Procs : pc[p] # "idle" => cont[p] \in Containers
          /\ mem \in [Procs -> LeaseMap]
          /\ status \in [Containers -> Status]
          /\ named \in [Containers -> Procs \cup {NoProc, Orphan}]
          /\ addr \in [Procs -> Pool \cup {NoAddr}]
          /\ left \in [Containers -> SUBSET (Pool \cup {NoAddr})]
          /\ alone \in BOOLEAN

Init == /\ dbExists = FALSE
        /\ db = EmptyLease
        /\ pc = [p \in Procs |-> "idle"]
        /\ cont = [p \in Procs |-> NoContainer]
        /\ mem = [p \in Procs |-> EmptyLease]
        /\ status = [c \in Containers |-> "new"]
        /\ named = [c \in Containers |-> NoProc]
        /\ addr = [p \in Procs |-> NoAddr]
        /\ left = [c \in Containers |-> {}]
        /\ alone = TRUE

\* An instance of c runs with address a.
Lives(c, a) == \/ a \in left[c]
               \/ \E p \in Procs : pc[p] = "supervising" /\ cont[p] = c /\ addr[p] = a

\* No other engine process is at work.
Undisturbed(p) == \A q \in Procs \ {p} : pc[q] = "idle"

Goto(p, l) == pc' = [pc EXCEPT ![p] = l]

\* The process returns or dies, and its snapshot with it.
End(p) == /\ pc' = [pc EXCEPT ![p] = "idle"]
          /\ cont' = [cont EXCEPT ![p] = NoContainer]
          /\ mem' = [mem EXCEPT ![p] = EmptyLease]

\* What runs, and what the configs say of it, stays as it is.
Instances == <<named, addr, left>>

-----------------------------------------------------------------------------
(* Ipam::new *)

\* The file exists: its contents become the snapshot.
ReadDb(p, next) == /\ dbExists
                   /\ mem' = [mem EXCEPT ![p] = db]
                   /\ Goto(p, next)

\* path.exists() was false: the process goes on to create the database.
FindNoDb(p) == /\ ~dbExists
               /\ mem' = [mem EXCEPT ![p] = EmptyLease]
               /\ Goto(p, "creating")

\* persist_sync: the whole snapshot m replaces the database.
Persist(m) == /\ db' = m
              /\ dbExists' = TRUE

-----------------------------------------------------------------------------
(* A supervisor: spawn_detach_container and run_container *)

Launching == {"creating", "opened", "leased"}

\* Mutant: ids of removed containers come back.
CanLaunchGone(c) == status[c] \in {"new", "gone"}

\* A fresh id (run), or one with a config (start; autostart, whatever runs).
CanLaunch(c) == status[c] = "new" \/ (c \in Relaunched /\ status[c] \in {"Active", "Exited"})

LaunchOpen(p, c) ==
    /\ pc[p] = "idle"
    /\ alone' = (alone /\ Undisturbed(p) /\ \A a \in Pool : ~Lives(c, a))
    /\ CanLaunch(c)
    /\ OverlapLaunches \/ \A q \in Procs : pc[q] \notin {"creating", "opened"}
    /\ ReadDb(p, "opened") \/ FindNoDb(p)
    /\ cont' = [cont EXCEPT ![p] = c]
    /\ status' = [status EXCEPT ![c] = IF @ = "new" THEN "starting" ELSE @]
    /\ UNCHANGED <<dbExists, db, Instances>>

\* Ipam::new found no file and persists the empty state, over whatever was
\* created since it looked.
LaunchCreatesDb(p) ==
    /\ pc[p] = "creating"
    /\ Persist(EmptyLease)
    /\ Goto(p, "opened")
    /\ UNCHANGED <<cont, mem, status, Instances, alone>>

\* allocate: the snapshot already has a lease for the container.
AllocateExisting(p) ==
    /\ pc[p] = "opened"
    /\ mem[p][cont[p]] # NoAddr
    /\ Goto(p, "leased")
    /\ UNCHANGED <<dbExists, db, cont, mem, status, Instances, alone>>

\* Mutant: the lease is written to the file and not kept in the state.
AllocateNotInserted(p) ==
    /\ pc[p] = "opened"
    /\ mem[p][cont[p]] = NoAddr
    /\ \E a \in FreeAddrs(mem[p]) : Persist([mem[p] EXCEPT ![cont[p]] = a])
    /\ Goto(p, "leased")
    /\ UNCHANGED <<cont, mem, status, Instances, alone>>

\* allocate: the first host address that no container of the snapshot holds.
AllocateFresh(p) ==
    /\ pc[p] = "opened"
    /\ mem[p][cont[p]] = NoAddr
    /\ \E a \in FreeAddrs(mem[p]) :
          /\ \A b \in FreeAddrs(mem[p]) : a <= b
          /\ mem' = [mem EXCEPT ![p] = [mem[p] EXCEPT ![cont[p]] = a]]
          /\ Persist([mem[p] EXCEPT ![cont[p]] = a])
    /\ Goto(p, "leased")
    /\ UNCHANGED <<cont, status, Instances, alone>>

\* allocate: SubnetExhausted, or persist_sync fails; the launch returns Err.
AllocateFails(p) ==
    /\ pc[p] = "opened"
    /\ mem[p][cont[p]] = NoAddr
    /\ FreeAddrs(mem[p]) = {} \/ Failures
    /\ End(p)
    /\ UNCHANGED <<dbExists, db, status, Instances, alone>>

\* The container is cloned, config.json says Active, the address is in use.
ContainerStarts(p) ==
    /\ pc[p] = "leased"
    /\ addr' = [addr EXCEPT ![p] = mem[p][cont[p]]]
    /\ named' = [named EXCEPT ![cont[p]] = p]
    /\ status' = [status EXCEPT ![cont[p]] = "Active"]
    /\ Goto(p, "supervising")
    /\ UNCHANGED <<dbExists, db, cont, mem, left, alone>>

\* A missing layout, a failed mount, cgroup or clone: an early return that
\* keeps the lease.
LaunchFails(p) ==
    /\ pc[p] = "leased"
    /\ End(p)
    /\ UNCHANGED <<dbExists, db, status, Instances, alone>>

\* The container's init dies and waitpid returns in its supervisor.
ContainerExits(p) ==
    /\ pc[p] = "supervising"
    /\ Goto(p, "exited")
    /\ addr' = [addr EXCEPT ![p] = NoAddr]
    /\ named' = [named EXCEPT ![cont[p]] = IF @ = p THEN NoProc ELSE @]
    /\ UNCHANGED <<dbExists, db, cont, mem, status, left, alone>>

\* A container without a supervisor ends.  Which of several config.json names is
\* left open.
OrphanExits(c) ==
    /\ \E a \in left[c] : left' = [left EXCEPT ![c] = @ \ {a}]
    /\ \/ left'[c] # {} /\ UNCHANGED named
       \/ named' = [named EXCEPT ![c] = IF @ = Orphan THEN NoProc ELSE @]
    /\ UNCHANGED <<dbExists, db, pc, cont, mem, status, addr, alone>>

\* With --rm a detached supervisor deletes the directory before it releases
\* the lease.
SupervisorDeletesDir(p) ==
    /\ pc[p] = "exited"
    /\ status[cont[p]] # "gone"
    /\ status' = [status EXCEPT ![cont[p]] = "gone"]
    /\ UNCHANGED <<dbExists, db, pc, cont, mem, Instances, alone>>

\* Mutant: the release clears the whole map.
SupervisorReleasesAll(p) ==
    /\ pc[p] = "exited"
    /\ Persist(EmptyLease)
    /\ Goto(p, "released")
    /\ UNCHANGED <<cont, mem, status, Instances, alone>>

\* ipam.release on the snapshot taken before the container was started.
SupervisorReleases(p) ==
    /\ pc[p] = "exited"
    /\ mem[p][cont[p]] # NoAddr
    /\ mem' = [mem EXCEPT ![p] = [mem[p] EXCEPT ![cont[p]] = NoAddr]]
    /\ Persist([mem[p] EXCEPT ![cont[p]] = NoAddr])
    /\ Goto(p, "released")
    /\ UNCHANGED <<cont, status, Instances, alone>>

\* release fails (ContainerNotFound, or the persist): a detached supervisor
\* logs it and goes on, a foreground one returns Err and leaves the config.
SupervisorReleaseFails(p) ==
    /\ pc[p] = "exited"
    /\ mem[p][cont[p]] = NoAddr \/ Failures
    /\ \/ Goto(p, "released") /\ UNCHANGED <<cont, mem>>
       \/ End(p)
    /\ UNCHANGED <<dbExists, db, status, Instances, alone>>

\* The final status goes to config.json, and the process ends.
SupervisorEnds(p) ==
    /\ pc[p] = "released"
    /\ status' = [status EXCEPT ![cont[p]] = IF @ = "gone" THEN @ ELSE "Exited"]
    /\ End(p)
    /\ UNCHANGED <<dbExists, db, Instances, alone>>

-----------------------------------------------------------------------------
(* The other clients *)

\* Mutant: refresh does not ask whether the container is alive.
RefreshMarksAny(p, c) ==
    /\ pc[p] = "idle"
    /\ alone' = (alone /\ Undisturbed(p))
    /\ status[c] = "Active"
    /\ status' = [status EXCEPT ![c] = "Exited"]
    /\ cont' = [cont EXCEPT ![p] = c]
    /\ Goto(p, "refreshing")
    /\ UNCHANGED <<dbExists, db, mem, Instances>>

\* refresh_container_states finds a dead container that its config calls
\* Active and writes Exited before it opens the address database.
RefreshMarks(p, c) ==
    /\ pc[p] = "idle"
    /\ alone' = (alone /\ Undisturbed(p))
    /\ status[c] = "Active"
    /\ named[c] = NoProc
    /\ status' = [status EXCEPT ![c] = "Exited"]
    /\ cont' = [cont EXCEPT ![p] = c]
    /\ Goto(p, "refreshing")
    /\ UNCHANGED <<dbExists, db, mem, Instances>>

\* ipam.json exists by then: a lease was allocated before the config said
\* Active, and nothing ever deletes the file.
RefreshOpens(p) ==
    /\ pc[p] = "refreshing"
    /\ ReadDb(p, "refreshOpened")
    /\ UNCHANGED <<dbExists, db, cont, status, Instances, alone>>

RefreshReleases(p) ==
    /\ pc[p] = "refreshOpened"
    /\ mem[p][cont[p]] # NoAddr
    /\ Persist([mem[p] EXCEPT ![cont[p]] = NoAddr])
    /\ End(p)
    /\ UNCHANGED <<status, Instances, alone>>

\* let _ = ipam.release(..): the error is dropped.
RefreshReleaseFails(p) ==
    /\ pc[p] = "refreshOpened"
    /\ mem[p][cont[p]] = NoAddr \/ Failures
    /\ End(p)
    /\ UNCHANGED <<dbExists, db, status, Instances, alone>>

\* crabtainer rm deletes the directory of a container that is not Active.
\* The address database is not touched.
RemoveContainer(c) ==
    /\ status[c] = "Exited"
    /\ status' = [status EXCEPT ![c] = "gone"]
    /\ UNCHANGED <<dbExists, db, pc, cont, mem, Instances, alone>>

\* An engine process is killed; a container it supervised lives on.
Crash(p) ==
    /\ Failures
    /\ pc[p] # "idle"
    /\ \/ pc[p] # "supervising" /\ UNCHANGED Instances
       \/ /\ pc[p] = "supervising"
          /\ left' = [left EXCEPT ![cont[p]] = @ \cup {addr[p]}]
          /\ named' = [named EXCEPT ![cont[p]] = IF @ = p THEN Orphan ELSE @]
          /\ addr' = [addr EXCEPT ![p] = NoAddr]
    /\ End(p)
    /\ UNCHANGED <<dbExists, db, status, alone>>

Reboot ==
    /\ Failures
    /\ pc' = [p \in Procs |-> "idle"]
    /\ cont' = [p \in Procs |-> NoContainer]
    /\ mem' = [p \in Procs |-> EmptyLease]
    /\ named' = [c \in Containers |-> NoProc]
    /\ addr' = [p \in Procs |-> NoAddr]
    /\ left' = [c \in Containers |-> {}]
    /\ UNCHANGED <<dbExists, db, status, alone>>

-----------------------------------------------------------------------------
Step(p) ==
    \/ \E c \in Containers : LaunchOpen(p, c) \/ RefreshMarks(p, c)
    \/ LaunchCreatesDb(p)
    \/ AllocateExisting(p)
    \/ AllocateFresh(p)
    \/ AllocateFails(p)
    \/ ContainerStarts(p)
    \/ LaunchFails(p)
    \/ ContainerExits(p)
    \/ SupervisorDeletesDir(p)
    \/ SupervisorReleases(p)
    \/ SupervisorReleaseFails(p)
    \/ SupervisorEnds(p)
    \/ RefreshOpens(p)
    \/ RefreshReleases(p)
    \/ RefreshReleaseFails(p)
    \/ Crash(p)

Next == \/ \E p \in Procs : Step(p)
        \/ \E c \in Containers : OrphanExits(c) \/ RemoveContainer(c)
        \/ Reboot

Spec == Init /\ [][Next]_vars

-----------------------------------------------------------------------------
(* Properties that hold however the processes interleave *)

(* One state database never records an address twice: neither ipam.json nor
   a snapshot on its way to becoming ipam.json.  allocate() looks at the
   snapshot it inserts into, so a stale snapshot loses and resurrects leases
   but never doubles one (network.rs, allocate and release).               *)
LeasesUnique == Injective(db) /\ \A p \in Procs : Injective(mem[p])

(* A supervisor's own snapshot keeps the lease it will release, whatever the
   other processes do to ipam.json meanwhile, and the running container uses
   that address: release() of a supervisor cannot fail with
   ContainerNotFound, on which run_container would return before it cleans
   up (container.rs, 1018-1021).                                           *)
SupervisorKnowsLease ==
    \A p \in Procs : pc[p] \in {"leased", "supervising", "exited"} =>
        /\ mem[p][cont[p]] # NoAddr
        /\ pc[p] = "supervising" => addr[p] = mem[p][cont[p]]

(* Everybody who knows an address for a container that is launched once
   knows the same one: the database, every snapshot and the container's own
   interface.  A write of a stale snapshot, of whatever other container,
   brings back or loses a lease, it never moves a container to another
   address (network.rs, allocate and release).                             *)
AddressStable ==
    \A c \in Containers \ Relaunched :
        \A a, b \in Pool :
            LET Known(x) == x = db[c] \/ Lives(c, x) \/ \E p \in Procs : x = mem[p][c]
            IN  Known(a) /\ Known(b) => a = b

-----------------------------------------------------------------------------
(* Properties about engine processes that do not overlap *)

(* A running container's address is in the database under its id, as long
   as no two engine processes, supervisors included, have been at work at
   once, and no container was launched while it ran: kills, reboots,
   failures and relaunches alone do not lose a lease that is in use
   (container.rs 119-155, network.rs 215).                                 *)
LiveIsLeased == alone => \A c \in Containers, a \in Pool : Lives(c, a) => db[c] = a

(* "leases are tracked in ipam.json so addresses aren't double-assigned":
   no two running containers use one address (docs/src/networking.md).     *)
NoSharedAddress ==
    \A c, d \in Containers, a \in Pool : Lives(c, a) /\ Lives(d, a) => c = d

(* As long as no two engine processes have been at work at once, and no
   container was launched while it ran, ipam.json behaves as LeasePool says:
   every write grants a free address to a container that has none, or takes
   one back.                                                               *)
Abstract == INSTANCE LeasePool WITH lease <- db
PoolSpec == Abstract!Init /\ [][alone => Abstract!Next]_db
=============================================================================
