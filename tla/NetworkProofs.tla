---------------------------- MODULE NetworkProofs ----------------------------
(***************************************************************************)
(* Theorems about the addresses of containers (Ipam), for every number of  *)
(* containers, processes and host addresses, and about the ports of the    *)
(* host that lead to them (PortForwarding), for whatever they publish.     *)
(*                                                                         *)
(* The part about ports rests on PortsInv: every rule that leads a port to *)
(* an address is an orphan or has a supervisor that owns it, two share an  *)
(* address only when both are crossed, and a container that is not crossed *)
(* keeps its rules.                                                        *)
(***************************************************************************)
EXTENDS Ipam, PortForwarding, WellFoundedInduction, TLAPS

-----------------------------------------------------------------------------
(* Lemmas about lease maps *)

(* The empty map is a lease map, and it leases nothing twice.              *)
LEMMA EmptyLeaseFacts == EmptyLease \in LeaseMap /\ Injective(EmptyLease)
  BY DEF EmptyLease, LeaseMap, Injective

(* Giving a container a free address, or taking its address away, yields a
   lease map again.                                                        *)
LEMMA UpdateType ==
  ASSUME NEW m \in LeaseMap, NEW c \in Containers, NEW a \in Pool \cup {NoAddr}
  PROVE  [m EXCEPT ![c] = a] \in LeaseMap
  BY DEF LeaseMap

(* allocate() on a map without double leases makes none.                   *)
LEMMA GrantInjective ==
  ASSUME NEW m \in LeaseMap, Injective(m), NEW c \in Containers,
         NEW a \in FreeAddrs(m)
  PROVE  Injective([m EXCEPT ![c] = a])
  BY DEF LeaseMap, Injective, FreeAddrs

(* release() on a map without double leases makes none.                    *)
LEMMA ReturnInjective ==
  ASSUME NEW m \in LeaseMap, Injective(m), NEW c \in Containers
  PROVE  Injective([m EXCEPT ![c] = NoAddr])
  BY DEF LeaseMap, Injective

-----------------------------------------------------------------------------
(* Every reachable state is well typed. *)
THEOREM TypeCorrect == Spec => []TypeOK
<1>1. Init => TypeOK
  <2> SUFFICES ASSUME Init PROVE TypeOK
    OBVIOUS
  <2>1. db \in LeaseMap /\ mem \in [Procs -> LeaseMap]
    BY EmptyLeaseFacts DEF Init
  <2>2. /\ pc \in [Procs -> PC] /\ status \in [Containers -> Status]
        /\ \A p \in Procs : pc[p] = "idle"
    BY DEF Init, PC, Status
  <2>. QED
    BY <2>1, <2>2 DEF Init, TypeOK
<1>2. TypeOK /\ [Next]_vars => TypeOK'
  <2> SUFFICES ASSUME TypeOK, [Next]_vars PROVE TypeOK'
    OBVIOUS
  <2> USE DEF TypeOK
  <2>0. EmptyLease \in LeaseMap
    BY EmptyLeaseFacts
  <2>1. ASSUME NEW p \in Procs, NEW c \in Containers, LaunchOpen(p, c)
        PROVE TypeOK'
    <3>1. \/ mem' = [mem EXCEPT ![p] = db] /\ pc' = [pc EXCEPT ![p] = "opened"]
          \/ mem' = [mem EXCEPT ![p] = EmptyLease] /\ pc' = [pc EXCEPT ![p] = "creating"]
      BY <2>1 DEF LaunchOpen, ReadDb, FindNoDb, Goto
    <3>2. mem' \in [Procs -> LeaseMap] /\ pc' \in [Procs -> PC]
      BY <2>0, <3>1 DEF PC
    <3>3. status' \in [Containers -> Status]
      BY <2>1 DEF LaunchOpen, Status
    <3>4. /\ cont' \in [Procs -> Containers \cup {NoContainer}]
          /\ \A q \in Procs : pc'[q] # "idle" => cont'[q] \in Containers
      BY <2>1, <3>1 DEF LaunchOpen
    <3>5. UNCHANGED <<dbExists, db, named, addr, left>> /\ alone' \in BOOLEAN
      BY <2>1 DEF LaunchOpen, Instances
    <3>. QED
      BY <3>2, <3>3, <3>4, <3>5
  <2>2. ASSUME NEW p \in Procs, NEW c \in Containers, RefreshMarks(p, c)
        PROVE TypeOK'
    BY <2>2 DEF RefreshMarks, Goto, PC, Status, Instances
  <2>3. ASSUME NEW p \in Procs, LaunchCreatesDb(p) PROVE TypeOK'
    BY <2>0, <2>3 DEF LaunchCreatesDb, Persist, Goto, PC, Instances
  <2>4. ASSUME NEW p \in Procs, AllocateExisting(p) PROVE TypeOK'
    BY <2>4 DEF AllocateExisting, Goto, PC, Instances
  <2>5. ASSUME NEW p \in Procs, AllocateFresh(p) PROVE TypeOK'
    <3>1. mem[p] \in LeaseMap /\ cont[p] \in Containers
      BY <2>5 DEF AllocateFresh
    <3>2. PICK a \in Pool : /\ mem' = [mem EXCEPT ![p] = [mem[p] EXCEPT ![cont[p]] = a]]
                            /\ Persist([mem[p] EXCEPT ![cont[p]] = a])
      BY <2>5 DEF AllocateFresh, FreeAddrs
    <3>3. [mem[p] EXCEPT ![cont[p]] = a] \in LeaseMap
      BY <3>1, UpdateType
    <3>. QED
      BY <2>5, <3>2, <3>3 DEF AllocateFresh, Persist, Goto, PC, Instances
  <2>6. ASSUME NEW p \in Procs, AllocateFails(p) PROVE TypeOK'
    BY <2>0, <2>6 DEF AllocateFails, End, PC, Instances
  <2>7. ASSUME NEW p \in Procs, ContainerStarts(p) PROVE TypeOK'
    <3>1. cont[p] \in Containers /\ mem[p][cont[p]] \in Pool \cup {NoAddr}
      BY <2>7 DEF ContainerStarts, LeaseMap
    <3>. QED
      BY <2>7, <3>1 DEF ContainerStarts, Goto, PC, Status
  <2>8. ASSUME NEW p \in Procs, LaunchFails(p) PROVE TypeOK'
    BY <2>0, <2>8 DEF LaunchFails, End, PC, Instances
  <2>9. ASSUME NEW p \in Procs, SupervisorDeletesDir(p) PROVE TypeOK'
    BY <2>9 DEF SupervisorDeletesDir, Status, Instances
  <2>10. ASSUME NEW p \in Procs, SupervisorReleases(p) PROVE TypeOK'
    BY <2>10, UpdateType DEF SupervisorReleases, Persist, Goto, PC, Instances
  <2>11. ASSUME NEW p \in Procs, SupervisorReleaseFails(p) PROVE TypeOK'
    BY <2>0, <2>11 DEF SupervisorReleaseFails, Goto, End, PC, Instances
  <2>12. ASSUME NEW p \in Procs, SupervisorEnds(p) PROVE TypeOK'
    BY <2>0, <2>12 DEF SupervisorEnds, End, PC, Status, Instances
  <2>13. ASSUME NEW p \in Procs, RefreshOpens(p) PROVE TypeOK'
    BY <2>13 DEF RefreshOpens, ReadDb, Goto, PC, Instances
  <2>14. ASSUME NEW p \in Procs, RefreshReleases(p) PROVE TypeOK'
    BY <2>0, <2>14, UpdateType DEF RefreshReleases, Persist, End, PC, Instances
  <2>15. ASSUME NEW p \in Procs, RefreshReleaseFails(p) PROVE TypeOK'
    BY <2>0, <2>15 DEF RefreshReleaseFails, End, PC, Instances
  <2>16. ASSUME NEW p \in Procs, Crash(p) PROVE TypeOK'
    <3>1. CASE UNCHANGED Instances
      BY <2>0, <2>16, <3>1 DEF Crash, End, PC, Instances
    <3>2. CASE /\ pc[p] = "supervising"
               /\ left' = [left EXCEPT ![cont[p]] = @ \cup {addr[p]}]
               /\ named' = [named EXCEPT ![cont[p]] = IF @ = p THEN Orphan ELSE @]
               /\ addr' = [addr EXCEPT ![p] = NoAddr]
      <4>1. cont[p] \in Containers /\ addr[p] \in Pool \cup {NoAddr}
        BY <2>16, <3>2
      <4>2. /\ left' \in [Containers -> SUBSET (Pool \cup {NoAddr})]
            /\ named' \in [Containers -> Procs \cup {NoProc, Orphan}]
        BY <3>2, <4>1
      <4>. QED
        BY <2>0, <2>16, <3>2, <4>2 DEF Crash, End, PC
    <3>. QED
      BY <2>16, <3>1, <3>2 DEF Crash
  <2>17. ASSUME NEW p \in Procs, ContainerExits(p) PROVE TypeOK'
    BY <2>17 DEF ContainerExits, Goto, PC
  <2>21. ASSUME NEW c \in Containers, OrphanExits(c) PROVE TypeOK'
    <3>1. /\ left' \in [Containers -> SUBSET (Pool \cup {NoAddr})]
          /\ named' \in [Containers -> Procs \cup {NoProc, Orphan}]
      BY <2>21 DEF OrphanExits
    <3>. QED
      BY <2>21, <3>1 DEF OrphanExits
  <2>18. ASSUME NEW c \in Containers, RemoveContainer(c) PROVE TypeOK'
    BY <2>18 DEF RemoveContainer, Status, Instances
  <2>19. CASE Reboot
    BY <2>0, <2>19 DEF Reboot, PC
  <2>20. CASE UNCHANGED vars
    BY <2>20 DEF vars
  <2>. QED
    BY <2>1, <2>2, <2>3, <2>4, <2>5, <2>6, <2>7, <2>8, <2>9, <2>10, <2>11,
       <2>12, <2>13, <2>14, <2>15, <2>16, <2>17, <2>18, <2>19, <2>20, <2>21
       DEF Next, Step
<1>. QED
  BY <1>1, <1>2, PTL DEF Spec

-----------------------------------------------------------------------------
(* No state database, on disk or in a process, leases an address twice.
   LeasesUnique is inductive on well-typed states: a process only ever
   changes its own snapshot, and writes it back as it is.                  *)
THEOREM UniqueLeases == Spec => []LeasesUnique
<1>1. Init => LeasesUnique
  BY EmptyLeaseFacts DEF Init, LeasesUnique
<1>2. TypeOK /\ LeasesUnique /\ [Next]_vars => LeasesUnique'
  <2> SUFFICES ASSUME TypeOK, LeasesUnique, [Next]_vars PROVE LeasesUnique'
    OBVIOUS
  <2>0. Injective(EmptyLease)
    BY EmptyLeaseFacts
  <2>a. ASSUME NEW p \in Procs, End(p), UNCHANGED db PROVE LeasesUnique'
    BY <2>0, <2>a DEF TypeOK, LeasesUnique, End
  <2>b. ASSUME NEW p \in Procs, NEW m, Injective(m),
               mem' = [mem EXCEPT ![p] = m] \/ UNCHANGED mem,
               db' = m \/ UNCHANGED db
        PROVE LeasesUnique'
    BY <2>b DEF TypeOK, LeasesUnique
  <2>1. ASSUME NEW p \in Procs, NEW c \in Containers, LaunchOpen(p, c)
        PROVE LeasesUnique'
    BY <2>0, <2>1, <2>b DEF LaunchOpen, ReadDb, FindNoDb, LeasesUnique
  <2>2. ASSUME NEW p \in Procs, NEW c \in Containers, RefreshMarks(p, c)
        PROVE LeasesUnique'
    BY <2>2 DEF RefreshMarks, LeasesUnique
  <2>3. ASSUME NEW p \in Procs, LaunchCreatesDb(p) PROVE LeasesUnique'
    BY <2>0, <2>3 DEF LaunchCreatesDb, Persist, LeasesUnique
  <2>4. ASSUME NEW p \in Procs, AllocateExisting(p) PROVE LeasesUnique'
    BY <2>4 DEF AllocateExisting, LeasesUnique
  <2>5. ASSUME NEW p \in Procs, AllocateFresh(p) PROVE LeasesUnique'
    <3>1. /\ mem[p] \in LeaseMap
          /\ cont[p] \in Containers
          /\ Injective(mem[p])
      BY <2>5 DEF AllocateFresh, TypeOK, LeasesUnique
    <3>2. PICK a \in FreeAddrs(mem[p]) :
             /\ mem' = [mem EXCEPT ![p] = [mem[p] EXCEPT ![cont[p]] = a]]
             /\ Persist([mem[p] EXCEPT ![cont[p]] = a])
      BY <2>5 DEF AllocateFresh
    <3>3. Injective([mem[p] EXCEPT ![cont[p]] = a])
      BY <3>1, GrantInjective
    <3>. QED
      BY <3>2, <3>3, <2>b DEF Persist
  <2>6. ASSUME NEW p \in Procs, AllocateFails(p) PROVE LeasesUnique'
    BY <2>6, <2>a DEF AllocateFails
  <2>7. ASSUME NEW p \in Procs, ContainerStarts(p) PROVE LeasesUnique'
    BY <2>7 DEF ContainerStarts, LeasesUnique
  <2>8. ASSUME NEW p \in Procs, LaunchFails(p) PROVE LeasesUnique'
    BY <2>8, <2>a DEF LaunchFails
  <2>9. ASSUME NEW p \in Procs, SupervisorDeletesDir(p) PROVE LeasesUnique'
    BY <2>9 DEF SupervisorDeletesDir, LeasesUnique
  <2>10. ASSUME NEW p \in Procs, SupervisorReleases(p) PROVE LeasesUnique'
    <3>1. /\ mem[p] \in LeaseMap
          /\ cont[p] \in Containers
          /\ Injective(mem[p])
      BY <2>10 DEF SupervisorReleases, TypeOK, LeasesUnique
    <3>2. Injective([mem[p] EXCEPT ![cont[p]] = NoAddr])
      BY <3>1, ReturnInjective
    <3>. QED
      BY <2>10, <3>2, <2>b DEF SupervisorReleases, Persist
  <2>11. ASSUME NEW p \in Procs, SupervisorReleaseFails(p) PROVE LeasesUnique'
    BY <2>11, <2>a DEF SupervisorReleaseFails, LeasesUnique
  <2>12. ASSUME NEW p \in Procs, SupervisorEnds(p) PROVE LeasesUnique'
    BY <2>12, <2>a DEF SupervisorEnds
  <2>13. ASSUME NEW p \in Procs, RefreshOpens(p) PROVE LeasesUnique'
    BY <2>13, <2>b DEF RefreshOpens, ReadDb, LeasesUnique
  <2>14. ASSUME NEW p \in Procs, RefreshReleases(p) PROVE LeasesUnique'
    <3>1. /\ mem[p] \in LeaseMap
          /\ cont[p] \in Containers
          /\ Injective(mem[p])
      BY <2>14 DEF RefreshReleases, TypeOK, LeasesUnique
    <3>2. Injective(db')
      BY <2>14, <3>1, ReturnInjective DEF RefreshReleases, Persist
    <3>3. \A q \in Procs : Injective(mem'[q])
      BY <2>0, <2>14 DEF RefreshReleases, End, TypeOK, LeasesUnique
    <3>. QED
      BY <3>2, <3>3 DEF LeasesUnique
  <2>15. ASSUME NEW p \in Procs, RefreshReleaseFails(p) PROVE LeasesUnique'
    BY <2>15, <2>a DEF RefreshReleaseFails
  <2>16. ASSUME NEW p \in Procs, Crash(p) PROVE LeasesUnique'
    BY <2>16, <2>a DEF Crash
  <2>17. ASSUME NEW p \in Procs, ContainerExits(p) PROVE LeasesUnique'
    BY <2>17 DEF ContainerExits, LeasesUnique
  <2>21. ASSUME NEW c \in Containers, OrphanExits(c) PROVE LeasesUnique'
    BY <2>21 DEF OrphanExits, LeasesUnique
  <2>18. ASSUME NEW c \in Containers, RemoveContainer(c) PROVE LeasesUnique'
    BY <2>18 DEF RemoveContainer, LeasesUnique
  <2>19. CASE Reboot
    BY <2>0, <2>19 DEF Reboot, LeasesUnique
  <2>20. CASE UNCHANGED vars
    BY <2>20 DEF vars, LeasesUnique
  <2>. QED
    BY <2>1, <2>2, <2>3, <2>4, <2>5, <2>6, <2>7, <2>8, <2>9, <2>10, <2>11,
       <2>12, <2>13, <2>14, <2>15, <2>16, <2>17, <2>18, <2>19, <2>20, <2>21
       DEF Next, Step
<1>. QED
  BY <1>1, <1>2, TypeCorrect, PTL DEF Spec
-----------------------------------------------------------------------------
(* What a supervisor knows.  SupervisorKnowsLease is inductive on well-typed
   states, for nobody else changes a snapshot, whatever is launched.       *)

(* A process that ends, or moves to a place where it neither launches nor
   supervises, disturbs nobody else.                                       *)
LEMMA LeavingKeepsLease ==
  ASSUME TypeOK, SupervisorKnowsLease, NEW p \in Procs,
         \A q \in Procs \ {p} : /\ pc'[q] = pc[q] /\ cont'[q] = cont[q]
                                /\ mem'[q] = mem[q] /\ addr'[q] = addr[q],
         pc'[p] \notin {"leased", "supervising", "exited"}
  PROVE  SupervisorKnowsLease'
  BY DEF TypeOK, SupervisorKnowsLease

(* Release() of a supervisor always finds the lease in its snapshot, and
   the container it supervises uses that address.                          *)
THEOREM SupervisorsKnowTheirLease == Spec => []SupervisorKnowsLease
<1>1. Init => SupervisorKnowsLease
  BY DEF Init, SupervisorKnowsLease
<1>2. TypeOK /\ SupervisorKnowsLease /\ [Next]_vars => SupervisorKnowsLease'
  <2> SUFFICES ASSUME TypeOK, SupervisorKnowsLease, [Next]_vars PROVE SupervisorKnowsLease'
    OBVIOUS
  <2> USE DEF TypeOK, Instances
  <2>1. ASSUME NEW p \in Procs, NEW c \in Containers, LaunchOpen(p, c)
        PROVE SupervisorKnowsLease'
    BY <2>1, LeavingKeepsLease DEF LaunchOpen, ReadDb, FindNoDb, Goto
  <2>2. ASSUME NEW p \in Procs, NEW c \in Containers, RefreshMarks(p, c)
        PROVE SupervisorKnowsLease'
    BY <2>2, LeavingKeepsLease DEF RefreshMarks, Goto
  <2>3. ASSUME NEW p \in Procs, LaunchCreatesDb(p) PROVE SupervisorKnowsLease'
    BY <2>3, LeavingKeepsLease DEF LaunchCreatesDb, Goto
  <2>4. ASSUME NEW p \in Procs, AllocateExisting(p) PROVE SupervisorKnowsLease'
    BY <2>4 DEF AllocateExisting, Goto, SupervisorKnowsLease
  <2>5. ASSUME NEW p \in Procs, AllocateFresh(p) PROVE SupervisorKnowsLease'
    <3>1. PICK a \in Pool : mem' = [mem EXCEPT ![p] = [mem[p] EXCEPT ![cont[p]] = a]]
      BY <2>5 DEF AllocateFresh, FreeAddrs
    <3>2. mem'[p][cont'[p]] # NoAddr
      BY <2>5, <3>1 DEF AllocateFresh, LeaseMap, Pool, NoAddr
    <3>. QED
      BY <2>5, <3>1, <3>2 DEF AllocateFresh, Goto, SupervisorKnowsLease
  <2>6. ASSUME NEW p \in Procs, AllocateFails(p) PROVE SupervisorKnowsLease'
    BY <2>6, LeavingKeepsLease DEF AllocateFails, End
  <2>7. ASSUME NEW p \in Procs, ContainerStarts(p) PROVE SupervisorKnowsLease'
    BY <2>7 DEF ContainerStarts, Goto, SupervisorKnowsLease
  <2>8. ASSUME NEW p \in Procs, LaunchFails(p) PROVE SupervisorKnowsLease'
    BY <2>8, LeavingKeepsLease DEF LaunchFails, End
  <2>9. ASSUME NEW p \in Procs, SupervisorDeletesDir(p) PROVE SupervisorKnowsLease'
    BY <2>9 DEF SupervisorDeletesDir, SupervisorKnowsLease
  <2>10. ASSUME NEW p \in Procs, SupervisorReleases(p) PROVE SupervisorKnowsLease'
    BY <2>10, LeavingKeepsLease DEF SupervisorReleases, Goto
  <2>11. ASSUME NEW p \in Procs, SupervisorReleaseFails(p) PROVE SupervisorKnowsLease'
    BY <2>11, LeavingKeepsLease DEF SupervisorReleaseFails, Goto, End
  <2>12. ASSUME NEW p \in Procs, SupervisorEnds(p) PROVE SupervisorKnowsLease'
    BY <2>12, LeavingKeepsLease DEF SupervisorEnds, End
  <2>13. ASSUME NEW p \in Procs, RefreshOpens(p) PROVE SupervisorKnowsLease'
    BY <2>13, LeavingKeepsLease DEF RefreshOpens, ReadDb, Goto
  <2>14. ASSUME NEW p \in Procs, RefreshReleases(p) PROVE SupervisorKnowsLease'
    BY <2>14, LeavingKeepsLease DEF RefreshReleases, End
  <2>15. ASSUME NEW p \in Procs, RefreshReleaseFails(p) PROVE SupervisorKnowsLease'
    BY <2>15, LeavingKeepsLease DEF RefreshReleaseFails, End
  <2>16. ASSUME NEW p \in Procs, Crash(p) PROVE SupervisorKnowsLease'
    BY <2>16, LeavingKeepsLease DEF Crash, End
  <2>17. ASSUME NEW p \in Procs, ContainerExits(p) PROVE SupervisorKnowsLease'
    BY <2>17 DEF ContainerExits, Goto, SupervisorKnowsLease
  <2>18. ASSUME NEW c \in Containers, RemoveContainer(c) PROVE SupervisorKnowsLease'
    BY <2>18 DEF RemoveContainer, SupervisorKnowsLease
  <2>19. CASE Reboot
    BY <2>19 DEF Reboot, SupervisorKnowsLease
  <2>20. CASE UNCHANGED vars
    BY <2>20 DEF vars, SupervisorKnowsLease
  <2>21. ASSUME NEW c \in Containers, OrphanExits(c) PROVE SupervisorKnowsLease'
    BY <2>21 DEF OrphanExits, SupervisorKnowsLease
  <2>. QED
    BY <2>1, <2>2, <2>3, <2>4, <2>5, <2>6, <2>7, <2>8, <2>9, <2>10, <2>11,
       <2>12, <2>13, <2>14, <2>15, <2>16, <2>17, <2>18, <2>19, <2>20, <2>21
       DEF Next, Step
<1>. QED
  BY <1>1, <1>2, TypeCorrect, PTL DEF Spec

-----------------------------------------------------------------------------
(* Which instances run                                                      *)

\* The addresses of the running instances of each container.
Running == [c \in Containers |-> {a \in Pool : Lives(c, a)}]

\* No instance runs now that did not run before.
NoneStarts == \A c \in Containers : Running'[c] \subseteq Running[c]

(* A step that starts no container, and takes the address of none that runs
   to another, leaves the instances that run, or fewer.                    *)
LEMMA InstancesStay ==
  ASSUME TypeOK,
         \A c \in Containers : left'[c] \subseteq left[c],
         \A p \in Procs : pc'[p] = "supervising" =>
             pc[p] = "supervising" /\ cont'[p] = cont[p] /\ addr'[p] = addr[p]
  PROVE  NoneStarts
  BY DEF NoneStarts, Running, Lives

(* A supervisor that is killed leaves its container running: nothing starts. *)
LEMMA CrashStartsNone ==
  ASSUME TypeOK, NEW p \in Procs, Crash(p)
  PROVE  NoneStarts
<1>1. \A q \in Procs : pc'[q] = "supervising" =>
         q # p /\ pc[q] = "supervising" /\ cont'[q] = cont[q]
  BY DEF Crash, End, TypeOK
<1>2. CASE UNCHANGED Instances
  BY <1>1, <1>2, InstancesStay DEF Instances
<1>3. CASE /\ pc[p] = "supervising"
           /\ left' = [left EXCEPT ![cont[p]] = @ \cup {addr[p]}]
           /\ addr' = [addr EXCEPT ![p] = NoAddr]
  <2>1. \A q \in Procs \ {p} : addr'[q] = addr[q]
    BY <1>3 DEF TypeOK
  <2>2. \A c \in Containers : \A a \in left'[c] : Lives(c, a)
    BY <1>3 DEF TypeOK, Lives
  <2>. QED
    BY <1>1, <2>1, <2>2 DEF NoneStarts, Running, Lives
<1>. QED
  BY <1>2, <1>3 DEF Crash

-----------------------------------------------------------------------------
(* One address per id.  An id that is launched once is unknown to everybody
   until the one allocate() made for it, and each later write only copies or
   drops what that call chose.                                             *)
Once == Containers \ Relaunched

Unknown(c) == /\ db[c] = NoAddr
              /\ Running[c] = {}
              /\ \A p \in Procs : mem[p][c] = NoAddr

\* AddressStable, pair by pair.
Agree == \A c \in Once :
            /\ \A a, b \in Running[c] : a = b
            /\ \A a \in Running[c] : db[c] \in {a, NoAddr}
            /\ \A p \in Procs : mem[p][c] # NoAddr =>
                  /\ db[c] # NoAddr => db[c] = mem[p][c]
                  /\ \A a \in Running[c] : a = mem[p][c]
                  /\ \A q \in Procs : mem[q][c] # NoAddr => mem[p][c] = mem[q][c]

StableInv ==
    /\ Agree
    /\ \A c \in Once : status[c] = "new" => Unknown(c)
    /\ \A p \in Procs : pc[p] \in Launching => status[cont[p]] # "new"
    /\ \A p \in Procs : pc[p] \in {"creating", "opened"} /\ cont[p] \in Once
                           => Unknown(cont[p])
    /\ \A p, q \in Procs : p # q /\ pc[p] \in Launching /\ pc[q] \in Launching
                              /\ cont[p] \in Once => cont[p] # cont[q]

(* A step that only forgets addresses, and moves no process into a launch,
   keeps the invariant.                                                    *)
LEMMA ForgettingKeepsStableInv ==
  ASSUME TypeOK, StableInv, TypeOK', NoneStarts,
         \A c \in Containers : /\ db'[c] \in {db[c], NoAddr}
                               /\ \A p \in Procs : mem'[p][c] \in {mem[p][c], NoAddr}
                               /\ status'[c] = "new" => status[c] = "new",
         \A p \in Procs : pc'[p] \in Launching => /\ cont'[p] = cont[p]
                                                 /\ pc[p] \in Launching
                                                 /\ pc'[p] = pc[p]
  PROVE  StableInv'
<1>1. Agree'
  BY DEF StableInv, Agree, Once, NoneStarts
<1>2. \A c \in Containers : Unknown(c) => Unknown(c)'
  BY DEF Unknown, NoneStarts
<1>3. \A c \in Once : status'[c] = "new" => Unknown(c)'
  BY <1>2 DEF StableInv, Once
<1>4. \A p \in Procs : pc'[p] \in Launching => cont[p] \in Containers
  BY DEF TypeOK, Launching
<1>5. \A p \in Procs : pc'[p] \in Launching => status'[cont'[p]] # "new"
  BY <1>4 DEF StableInv
<1>6. \A p \in Procs : pc'[p] \in {"creating", "opened"} /\ cont[p] \in Once
                           => Unknown(cont[p])'
  <2> SUFFICES ASSUME NEW p \in Procs, pc'[p] \in {"creating", "opened"},
                      cont[p] \in Once
               PROVE  Unknown(cont[p])'
    OBVIOUS
  <2>1. cont'[p] = cont[p] /\ cont[p] \in Containers /\ pc[p] = pc'[p]
    BY <1>4 DEF Launching
  <2>2. Unknown(cont[p])
    BY <2>1 DEF StableInv
  <2>. QED
    BY <1>2, <2>1, <2>2 DEF Unknown
<1>7. \A p, q \in Procs : p # q /\ pc'[p] \in Launching /\ pc'[q] \in Launching
                            /\ cont'[p] \in Once => cont'[p] # cont'[q]
  BY DEF StableInv
<1>. QED
  BY <1>1, <1>3, <1>5, <1>6, <1>7 DEF StableInv, Launching

(* No write of a stale snapshot, crash or reboot moves a container that is
   launched once to another address, whatever other ids are launched again.  *)
THEOREM AddressesAreStable == Spec => []AddressStable
<1>1. Init => StableInv
  <2> SUFFICES ASSUME Init PROVE StableInv
    OBVIOUS
  <2>1. \A c \in Containers : Running[c] = {}
    BY DEF Init, Running, Lives
  <2>. QED
    BY <2>1 DEF Init, StableInv, Agree, Unknown, Launching, EmptyLease, Once
<1>2. TypeOK /\ TypeOK' /\ StableInv /\ [Next]_vars => StableInv'
  <2> SUFFICES ASSUME TypeOK, TypeOK', StableInv, [Next]_vars PROVE StableInv'
    OBVIOUS
  <2>r. ASSUME UNCHANGED <<addr, left>>, NEW p \in Procs,
               \A q \in Procs \ {p} : pc'[q] = pc[q] /\ cont'[q] = cont[q],
               pc'[p] # "supervising" \/ (pc'[p] = pc[p] /\ cont'[p] = cont[p])
        PROVE  NoneStarts
    BY <2>r, InstancesStay
  <2>e. ASSUME NEW p \in Procs, End(p), UNCHANGED db, NoneStarts,
               \A c \in Containers : status'[c] = "new" => status[c] = "new"
        PROVE  StableInv'
    BY <2>e, ForgettingKeepsStableInv DEF End, EmptyLease, TypeOK, Launching
  <2>f. ASSUME NEW p \in Procs, End(p), UNCHANGED <<db, Instances>>,
               \A c \in Containers : status'[c] = "new" => status[c] = "new"
        PROVE  StableInv'
    <3>1. NoneStarts
      BY <2>f, <2>r DEF End, Instances, TypeOK
    <3>. QED
      BY <2>e, <2>f, <3>1
  <2>1. ASSUME NEW p \in Procs, NEW c \in Containers, LaunchOpen(p, c)
        PROVE StableInv'
    <3>1. c \in Once => status[c] = "new" /\ Unknown(c)
      BY <2>1 DEF LaunchOpen, CanLaunch, StableInv, Once
    <3>2. UNCHANGED <<db, addr, left>> /\ cont' = [cont EXCEPT ![p] = c]
      BY <2>1 DEF LaunchOpen, Instances
    <3>3. /\ \A q \in Procs \ {p} : pc'[q] = pc[q] /\ mem'[q] = mem[q]
          /\ pc'[p] \in {"creating", "opened"}
          /\ mem'[p] = db \/ mem'[p] = EmptyLease
      BY <2>1 DEF LaunchOpen, ReadDb, FindNoDb, Goto, TypeOK
    <3>4. /\ status'[c] # "new"
          /\ \A d \in Containers \ {c} : status'[d] = status[d]
      BY <2>1 DEF LaunchOpen, TypeOK
    <3>8. NoneStarts
      BY <2>r, <3>2, <3>3 DEF TypeOK
    <3>9. \A d \in Containers : mem'[p][d] \in {db[d], NoAddr}
      BY <3>3 DEF EmptyLease
    <3>10. \A q \in Procs, d \in Containers : mem'[q][d] \in {mem[q][d], db[d], NoAddr}
      BY <3>3, <3>9
    <3>5. Agree'
      BY <3>2, <3>8, <3>10 DEF StableInv, Agree, Once, NoneStarts
    <3>6. \A d \in Containers : Unknown(d) => Unknown(d)'
      BY <3>2, <3>8, <3>10 DEF Unknown, NoneStarts
    <3>7. \A q \in Procs : pc[q] \in Launching /\ c \in Once => cont[q] # c
      BY <3>1 DEF StableInv
    <3>. QED
      BY <3>1, <3>2, <3>3, <3>4, <3>5, <3>6, <3>7 DEF StableInv, Launching, TypeOK, Once
  <2>2. ASSUME NEW p \in Procs, NEW c \in Containers, RefreshMarks(p, c)
        PROVE StableInv'
    <3>1. NoneStarts
      BY <2>2, <2>r DEF RefreshMarks, Goto, TypeOK, Instances
    <3>. QED
      BY <2>2, <3>1, ForgettingKeepsStableInv DEF RefreshMarks, Goto, TypeOK, Launching
  <2>3. ASSUME NEW p \in Procs, LaunchCreatesDb(p) PROVE StableInv'
    <3>1. /\ db' = EmptyLease
          /\ UNCHANGED <<cont, mem, status, addr, left>>
          /\ pc[p] = "creating" /\ pc' = [pc EXCEPT ![p] = "opened"]
      BY <2>3 DEF LaunchCreatesDb, Persist, Goto, Instances
    <3>2. NoneStarts /\ \A d \in Containers : db'[d] = NoAddr
      BY <2>r, <3>1 DEF EmptyLease, TypeOK
    <3>3. \A d \in Containers : Unknown(d) => Unknown(d)'
      BY <3>1, <3>2 DEF Unknown, NoneStarts
    <3>4. Agree'
      BY <3>1, <3>2 DEF StableInv, Agree, Once, NoneStarts
    <3>. QED
      BY <3>1, <3>3, <3>4 DEF StableInv, Launching, TypeOK, Once
  <2>4. ASSUME NEW p \in Procs, AllocateExisting(p) PROVE StableInv'
    <3>1. /\ pc[p] = "opened" /\ pc' = [pc EXCEPT ![p] = "leased"]
          /\ UNCHANGED <<db, cont, mem, status, addr, left>>
      BY <2>4 DEF AllocateExisting, Goto, Instances
    <3>3. NoneStarts
      BY <2>r, <3>1 DEF TypeOK
    <3>2. Agree' /\ \A d \in Containers : Unknown(d) => Unknown(d)'
      BY <3>1, <3>3 DEF StableInv, Agree, Unknown, Once, NoneStarts
    <3>. QED
      BY <3>1, <3>2 DEF StableInv, Launching, TypeOK, Once
  <2>5. ASSUME NEW p \in Procs, AllocateFresh(p) PROVE StableInv'
    <3> DEFINE c == cont[p]
    <3>1. /\ pc[p] = "opened" /\ c \in Containers /\ status[c] # "new"
          /\ c \in Once => Unknown(c)
      BY <2>5 DEF AllocateFresh, StableInv, Launching, TypeOK
    <3>2. PICK a \in Pool : /\ mem' = [mem EXCEPT ![p] = [mem[p] EXCEPT ![c] = a]]
                            /\ db' = [mem[p] EXCEPT ![c] = a]
      BY <2>5 DEF AllocateFresh, FreeAddrs, Persist
    <3>3. UNCHANGED <<cont, status, addr, left>> /\ pc' = [pc EXCEPT ![p] = "leased"]
      BY <2>5 DEF AllocateFresh, Goto, Instances
    <3>8. NoneStarts
      BY <2>r, <3>3 DEF TypeOK
    <3>4. /\ db'[c] = a /\ mem'[p][c] = a
          /\ c \in Once => /\ Running'[c] = {}
                           /\ \A q \in Procs \ {p} : mem'[q][c] = NoAddr
      BY <3>1, <3>2, <3>3, <3>8 DEF TypeOK, LeaseMap, Unknown, NoneStarts
    <3>5. \A d \in Containers \ {c} : /\ db'[d] = mem[p][d]
                                      /\ \A q \in Procs : mem'[q][d] = mem[q][d]
      BY <3>1, <3>2, <3>3 DEF TypeOK, LeaseMap
    <3>6. \A d \in Containers \ {c} : Unknown(d) => Unknown(d)'
      BY <3>5, <3>8 DEF Unknown, NoneStarts
    <3>7. Agree'
      BY <3>4, <3>5, <3>8 DEF StableInv, Agree, Once, NoneStarts
    <3>. QED
      BY <3>1, <3>3, <3>6, <3>7 DEF StableInv, Launching, TypeOK, Once
  <2>6. ASSUME NEW p \in Procs, AllocateFails(p) PROVE StableInv'
    BY <2>6, <2>f DEF AllocateFails
  <2>7. ASSUME NEW p \in Procs, ContainerStarts(p) PROVE StableInv'
    <3> DEFINE c == cont[p]
    <3>1. pc[p] = "leased" /\ c \in Containers /\ status[c] # "new"
      BY <2>7 DEF ContainerStarts, StableInv, Launching, TypeOK
    <3>2. /\ addr' = [addr EXCEPT ![p] = mem[p][c]]
          /\ status' = [status EXCEPT ![c] = "Active"]
          /\ pc' = [pc EXCEPT ![p] = "supervising"]
          /\ UNCHANGED <<db, cont, mem, left>>
      BY <2>7 DEF ContainerStarts, Goto
    <3>6. /\ \A d \in Containers \ {c} : Running'[d] \subseteq Running[d]
          /\ \A a \in Running'[c] : a \in Running[c] \/ (a = mem[p][c] /\ a # NoAddr)
      BY <3>1, <3>2 DEF Running, Lives, TypeOK, Pool, NoAddr
    <3>7. mem[p] \in LeaseMap /\ mem' = mem /\ db' = db
      BY <2>7 DEF ContainerStarts, TypeOK
    <3>8. c \in Once => \A a \in Running'[c] :
                          \/ a \in Running[c]
                          \/ a = mem[p][c] /\ mem[p][c] # NoAddr
      BY <3>6
    <3> HIDE DEF c
    <3>3. Agree'
      BY <3>1, <3>6, <3>7, <3>8 DEF StableInv, Agree, Once
    <3> USE DEF c
    <3>4. \A d \in Containers \ {c} : Unknown(d) => Unknown(d)'
      BY <3>1, <3>2, <3>6 DEF Unknown, TypeOK
    <3>5. \A q \in Procs \ {p} : pc[q] \in Launching /\ c \in Once => cont[q] # c
      BY <3>1 DEF StableInv, Launching
    <3>. QED
      BY <3>1, <3>2, <3>3, <3>4, <3>5 DEF StableInv, Launching, TypeOK, Once
  <2>8. ASSUME NEW p \in Procs, LaunchFails(p) PROVE StableInv'
    BY <2>8, <2>f DEF LaunchFails
  <2>9. ASSUME NEW p \in Procs, SupervisorDeletesDir(p) PROVE StableInv'
    <3>1. NoneStarts
      BY <2>9, InstancesStay DEF SupervisorDeletesDir, Instances
    <3>. QED
      BY <2>9, <3>1, ForgettingKeepsStableInv DEF SupervisorDeletesDir, TypeOK, Launching
  <2>10. ASSUME NEW p \in Procs, SupervisorReleases(p) PROVE StableInv'
    <3> DEFINE c == cont[p]
    <3>1. /\ c \in Containers /\ pc[p] = "exited"
          /\ mem' = [mem EXCEPT ![p] = [mem[p] EXCEPT ![c] = NoAddr]]
          /\ db' = [mem[p] EXCEPT ![c] = NoAddr]
          /\ pc' = [pc EXCEPT ![p] = "released"]
          /\ UNCHANGED <<cont, status, addr, left>>
      BY <2>10 DEF SupervisorReleases, Persist, Goto, TypeOK, Instances
    <3>5. NoneStarts
      BY <2>r, <3>1 DEF TypeOK
    <3>2. \A d \in Containers : /\ db'[d] \in {mem[p][d], NoAddr}
                               /\ \A q \in Procs : mem'[q][d] \in {mem[q][d], NoAddr}
      BY <3>1 DEF TypeOK, LeaseMap
    <3>3. Agree'
      BY <3>1, <3>2, <3>5 DEF StableInv, Agree, TypeOK, Once, NoneStarts
    <3>4. \A d \in Containers : Unknown(d) => Unknown(d)'
      BY <3>1, <3>2, <3>5 DEF Unknown, NoneStarts
    <3>. QED
      BY <3>1, <3>3, <3>4 DEF StableInv, Launching, TypeOK, Once
  <2>11. ASSUME NEW p \in Procs, SupervisorReleaseFails(p) PROVE StableInv'
    <3>1. CASE Goto(p, "released") /\ UNCHANGED <<cont, mem>>
      <4>1. NoneStarts
        BY <2>11, <3>1, <2>r DEF SupervisorReleaseFails, Goto, TypeOK, Instances
      <4>. QED
        BY <2>11, <3>1, <4>1, ForgettingKeepsStableInv
           DEF SupervisorReleaseFails, Goto, TypeOK, Launching
    <3>2. CASE End(p)
      BY <2>11, <3>2, <2>f DEF SupervisorReleaseFails
    <3>. QED
      BY <2>11, <3>1, <3>2 DEF SupervisorReleaseFails
  <2>12. ASSUME NEW p \in Procs, SupervisorEnds(p) PROVE StableInv'
    BY <2>12, <2>f DEF SupervisorEnds, TypeOK
  <2>13. ASSUME NEW p \in Procs, RefreshOpens(p) PROVE StableInv'
    <3>1. /\ mem' = [mem EXCEPT ![p] = db]
          /\ pc' = [pc EXCEPT ![p] = "refreshOpened"]
          /\ UNCHANGED <<db, cont, status, addr, left>>
      BY <2>13 DEF RefreshOpens, ReadDb, Goto, Instances
    <3>4. NoneStarts
      BY <2>r, <3>1 DEF TypeOK
    <3>2. Agree'
      BY <3>1, <3>4 DEF StableInv, Agree, TypeOK, Once, NoneStarts
    <3>3. \A d \in Containers : Unknown(d) => Unknown(d)'
      BY <3>1, <3>4 DEF Unknown, TypeOK, NoneStarts
    <3>. QED
      BY <3>1, <3>2, <3>3 DEF StableInv, Launching, TypeOK, Once
  <2>14. ASSUME NEW p \in Procs, RefreshReleases(p) PROVE StableInv'
    <3> DEFINE c == cont[p]
    <3>1. /\ c \in Containers /\ pc[p] = "refreshOpened"
          /\ mem' = [mem EXCEPT ![p] = EmptyLease]
          /\ db' = [mem[p] EXCEPT ![c] = NoAddr]
          /\ pc' = [pc EXCEPT ![p] = "idle"]
          /\ cont' = [cont EXCEPT ![p] = NoContainer]
          /\ UNCHANGED <<status, addr, left>>
      BY <2>14 DEF RefreshReleases, Persist, End, TypeOK, Instances
    <3>5. NoneStarts
      BY <2>r, <3>1 DEF TypeOK
    <3>2. \A d \in Containers : /\ db'[d] \in {mem[p][d], NoAddr}
                               /\ \A q \in Procs : mem'[q][d] \in {mem[q][d], NoAddr}
      BY <3>1 DEF TypeOK, LeaseMap, EmptyLease
    <3>3. Agree'
      BY <3>1, <3>2, <3>5 DEF StableInv, Agree, TypeOK, Once, NoneStarts
    <3>4. \A d \in Containers : Unknown(d) => Unknown(d)'
      BY <3>1, <3>2, <3>5 DEF Unknown, NoneStarts
    <3>. QED
      BY <3>1, <3>3, <3>4 DEF StableInv, Launching, TypeOK, Once
  <2>15. ASSUME NEW p \in Procs, RefreshReleaseFails(p) PROVE StableInv'
    BY <2>15, <2>f DEF RefreshReleaseFails
  <2>16. ASSUME NEW p \in Procs, Crash(p) PROVE StableInv'
    BY <2>16, <2>e, CrashStartsNone DEF Crash
  <2>17. ASSUME NEW p \in Procs, ContainerExits(p) PROVE StableInv'
    <3>1. NoneStarts
      BY <2>17, InstancesStay DEF ContainerExits, Goto, TypeOK
    <3>. QED
      BY <2>17, <3>1, ForgettingKeepsStableInv DEF ContainerExits, Goto, TypeOK, Launching
  <2>18. ASSUME NEW c \in Containers, RemoveContainer(c) PROVE StableInv'
    <3>1. NoneStarts
      BY <2>18, InstancesStay DEF RemoveContainer, Instances
    <3>. QED
      BY <2>18, <3>1, ForgettingKeepsStableInv DEF RemoveContainer, TypeOK, Launching
  <2>19. CASE Reboot
    <3>1. NoneStarts
      BY <2>19, InstancesStay DEF Reboot
    <3>. QED
      BY <2>19, <3>1, ForgettingKeepsStableInv DEF Reboot, EmptyLease, TypeOK, Launching
  <2>20. CASE UNCHANGED vars
    <3>1. NoneStarts
      BY <2>20, InstancesStay DEF vars
    <3>. QED
      BY <2>20, <3>1, ForgettingKeepsStableInv DEF vars
  <2>21. ASSUME NEW c \in Containers, OrphanExits(c) PROVE StableInv'
    <3>1. NoneStarts
      BY <2>21, InstancesStay DEF OrphanExits, TypeOK
    <3>. QED
      BY <2>21, <3>1, ForgettingKeepsStableInv DEF OrphanExits, TypeOK, Launching
  <2>. QED
    BY <2>1, <2>2, <2>3, <2>4, <2>5, <2>6, <2>7, <2>8, <2>9, <2>10, <2>11,
       <2>12, <2>13, <2>14, <2>15, <2>16, <2>17, <2>18, <2>19, <2>20, <2>21
       DEF Next, Step
<1>3. StableInv => AddressStable
  <2> DEFINE Known(c, x) == x = db[c] \/ Lives(c, x) \/ \E p \in Procs : x = mem[p][c]
  <2> SUFFICES ASSUME StableInv, NEW c \in Once, NEW a \in Pool, NEW b \in Pool,
                      Known(c, a), Known(c, b)
               PROVE  a = b
    BY DEF AddressStable, Once
  <2>1. /\ Lives(c, a) <=> a \in Running[c]
        /\ Lives(c, b) <=> b \in Running[c]
        /\ a # NoAddr /\ b # NoAddr
    BY DEF Running, Once, Pool, NoAddr
  <2>2. CASE \E p \in Procs : a = mem[p][c]
    <3>1. PICK p \in Procs : a = mem[p][c]
      BY <2>2
    <3>. QED
      BY <2>1, <3>1 DEF StableInv, Agree, Once
  <2>3. CASE a = db[c] \/ Lives(c, a)
    BY <2>1, <2>3 DEF StableInv, Agree, Once
  <2>. QED
    BY <2>2, <2>3
<1>. QED
  BY <1>1, <1>2, <1>3, TypeCorrect, PTL DEF Spec

-----------------------------------------------------------------------------
(* Engine processes that do not overlap, and no launch of what runs.  A
   process that has opened the database and not ended is then the only one
   that has seen or written it, so its snapshot is the database.           *)
OneAtWork == \A p, q \in Procs : pc[p] # "idle" /\ pc[q] # "idle" => p = q

\* The snapshot of the process at work is the database.
Fresh ==
    \A p \in Procs :
        /\ pc[p] = "creating" => ~dbExists /\ mem[p] = EmptyLease
        /\ pc[p] \notin {"idle", "creating", "refreshing"} => mem[p] = db

\* A container without a supervisor has one instance, at the address that the
\* database has for it, and config.json names that instance.
OrphansLeased ==
    \A c \in Containers : left[c] # {} =>
        /\ left[c] = {db[c]}
        /\ db[c] # NoAddr
        /\ named[c] = Orphan

\* What a process works for has no instance but the one it supervises.
OnlySupervised ==
    \A p \in Procs :
        /\ pc[p] # "idle" => left[cont[p]] = {}
        /\ pc[p] = "supervising" => named[cont[p]] = p

SerialInv == /\ ~dbExists => db = EmptyLease
             /\ OneAtWork
             /\ Fresh
             /\ OrphansLeased
             /\ OnlySupervised

(* A step of the only process that is at work has to be judged by what it
   leaves p itself, and by what it leaves of the orphans.                  *)
LEMMA AloneAtWork ==
  ASSUME TypeOK, SerialInv, NEW p \in Procs, pc[p] # "idle" \/ Undisturbed(p),
         \A q \in Procs \ {p} : pc'[q] = pc[q],
         dbExists' \/ (dbExists' = dbExists /\ db' = db),
         OrphansLeased',
         pc'[p] = "creating" => ~dbExists' /\ mem'[p] = EmptyLease,
         pc'[p] \notin {"idle", "creating", "refreshing"} => mem'[p] = db',
         pc'[p] # "idle" => left'[cont'[p]] = {},
         pc'[p] = "supervising" => named'[cont'[p]] = p
  PROVE  SerialInv'
<1>1. \A q \in Procs : q # p => pc'[q] = "idle"
  BY DEF SerialInv, OneAtWork, Undisturbed
<1>2. OneAtWork' /\ Fresh' /\ OnlySupervised'
  BY <1>1 DEF OneAtWork, Fresh, OnlySupervised
<1>. QED
  BY <1>2 DEF SerialInv

(* A step that changes the lease of a container without instances, if any,
   leaves the orphans where they are.                                      *)
LEMMA OrphansStay ==
  ASSUME TypeOK, OrphansLeased, left' = left,
         \A c \in Containers : left[c] # {} => db'[c] = db[c] /\ named'[c] = named[c]
  PROVE  OrphansLeased'
  BY DEF OrphansLeased

(* As long as engine processes have not overlapped, and nothing was launched
   that ran, ipam.json and the snapshot of the process at work stay the
   same, and it has the lease of everything that runs.                     *)
LEMMA SerialInvariant == Spec => [](alone => SerialInv)
<1>1. Init => SerialInv
  BY DEF Init, SerialInv, OneAtWork, Fresh, OrphansLeased, OnlySupervised
<1>2. TypeOK /\ SupervisorKnowsLease /\ (alone => SerialInv) /\ [Next]_vars
         => (alone' => SerialInv')
  <2> SUFFICES ASSUME TypeOK, SupervisorKnowsLease, alone => SerialInv, [Next]_vars, alone'
               PROVE  SerialInv'
    OBVIOUS
  <2>0. SerialInv
    BY DEF Next, Step, vars, LaunchOpen, RefreshMarks, LaunchCreatesDb,
           AllocateExisting, AllocateFresh, AllocateFails, ContainerStarts,
           LaunchFails, SupervisorDeletesDir, SupervisorReleases,
           SupervisorReleaseFails, SupervisorEnds, RefreshOpens,
           RefreshReleases, RefreshReleaseFails, Crash, ContainerExits, OrphanExits,
           RemoveContainer, Reboot
  <2> USE <2>0 DEF TypeOK, Instances
  <2>00. ASSUME left' = left, db' = db, named' = named
         PROVE  OrphansLeased'
    BY <2>00, OrphansStay DEF SerialInv
  <2>01. ASSUME NEW p \in Procs, pc[p] # "idle"
         PROVE  /\ left[cont[p]] = {} /\ cont[p] \in Containers
                /\ pc[p] = "creating" => ~dbExists /\ mem[p] = EmptyLease
                /\ pc[p] \notin {"creating", "refreshing"} => mem[p] = db
                /\ pc[p] = "supervising" => named[cont[p]] = p
    BY <2>01 DEF SerialInv, Fresh, OnlySupervised
  <2>1. ASSUME NEW p \in Procs, NEW c \in Containers, LaunchOpen(p, c)
        PROVE SerialInv'
    <3>1. Undisturbed(p) /\ pc[p] = "idle" /\ \A a \in Pool : a \notin left[c]
      BY <2>1 DEF LaunchOpen, Lives
    <3>2. left[c] = {}
      BY <3>1 DEF SerialInv, OrphansLeased, LeaseMap
    <3>3. \/ pc' = [pc EXCEPT ![p] = "opened"] /\ mem'[p] = db
          \/ pc' = [pc EXCEPT ![p] = "creating"] /\ mem'[p] = EmptyLease /\ ~dbExists
      BY <2>1 DEF LaunchOpen, ReadDb, FindNoDb, Goto
    <3>4. UNCHANGED <<dbExists, db, Instances>> /\ cont'[p] = c
      BY <2>1 DEF LaunchOpen
    <3>. QED
      BY <2>00, <3>1, <3>2, <3>3, <3>4, AloneAtWork
  <2>2. ASSUME NEW p \in Procs, NEW c \in Containers, RefreshMarks(p, c)
        PROVE SerialInv'
    <3>1. Undisturbed(p) /\ pc[p] = "idle" /\ left[c] = {}
      BY <2>2, IpamConstants DEF RefreshMarks, SerialInv, OrphansLeased
    <3>2. pc' = [pc EXCEPT ![p] = "refreshing"] /\ cont'[p] = c
      BY <2>2 DEF RefreshMarks, Goto
    <3>3. UNCHANGED <<dbExists, db, Instances>>
      BY <2>2 DEF RefreshMarks
    <3>. QED
      BY <2>00, <3>1, <3>2, <3>3, AloneAtWork
  <2>3. ASSUME NEW p \in Procs, LaunchCreatesDb(p) PROVE SerialInv'
    <3>1. pc[p] = "creating" /\ db = EmptyLease /\ mem[p] = EmptyLease
      BY <2>3, <2>01 DEF LaunchCreatesDb, SerialInv
    <3>2. db' = db /\ dbExists' /\ pc' = [pc EXCEPT ![p] = "opened"]
      BY <2>3, <3>1 DEF LaunchCreatesDb, Persist, Goto
    <3>3. UNCHANGED <<cont, mem, Instances>>
      BY <2>3 DEF LaunchCreatesDb
    <3>. QED
      BY <2>00, <2>01, <3>1, <3>2, <3>3, AloneAtWork
  <2>4. ASSUME NEW p \in Procs, AllocateExisting(p) PROVE SerialInv'
    <3>1. pc[p] = "opened" /\ pc' = [pc EXCEPT ![p] = "leased"]
      BY <2>4 DEF AllocateExisting, Goto
    <3>2. UNCHANGED <<dbExists, db, cont, mem, Instances>>
      BY <2>4 DEF AllocateExisting
    <3>. QED
      BY <2>00, <2>01, <3>1, <3>2, AloneAtWork
  <2>5. ASSUME NEW p \in Procs, AllocateFresh(p) PROVE SerialInv'
    <3>1. pc[p] = "opened" /\ pc' = [pc EXCEPT ![p] = "leased"]
      BY <2>5 DEF AllocateFresh, Goto
    <3>2. PICK a \in Pool :
             /\ mem' = [mem EXCEPT ![p] = [mem[p] EXCEPT ![cont[p]] = a]]
             /\ Persist([mem[p] EXCEPT ![cont[p]] = a])
      BY <2>5 DEF AllocateFresh, FreeAddrs
    <3>3. UNCHANGED <<cont, Instances>>
      BY <2>5 DEF AllocateFresh
    <3>4. mem'[p] = db' /\ dbExists'
      BY <3>2 DEF Persist
    <3>5. OrphansLeased'
      <4>1. \A c \in Containers : left[c] # {} => db'[c] = db[c]
        BY <2>01, <3>1, <3>2 DEF Persist, LeaseMap
      <4>. QED
        BY <4>1, <3>3, OrphansStay DEF SerialInv
    <3>. QED
      BY <2>01, <3>1, <3>3, <3>4, <3>5, AloneAtWork
  <2>6. ASSUME NEW p \in Procs, AllocateFails(p) PROVE SerialInv'
    <3>1. pc[p] = "opened" /\ pc' = [pc EXCEPT ![p] = "idle"]
      BY <2>6 DEF AllocateFails, End
    <3>2. UNCHANGED <<dbExists, db, Instances>>
      BY <2>6 DEF AllocateFails
    <3>. QED
      BY <2>00, <3>1, <3>2, AloneAtWork
  <2>7. ASSUME NEW p \in Procs, ContainerStarts(p) PROVE SerialInv'
    <3>1. pc[p] = "leased" /\ pc' = [pc EXCEPT ![p] = "supervising"]
      BY <2>7 DEF ContainerStarts, Goto
    <3>2. UNCHANGED <<dbExists, db, cont, mem, left>> /\ named' = [named EXCEPT ![cont[p]] = p]
      BY <2>7 DEF ContainerStarts
    <3>3. OrphansLeased'
      BY <2>01, <3>1, <3>2, OrphansStay DEF SerialInv
    <3>4. named'[cont'[p]] = p
      BY <2>01, <3>1, <3>2
    <3>. QED
      BY <2>01, <3>1, <3>2, <3>3, <3>4, AloneAtWork
  <2>8. ASSUME NEW p \in Procs, LaunchFails(p) PROVE SerialInv'
    <3>1. pc[p] = "leased" /\ pc' = [pc EXCEPT ![p] = "idle"]
      BY <2>8 DEF LaunchFails, End
    <3>2. UNCHANGED <<dbExists, db, Instances>>
      BY <2>8 DEF LaunchFails
    <3>. QED
      BY <2>00, <3>1, <3>2, AloneAtWork
  <2>9. ASSUME NEW p \in Procs, SupervisorDeletesDir(p) PROVE SerialInv'
    BY <2>9 DEF SupervisorDeletesDir, SerialInv, OneAtWork, Fresh, OrphansLeased,
                OnlySupervised
  <2>10. ASSUME NEW p \in Procs, SupervisorReleases(p) PROVE SerialInv'
    <3>1. pc[p] = "exited" /\ pc' = [pc EXCEPT ![p] = "released"]
      BY <2>10 DEF SupervisorReleases, Goto
    <3>2. /\ mem' = [mem EXCEPT ![p] = [mem[p] EXCEPT ![cont[p]] = NoAddr]]
          /\ Persist([mem[p] EXCEPT ![cont[p]] = NoAddr])
          /\ UNCHANGED <<cont, Instances>>
      BY <2>10 DEF SupervisorReleases
    <3>3. mem'[p] = db' /\ dbExists'
      BY <3>2 DEF Persist
    <3>4. OrphansLeased'
      <4>1. \A c \in Containers : left[c] # {} => db'[c] = db[c]
        BY <2>01, <3>1, <3>2 DEF Persist, LeaseMap
      <4>. QED
        BY <4>1, <3>2, OrphansStay DEF SerialInv
    <3>. QED
      BY <2>01, <3>1, <3>2, <3>3, <3>4, AloneAtWork
  <2>11. ASSUME NEW p \in Procs, SupervisorReleaseFails(p) PROVE SerialInv'
    <3>1. /\ pc[p] = "exited"
          /\ \/ pc' = [pc EXCEPT ![p] = "released"] /\ UNCHANGED <<cont, mem>>
             \/ pc' = [pc EXCEPT ![p] = "idle"]
      BY <2>11 DEF SupervisorReleaseFails, Goto, End
    <3>2. UNCHANGED <<dbExists, db, Instances>>
      BY <2>11 DEF SupervisorReleaseFails
    <3>. QED
      BY <2>00, <2>01, <3>1, <3>2, AloneAtWork
  <2>12. ASSUME NEW p \in Procs, SupervisorEnds(p) PROVE SerialInv'
    <3>1. pc[p] = "released" /\ pc' = [pc EXCEPT ![p] = "idle"]
      BY <2>12 DEF SupervisorEnds, End
    <3>2. UNCHANGED <<dbExists, db, Instances>>
      BY <2>12 DEF SupervisorEnds
    <3>. QED
      BY <2>00, <3>1, <3>2, AloneAtWork
  <2>13. ASSUME NEW p \in Procs, RefreshOpens(p) PROVE SerialInv'
    <3>1. /\ pc[p] = "refreshing" /\ pc' = [pc EXCEPT ![p] = "refreshOpened"]
          /\ mem'[p] = db
      BY <2>13 DEF RefreshOpens, ReadDb, Goto
    <3>2. UNCHANGED <<dbExists, db, cont, Instances>>
      BY <2>13 DEF RefreshOpens
    <3>. QED
      BY <2>00, <2>01, <3>1, <3>2, AloneAtWork
  <2>14. ASSUME NEW p \in Procs, RefreshReleases(p) PROVE SerialInv'
    <3>1. pc[p] = "refreshOpened" /\ pc' = [pc EXCEPT ![p] = "idle"]
      BY <2>14 DEF RefreshReleases, End
    <3>2. Persist([mem[p] EXCEPT ![cont[p]] = NoAddr]) /\ UNCHANGED Instances
      BY <2>14 DEF RefreshReleases
    <3>3. OrphansLeased' /\ dbExists'
      <4>1. \A c \in Containers : left[c] # {} => db'[c] = db[c]
        BY <2>01, <3>1, <3>2 DEF Persist, LeaseMap
      <4>. QED
        BY <4>1, <3>2, OrphansStay DEF SerialInv, Persist
    <3>. QED
      BY <3>1, <3>3, AloneAtWork
  <2>15. ASSUME NEW p \in Procs, RefreshReleaseFails(p) PROVE SerialInv'
    <3>1. pc[p] = "refreshOpened" /\ pc' = [pc EXCEPT ![p] = "idle"]
      BY <2>15 DEF RefreshReleaseFails, End
    <3>2. UNCHANGED <<dbExists, db, Instances>>
      BY <2>15 DEF RefreshReleaseFails
    <3>. QED
      BY <2>00, <3>1, <3>2, AloneAtWork
  <2>16. ASSUME NEW p \in Procs, Crash(p) PROVE SerialInv'
    <3>1. pc[p] # "idle" /\ pc' = [pc EXCEPT ![p] = "idle"] /\ UNCHANGED <<dbExists, db>>
      BY <2>16 DEF Crash, End
    <3>2. OrphansLeased'
      <4>1. CASE UNCHANGED Instances
        BY <2>00, <3>1, <4>1
      <4>2. CASE /\ pc[p] = "supervising"
                 /\ left' = [left EXCEPT ![cont[p]] = @ \cup {addr[p]}]
                 /\ named' = [named EXCEPT ![cont[p]] = IF @ = p THEN Orphan ELSE @]
        <5>1. /\ left[cont[p]] = {} /\ named[cont[p]] = p /\ cont[p] \in Containers
              /\ mem[p] = db
          BY <2>01, <4>2
        <5>2. addr[p] = db[cont[p]] /\ db[cont[p]] # NoAddr
          BY <4>2, <5>1 DEF SupervisorKnowsLease
        <5>3. left'[cont[p]] = {db[cont[p]]} /\ named'[cont[p]] = Orphan
          BY <4>2, <5>1, <5>2
        <5>4. \A c \in Containers \ {cont[p]} : left'[c] = left[c] /\ named'[c] = named[c]
          BY <4>2
        <5>. QED
          BY <3>1, <5>2, <5>3, <5>4 DEF OrphansLeased, SerialInv
      <4>. QED
        BY <2>16, <4>1, <4>2 DEF Crash
    <3>. QED
      BY <3>1, <3>2, AloneAtWork
  <2>17. ASSUME NEW p \in Procs, ContainerExits(p) PROVE SerialInv'
    <3>1. pc[p] = "supervising" /\ pc' = [pc EXCEPT ![p] = "exited"]
      BY <2>17 DEF ContainerExits, Goto
    <3>2. /\ UNCHANGED <<dbExists, db, cont, mem, left>>
          /\ \A c \in Containers \ {cont[p]} : named'[c] = named[c]
      BY <2>17 DEF ContainerExits
    <3>3. OrphansLeased'
      BY <2>01, <3>1, <3>2, OrphansStay DEF SerialInv
    <3>. QED
      BY <2>01, <3>1, <3>2, <3>3, AloneAtWork
  <2>18. ASSUME NEW c \in Containers, RemoveContainer(c) PROVE SerialInv'
    BY <2>18 DEF RemoveContainer, SerialInv, OneAtWork, Fresh, OrphansLeased,
                 OnlySupervised
  <2>19. CASE Reboot
    BY <2>19 DEF Reboot, SerialInv, OneAtWork, Fresh, OrphansLeased, OnlySupervised
  <2>20. CASE UNCHANGED vars
    BY <2>20 DEF vars, SerialInv, OneAtWork, Fresh, OrphansLeased, OnlySupervised
  <2>21. ASSUME NEW c \in Containers, OrphanExits(c) PROVE SerialInv'
    <3>1. /\ left[c] # {} /\ UNCHANGED <<dbExists, db, pc, cont, mem>>
          /\ \A d \in Containers \ {c} : left'[d] = left[d] /\ named'[d] = named[d]
      BY <2>21 DEF OrphanExits
    <3>2. left'[c] = {}
      BY <2>21, <3>1 DEF OrphanExits, SerialInv, OrphansLeased
    <3>3. OrphansLeased'
      BY <3>1, <3>2 DEF SerialInv, OrphansLeased
    <3>4. OnlySupervised'
      BY <3>1 DEF SerialInv, OnlySupervised
    <3>. QED
      BY <3>1, <3>3, <3>4 DEF SerialInv, OneAtWork, Fresh
  <2>. QED
    BY <2>1, <2>2, <2>3, <2>4, <2>5, <2>6, <2>7, <2>8, <2>9, <2>10, <2>11,
       <2>12, <2>13, <2>14, <2>15, <2>16, <2>17, <2>18, <2>19, <2>20, <2>21
       DEF Next, Step
<1>. QED
  BY <1>1, <1>2, TypeCorrect, SupervisorsKnowTheirLease, PTL DEF Spec

(* The lease of a container that runs stays in the database, through
   crashes and reboots, as long as engine processes do not overlap and
   nothing is launched that runs.                                          *)
THEOREM LiveContainersAreLeased == Spec => []LiveIsLeased
<1>1. TypeOK /\ SupervisorKnowsLease /\ (alone => SerialInv) => LiveIsLeased
  <2> SUFFICES ASSUME TypeOK, SupervisorKnowsLease, SerialInv,
                      NEW c \in Containers, NEW a \in Pool, Lives(c, a)
               PROVE  db[c] = a
    BY DEF LiveIsLeased
  <2>1. CASE a \in left[c]
    BY <2>1 DEF SerialInv, OrphansLeased
  <2>2. ASSUME NEW p \in Procs, pc[p] = "supervising", cont[p] = c, addr[p] = a
        PROVE  db[c] = a
    BY <2>2 DEF SerialInv, Fresh, SupervisorKnowsLease
  <2>. QED
    BY <2>1, <2>2 DEF Lives
<1>. QED
  BY <1>1, TypeCorrect, SupervisorsKnowTheirLease, SerialInvariant, PTL

(* As long as engine processes have not overlapped, and nothing was launched
   that ran, no two running containers use the same address.               *)
THEOREM NoSharedAddressWhenAlone == Spec => [](alone => NoSharedAddress)
<1>1. TypeOK /\ LiveIsLeased /\ LeasesUnique => (alone => NoSharedAddress)
  BY DEF TypeOK, LiveIsLeased, LeasesUnique, NoSharedAddress, Injective, Pool, NoAddr
<1>. QED
  BY <1>1, TypeCorrect, UniqueLeases, LiveContainersAreLeased, PTL

(* As long as engine processes have not overlapped, and nothing was launched
   that ran, every step of the database is one of the lease pool that the
   rest of the engine relies on.                                           *)
THEOREM ImplementsLeasePool == Spec => PoolSpec
<1>1. Init => Abstract!Init
  BY DEF Init, Abstract!Init, EmptyLease, Abstract!EmptyLease, NoAddr, Abstract!NoAddr
<1>2. TypeOK /\ (alone => SerialInv) /\ [Next]_vars => [alone => Abstract!Next]_db
  <2> SUFFICES ASSUME TypeOK, alone => SerialInv, [Next]_vars, db' # db, alone
               PROVE  Abstract!Next
    OBVIOUS
  <2> USE DEF TypeOK, SerialInv, Fresh, NoAddr, Abstract!NoAddr
  <2>1. ASSUME NEW p \in Procs, AllocateFresh(p) PROVE Abstract!Next
    <3>1. mem[p] = db /\ cont[p] \in Containers /\ db[cont[p]] = NoAddr
      BY <2>1 DEF AllocateFresh
    <3>2. PICK a \in FreeAddrs(db) : db' = [db EXCEPT ![cont[p]] = a]
      BY <2>1, <3>1 DEF AllocateFresh, Persist
    <3>3. a \in Abstract!FreeAddrs(db)
      BY <3>2 DEF FreeAddrs, Pool, Abstract!FreeAddrs, Abstract!Pool
    <3>. QED
      BY <3>1, <3>2, <3>3 DEF Abstract!Grant, Abstract!Next
  <2>2. ASSUME NEW p \in Procs, SupervisorReleases(p) PROVE Abstract!Next
    BY <2>2 DEF SupervisorReleases, Persist, Abstract!Return, Abstract!Next
  <2>3. ASSUME NEW p \in Procs, RefreshReleases(p) PROVE Abstract!Next
    BY <2>3 DEF RefreshReleases, Persist, Abstract!Return, Abstract!Next
  <2>4. ASSUME NEW p \in Procs, LaunchCreatesDb(p) PROVE FALSE
    BY <2>4 DEF LaunchCreatesDb, Persist
  <2>. QED
    BY <2>1, <2>2, <2>3, <2>4
       DEF Next, Step, vars, LaunchOpen, AllocateExisting, AllocateFails,
           ContainerStarts, LaunchFails, SupervisorDeletesDir,
           SupervisorReleaseFails, SupervisorEnds, RefreshMarks, RefreshOpens,
           RefreshReleaseFails, Crash, ContainerExits, OrphanExits, RemoveContainer,
           Reboot
<1>. QED
  BY <1>1, <1>2, TypeCorrect, SerialInvariant, PTL DEF Spec, PoolSpec

-----------------------------------------------------------------------------
(* Lemmas about sequences *)

(* The order of the natural numbers is well founded.                       *)
LEMMA NatOrder ==
    \E R : IsWellFoundedOn(R, Nat) /\ \A x, y \in Nat : x < y => <<x, y>> \in R
<1>1. \A x, y \in Nat : x < y => <<x, y>> \in OpToRel(<, Nat)
  BY Zenon DEF OpToRel
<1>. QED
  BY <1>1, NatLessThanWellFounded, Zenon

(* A set of natural numbers has a least element, which carries the
   inductions.                                                             *)
LEMMA LeastNat ==
    ASSUME NEW T, T \subseteq Nat, T # {}
    PROVE  \E x \in T : \A y \in T : x <= y
<1>1. PICK R : IsWellFoundedOn(R, Nat) /\ \A x, y \in Nat : x < y => <<x, y>> \in R
  BY NatOrder
<1>2. PICK x \in T : \A y \in T : ~(<<y, x>> \in R)
  <2>1. ASSUME NEW Q, NEW S, IsWellFoundedOn(Q, S), NEW U, U \subseteq S, U # {}
        PROVE  \E x \in U : \A y \in U : ~ (<<y, x>> \in Q)
    BY <2>1, WFMin, Zenon
  <2>2. \A Q, S, U : IsWellFoundedOn(Q, S) /\ U \subseteq S /\ U # {}
                        => \E x \in U : \A y \in U : ~ (<<y, x>> \in Q)
    BY <2>1
  <2>3. IsWellFoundedOn(R, Nat) /\ T \subseteq Nat /\ T # {}
    BY <1>1
  <2>. QED
    BY <2>2, <2>3
<1>3. \A y \in T : y \in Nat /\ x \in Nat /\ ~(y < x)
  BY <1>1, <1>2
<1>. QED
  BY <1>3

(* Min of a set of natural numbers that is not empty is one of them.       *)
LEMMA MinIsMember ==
    ASSUME NEW T, T \subseteq Nat, T # {}
    PROVE  Min(T) \in T /\ \A x \in T : Min(T) <= x
  BY LeastNat DEF Min

\* f[i] is what the first i of n sequences flatten to.
Flattens(f, seqs, n) ==
    \A i \in 1..n : f[i] = IF i = 1 THEN seqs[i] ELSE f[i - 1] \o seqs[i]

(* The recursive function FlattenSeq chooses exists: what has been
   flattened up to each stage.                                             *)
LEMMA StagesExist ==
    ASSUME NEW S, NEW n \in Nat \ {0}, NEW seqs \in [1..n -> Seq(S)]
    PROVE  \E f \in [1..n -> Seq(S)] : Flattens(f, seqs, n)
<1> DEFINE Upto(f, m) ==
               /\ f \in [1..m -> Seq(S)]
               /\ \A i \in 1..m : f[i] = IF i = 1 THEN seqs[i] ELSE f[i - 1] \o seqs[i]
           T == {m \in 1..n : ~ \E f : Upto(f, m)}
<1>1. ASSUME NEW m \in T, \A y \in T : m <= y
      PROVE  FALSE
  <2>1. m \in 1..n /\ ~ \E f : Upto(f, m)
    OBVIOUS
  <2>2. CASE m = 1
    <3>1. Upto([i \in 1..1 |-> seqs[i]], 1)
      OBVIOUS
    <3>. QED
      BY <2>1, <2>2, <3>1
  <2>3. CASE m # 1
    <3>1. m - 1 \in 1..n /\ m - 1 \notin T
      <4>1. m - 1 \in 1..n /\ ~(m <= m - 1)
        BY <2>1, <2>3
      <4> HIDE DEF T
      <4>. QED
        BY <1>1, <4>1
    <3>2. PICK f : Upto(f, m - 1)
      BY <3>1
    <3> DEFINE g == [i \in 1..m |-> IF i = m THEN f[m - 1] \o seqs[m] ELSE f[i]]
    <3>3. g \in [1..m -> Seq(S)]
      <4>1. f[m - 1] \in Seq(S) /\ seqs[m] \in Seq(S)
        BY <2>1, <2>3, <3>2
      <4>2. ASSUME NEW i \in 1..m PROVE (IF i = m THEN f[m - 1] \o seqs[m] ELSE f[i]) \in Seq(S)
        <5>1. CASE i = m
          BY <4>1, <5>1
        <5>2. CASE i # m
          <6>1. i \in 1..(m - 1)
            BY <2>1, <5>2
          <6>. QED
            BY <3>2, <5>2, <6>1
        <5>. QED
          BY <5>1, <5>2
      <4>. QED
        BY <4>2
    <3>4. ASSUME NEW i \in 1..m
          PROVE  g[i] = IF i = 1 THEN seqs[i] ELSE g[i - 1] \o seqs[i]
      <4>1. CASE i = m
        <5>1. m - 1 \in 1..m /\ g[m - 1] = f[m - 1]
          BY <2>1, <2>3
        <5>. QED
          BY <2>3, <4>1, <5>1
      <4>2. CASE i # m
        <5>1. i \in 1..(m - 1) /\ g[i] = f[i]
          BY <2>1, <4>2
        <5>2. f[i] = IF i = 1 THEN seqs[i] ELSE f[i - 1] \o seqs[i]
          BY <3>2, <5>1
        <5>3. CASE i = 1
          BY <5>1, <5>2, <5>3
        <5>4. CASE i # 1
          <6>1. i - 1 \in 1..m /\ i - 1 # m /\ g[i - 1] = f[i - 1]
            BY <2>1, <5>1, <5>4
          <6>. QED
            BY <5>1, <5>2, <5>4, <6>1
        <5>. QED
          BY <5>3, <5>4
      <4>. QED
        BY <4>1, <4>2
    <3>5. Upto(g, m)
      BY <3>3, <3>4, Zenon
    <3>. QED
      BY <2>1, <3>5
  <2>. QED
    BY <2>2, <2>3
<1>2. T = {}
  <2>1. T \subseteq Nat
    OBVIOUS
  <2> HIDE DEF T
  <2>. QED
    BY <1>1, <2>1, LeastNat
<1>3. \E f : Upto(f, n)
  <2>1. n \in 1..n
    OBVIOUS
  <2>2. ~(n \in T)
    BY <1>2, Zenon
  <2>. QED
    BY <2>1, <2>2, Zenon
<1>. QED
  BY <1>3 DEF Flattens

(* A flattened sequence has the elements of its parts and no others.       *)
LEMMA FlattenElements ==
    ASSUME NEW S, NEW n \in Nat, NEW seqs \in [1..n -> Seq(S)]
    PROVE  /\ FlattenSeq(seqs) \in Seq(S)
           /\ \A x : Contains(FlattenSeq(seqs), x) <=> \E i \in 1..n : Contains(seqs[i], x)
<1>1. Len(seqs) = n
  OBVIOUS
<1>2. CASE n = 0
  <2>1. FlattenSeq(seqs) = seqs
    BY <1>1, <1>2 DEF FlattenSeq
  <2>2. seqs = <<>> /\ <<>> \in Seq(S)
    BY <1>2
  <2>. QED
    BY <1>1, <1>2, <2>1, <2>2 DEF Contains
<1>3. CASE n # 0
  <2> DEFINE Rec(f) == f = [i \in 1..n |-> IF i = 1 THEN seqs[i] ELSE f[i - 1] \o seqs[i]]
             flatten == CHOOSE f : Rec(f)
  <2>1. FlattenSeq(seqs) = flatten[n]
    BY <1>1, <1>3 DEF FlattenSeq
  <2>2. PICK f \in [1..n -> Seq(S)] : Flattens(f, seqs, n)
    <3>1. n \in Nat \ {0}
      BY <1>3
    <3>. QED
      BY <3>1, StagesExist
  <2>3. Rec(f)
    BY <2>2 DEF Flattens
  <2>4. Rec(flatten)
    BY <2>3
  <2> HIDE DEF flatten
  <2>5. /\ flatten = [i \in 1..n |-> flatten[i]]
        /\ \A i \in 1..n : flatten[i] = IF i = 1 THEN seqs[i] ELSE flatten[i - 1] \o seqs[i]
    BY <2>4
  <2> DEFINE Good(m) ==
                 /\ flatten[m] \in Seq(S)
                 /\ \A x : Contains(flatten[m], x) <=> \E i \in 1..m : Contains(seqs[i], x)
             T == {m \in 1..n : ~Good(m)}
  <2>6. ASSUME NEW m \in T, \A y \in T : m <= y
        PROVE  FALSE
    <3>1. m \in 1..n /\ ~Good(m)
      OBVIOUS
    <3>2. CASE m = 1
      <4>1. flatten[1] = seqs[1] /\ seqs[1] \in Seq(S)
        BY <2>5, <3>1, <3>2
      <4>2. 1..1 = {1}
        OBVIOUS
      <4>. QED
        BY <3>1, <3>2, <4>1, <4>2
    <3>3. CASE m # 1
      <4>1. m - 1 \in 1..n /\ m - 1 \notin T
        <5>1. m - 1 \in 1..n /\ ~(m <= m - 1)
          BY <3>1, <3>3
        <5> HIDE DEF T
        <5>. QED
          BY <2>6, <5>1
      <4>2. Good(m - 1)
        BY <4>1
      <4>3. flatten[m] = flatten[m - 1] \o seqs[m] /\ seqs[m] \in Seq(S)
        BY <2>5, <3>1, <3>3
      <4> DEFINE s == flatten[m - 1]
                 t == seqs[m]
      <4>4. s \in Seq(S) /\ t \in Seq(S)
        BY <4>2, <4>3
      <4>5. flatten[m] = s \o t
        BY <4>3
      <4>6. \A x : Contains(s, x) <=> \E i \in 1..(m - 1) : Contains(seqs[i], x)
        BY <4>2
      <4> HIDE DEF s
      <4>7. \A x : Contains(s \o t, x) <=> Contains(s, x) \/ Contains(t, x)
        <5> HIDE DEF t
        <5>1. ASSUME NEW x, Contains(s \o t, x) PROVE Contains(s, x) \/ Contains(t, x)
          BY <4>4, <5>1 DEF Contains
        <5>2. ASSUME NEW x, Contains(s, x) PROVE Contains(s \o t, x)
          BY <4>4, <5>2 DEF Contains
        <5>3. ASSUME NEW x, Contains(t, x) PROVE Contains(s \o t, x)
          <6>1. PICK i \in 1..Len(t) : t[i] = x
            BY <5>3 DEF Contains
          <6>2. Len(s) + i \in 1..Len(s \o t) /\ (s \o t)[Len(s) + i] = x
            BY <4>4, <6>1
          <6>. QED
            BY <6>2 DEF Contains
        <5>. QED
          BY <5>1, <5>2, <5>3
      <4>8. 1..m = 1..(m - 1) \cup {m}
        BY <3>1
      <4>9. \A x : Contains(flatten[m], x) <=> \E i \in 1..m : Contains(seqs[i], x)
        BY <4>5, <4>6, <4>7, <4>8
      <4>10. flatten[m] \in Seq(S)
        BY <4>4, <4>5
      <4>. QED
        BY <3>1, <4>9, <4>10
    <3>. QED
      BY <3>2, <3>3
  <2>7. T = {}
    <3>1. T \subseteq Nat
      OBVIOUS
    <3> HIDE DEF T
    <3>. QED
      BY <2>6, <3>1, LeastNat
  <2>8. n \in 1..n
    BY <1>3
  <2>9. Good(n)
    BY <2>7, <2>8
  <2>. QED
    BY <2>1, <2>9
<1>. QED
  BY <1>2, <1>3

\* No element of s occurs twice.
NoneTwice(s) == \A i, j \in 1..Len(s) : s[i] = s[j] => i = j

(* Removing the first occurrence of an element leaves the others, and of a
   sequence that has it once, only the others.                             *)
LEMMA RemoveFirstLeaves ==
    ASSUME NEW S, NEW s \in Seq(S), NoneTwice(s), NEW e
    PROVE  /\ RemoveFirst(s, e) \in Seq(S)
           /\ NoneTwice(RemoveFirst(s, e))
           /\ \A x : Contains(RemoveFirst(s, e), x) <=> Contains(s, x) /\ x # e
<1>1. CASE ~ \E i \in 1..Len(s) : s[i] = e
  <2>1. RemoveFirst(s, e) = s
    BY <1>1 DEF RemoveFirst
  <2>. QED
    BY <1>1, <2>1 DEF Contains
<1>2. CASE \E i \in 1..Len(s) : s[i] = e
  <2> DEFINE I == {i \in 1..Len(s) : s[i] = e}
             k == SelectInSeq(s, LAMBDA v : v = e)
             t == RemoveFirst(s, e)
  <2>1. k \in 1..Len(s) /\ s[k] = e
    <3>1. I # {} /\ I \subseteq Nat
      BY <1>2
    <3>2. k = Min(I)
      BY <3>1 DEF SelectInSeq
    <3>3. Min(I) \in I
      <4> HIDE DEF I
      <4>. QED
        BY <3>1, MinIsMember
    <3>. QED
      BY <3>2, <3>3
  <2>2. t = RemoveAt(s, k)
    BY <1>2 DEF RemoveFirst
  <2> HIDE DEF k, t
  <2> DEFINE p == SubSeq(s, 1, k - 1)
             q == SubSeq(s, k + 1, Len(s))
  <2>3. t = p \o q
    BY <2>2 DEF RemoveAt
  <2>4. p \in Seq(S) /\ Len(p) = k - 1 /\ \A i \in 1..(k - 1) : p[i] = s[i]
    BY <2>1
  <2>5. q \in Seq(S) /\ Len(q) = Len(s) - k /\ \A i \in 1..(Len(s) - k) : q[i] = s[i + k]
    BY <2>1
  <2>6. /\ t \in Seq(S) /\ Len(t) = Len(s) - 1
        /\ \A i \in 1..(Len(s) - 1) : t[i] = IF i < k THEN s[i] ELSE s[i + 1]
    <3> HIDE DEF I, p, q
    <3>1. t \in Seq(S) /\ Len(t) = Len(s) - 1
      BY <2>1, <2>3, <2>4, <2>5
    <3>2. ASSUME NEW i \in 1..(Len(s) - 1), i < k PROVE t[i] = s[i]
      BY <2>1, <2>3, <2>4, <2>5, <3>2
    <3>3. ASSUME NEW i \in 1..(Len(s) - 1), ~(i < k) PROVE t[i] = s[i + 1]
      <4>1. i - (k - 1) \in 1..(Len(s) - k) /\ i - (k - 1) + k = i + 1
        BY <2>1, <3>3
      <4>2. t[i] = q[i - (k - 1)]
        BY <2>1, <2>3, <2>4, <2>5, <3>3
      <4>. QED
        BY <2>5, <4>1, <4>2
    <3>. QED
      BY <3>1, <3>2, <3>3
  <2>7. NoneTwice(t)
    <3> SUFFICES ASSUME NEW i \in 1..Len(t), NEW j \in 1..Len(t), t[i] = t[j]
                 PROVE  i = j
      BY DEF NoneTwice
    <3> DEFINE at(m) == IF m < k THEN m ELSE m + 1
    <3> HIDE DEF I, p, q
    <3>1. ASSUME NEW m \in 1..Len(t) PROVE at(m) \in 1..Len(s) /\ t[m] = s[at(m)]
      <4>1. m \in 1..(Len(s) - 1) /\ Len(s) \in Nat
        BY <2>6
      <4>4. t[m] = IF m < k THEN s[m] ELSE s[m + 1]
        BY <2>6, <4>1
      <4> HIDE DEF t
      <4>2. CASE m < k
        BY <4>1, <4>2, <4>4
      <4>3. CASE ~(m < k)
        BY <2>1, <4>1, <4>3, <4>4
      <4>. QED
        BY <4>2, <4>3
    <3>2. at(i) = at(j)
      <4> HIDE DEF at
      <4>. QED
        BY <3>1 DEF NoneTwice
    <3>. QED
      BY <2>1, <2>6, <3>2
  <2>8. ASSUME NEW x, Contains(t, x) PROVE Contains(s, x) /\ x # e
    <3>1. PICK i \in 1..(Len(s) - 1) : t[i] = x
      BY <2>6, <2>8 DEF Contains
    <3>2. PICK j \in 1..Len(s) : s[j] = x /\ j # k
      BY <2>1, <2>6, <3>1
    <3>. QED
      BY <2>1, <3>2 DEF Contains, NoneTwice
  <2>9. ASSUME NEW x, Contains(s, x), x # e PROVE Contains(t, x)
    <3>1. PICK j \in 1..Len(s) : s[j] = x
      BY <2>9 DEF Contains
    <3>2. j # k
      BY <2>1, <2>9, <3>1
    <3>3. CASE j < k
      <4>1. j \in 1..(Len(s) - 1) /\ t[j] = x
        BY <2>1, <2>6, <3>1, <3>3
      <4>. QED
        BY <2>6, <4>1 DEF Contains
    <3>4. CASE j > k
      <4>1. j - 1 \in 1..(Len(s) - 1) /\ ~(j - 1 < k) /\ (j - 1) + 1 = j
        BY <2>1, <3>1, <3>4
      <4>2. t[j - 1] = x
        BY <2>6, <3>1, <4>1
      <4>. QED
        BY <2>6, <4>1, <4>2 DEF Contains
    <3>. QED
      BY <2>1, <3>1, <3>2, <3>3, <3>4
  <2>. QED
    BY <2>6, <2>7, <2>8, <2>9 DEF t
<1>. QED
  BY <1>1, <1>2

(* Adding an element that is not there yet makes none occur twice.         *)
LEMMA AppendAdds ==
    ASSUME NEW S, NEW s \in Seq(S), NEW e \in S
    PROVE  /\ Append(s, e) \in Seq(S)
           /\ \A x : Contains(Append(s, e), x) <=> Contains(s, x) \/ x = e
           /\ NoneTwice(s) /\ ~Contains(s, e) => NoneTwice(Append(s, e))
<1>1. /\ Append(s, e) \in Seq(S) /\ Len(Append(s, e)) = Len(s) + 1
      /\ Append(s, e)[Len(s) + 1] = e
      /\ \A i \in 1..Len(s) : Append(s, e)[i] = s[i]
  OBVIOUS
<1>2. 1..Len(Append(s, e)) = 1..Len(s) \cup {Len(s) + 1}
  BY <1>1
<1>3. \A x : Contains(Append(s, e), x) <=> Contains(s, x) \/ x = e
  BY <1>1, <1>2 DEF Contains
<1>4. NoneTwice(s) /\ ~Contains(s, e) => NoneTwice(Append(s, e))
  BY <1>1, <1>2 DEF Contains, NoneTwice
<1>. QED
  BY <1>1, <1>3, <1>4

(* A sequence that is not empty has its head and what is in its tail.      *)
LEMMA HeadOrTail ==
    ASSUME NEW S, NEW s \in Seq(S), s # <<>>
    PROVE  /\ Head(s) \in S /\ Tail(s) \in Seq(S)
           /\ \A x : Contains(s, x) <=> x = Head(s) \/ Contains(Tail(s), x)
<1>1. /\ Head(s) = s[1] /\ 1 \in 1..Len(s) /\ Tail(s) \in Seq(S)
      /\ Len(Tail(s)) = Len(s) - 1
      /\ \A i \in 1..(Len(s) - 1) : Tail(s)[i] = s[i + 1]
  OBVIOUS
<1>2. ASSUME NEW x, Contains(s, x) PROVE x = Head(s) \/ Contains(Tail(s), x)
  <2>1. PICK i \in 1..Len(s) : s[i] = x
    BY <1>2 DEF Contains
  <2>2. CASE i # 1
    <3>1. i - 1 \in 1..(Len(s) - 1) /\ Tail(s)[i - 1] = s[i]
      BY <1>1, <2>1, <2>2
    <3>. QED
      BY <1>1, <2>1, <3>1 DEF Contains
  <2>. QED
    BY <1>1, <2>1, <2>2
<1>3. ASSUME NEW x, Contains(Tail(s), x) PROVE Contains(s, x)
  <2>1. PICK i \in 1..(Len(s) - 1) : Tail(s)[i] = x
    BY <1>1, <1>3 DEF Contains
  <2>2. i + 1 \in 1..Len(s) /\ s[i + 1] = x
    BY <1>1, <2>1
  <2>. QED
    BY <2>2 DEF Contains
<1>. QED
  BY <1>1, <1>2, <1>3 DEF Contains

-----------------------------------------------------------------------------
(* Published ports: the inductive invariant                                 *)

\* The rule of a chain for the i-th port of c.
Forward(c, ch, i, a) == Rule(Way(ch), Publish[c][i].host, a, Publish[c][i].container)

Commands == [chain : Chains, rule : Rules]

\* c still has the rule r of a chain to add or to delete.
Pending(c, ch, r) == Contains(todo[c], Cmd(ch, r))

\* iptables is asked before a rule is added.
NoRuleTwice == \A ch \in Chains : NoneTwice(chains[ch])

\* A supervisor adds its own rules, and deletes from PREROUTING those of its
\* address, from OUTPUT none that leads anywhere.
OwnRules ==
    \A c \in Containers, ch \in Ways, r \in Rules : Pending(c, ch, r) =>
        /\ stage[c] = "adding" => \E i \in DOMAIN Publish[c] : r = Forward(c, ch, i, ip[c])
        /\ stage[c] = "removing" => r.to = "lo" \/ (ch = "PREROUTING" /\ r.ip = ip[c])

\* c has added the rule r, or found it there, and has not forgotten it.
Owns(c, ch, r) ==
    /\ IsLaunched(c) /\ ip[c] = r.ip /\ Publishes(c, r)
    /\ stage[c] = "removing" /\ ch = "PREROUTING" => Pending(c, ch, r)

RulesOwned ==
    \A ch \in Ways, r \in Rules : Contains(chains[ch], r) =>
        /\ r.to = Way(ch)
        /\ r.ip \notin orphans[ch] => \E c \in Containers : Owns(c, ch, r)

\* No copy of the leases has an address twice.
Copies == Injective(lease) /\ \A c \in Containers : Injective(snap[c])

\* ipam.json has the lease of a supervisor that is not crossed.
Leased == \A c \in Containers : IsLaunched(c) /\ c \notin crossed => lease[c] = ip[c]

\* Who shares an address is crossed.
Sharing ==
    \A c, d \in Containers :
        IsLaunched(c) /\ IsLaunched(d) /\ ip[c] = ip[d] /\ c # d => c \in crossed

\* The rules of a container that serves are in place, and those that are not
\* in place yet are on the list.
Complete ==
    \A c \in Containers \ crossed : stage[c] \in {"adding", "serving"} =>
        \A ch \in Ways : \A i \in DOMAIN Publish[c] :
            \/ Contains(chains[ch], Forward(c, ch, i, ip[c]))
            \/ stage[c] = "adding" /\ Pending(c, ch, Forward(c, ch, i, ip[c]))

PortsInv == /\ PortsTypeOK /\ Copies /\ NoRuleTwice /\ OwnRules
            /\ RulesOwned /\ Leased /\ Sharing /\ Complete

-----------------------------------------------------------------------------
(* What a supervisor has to add and to delete                               *)

(* The rule for a port of a container is a rule that it publishes.         *)
LEMMA ForwardFacts ==
    ASSUME NEW c \in Containers, NEW ch \in Ways, NEW i \in DOMAIN Publish[c], NEW a \in Pool
    PROVE  /\ Forward(c, ch, i, a) \in Rules
           /\ Forward(c, ch, i, a).ip = a /\ Forward(c, ch, i, a).to = Way(ch)
           /\ Way(ch) # "lo"
           /\ Publishes(c, Forward(c, ch, i, a))
<1>1. /\ Publish[c][i].host \in Hosts(c) /\ Publish[c][i].container \in Targets
      /\ Publish[c][i] = [host |-> Publish[c][i].host, container |-> Publish[c][i].container]
  <2> DEFINE T == [host : Ports, container : Ports]
  <2>1. Publish[c] \in Seq(T)
    BY PublishConstants
  <2>2. Publish[c][i] \in T
    <3> HIDE DEF T
    <3>. QED
      BY <2>1
  <2>3. Publish[c][i] = [host |-> Publish[c][i].host, container |-> Publish[c][i].container]
    BY <2>2
  <2>. QED
    BY <2>3 DEF Hosts, Targets
<1>2. Way(ch) \in {"any", "127.0.0.1"}
  BY DEF Way
<1>. QED
  BY <1>1, <1>2 DEF Forward, Rule, Rules, Publishes

(* A rule with the address of a container that publishes it is the one for
   a port of its.                                                          *)
LEMMA PublishedIsForward ==
    ASSUME NEW c \in Containers, NEW ch \in Ways, NEW r \in Rules,
           r.to = Way(ch), Publishes(c, r)
    PROVE  \E i \in DOMAIN Publish[c] : r = Forward(c, ch, i, r.ip)
<1>1. PICK i \in DOMAIN Publish[c] : Publish[c][i] = [host |-> r.host, container |-> r.port]
  BY DEF Publishes
<1>2. r = [to |-> r.to, host |-> r.host, ip |-> r.ip, port |-> r.port]
  BY DEF Rules
<1>. QED
  BY <1>1, <1>2 DEF Forward, Rule

(* The commands of both lists are well typed.  What is added to the chains
   that lead to a container is there for each port; what is deleted is so
   from PREROUTING, and is a rule for the interface lo in OUTPUT.          *)
LEMMA Lists ==
    ASSUME NEW c \in Containers, NEW a \in Pool
    PROVE  /\ AddList(c, a) \in Seq(Commands) /\ RemoveList(c, a) \in Seq(Commands)
           /\ \A ch \in Ways : \A r : Contains(AddList(c, a), Cmd(ch, r))
                        <=> \E i \in DOMAIN Publish[c] : r = Forward(c, ch, i, a)
           /\ \A r : Contains(RemoveList(c, a), Cmd("PREROUTING", r))
                        <=> \E i \in DOMAIN Publish[c] : r = Forward(c, "PREROUTING", i, a)
           /\ \A r : Contains(RemoveList(c, a), Cmd("OUTPUT", r)) => r.to = "lo"
<1> DEFINE n == Len(Publish[c])
           adds == [i \in DOMAIN Publish[c] |-> Added(Publish[c][i], a)]
           removes == [i \in DOMAIN Publish[c] |-> Removed(Publish[c][i], a)]
<1>1. n \in Nat /\ DOMAIN Publish[c] = 1..n
  BY PublishConstants
<1>2. ASSUME NEW i \in 1..n
      PROVE  /\ Added(Publish[c][i], a) \in Seq(Commands)
             /\ Removed(Publish[c][i], a) \in Seq(Commands)
             /\ \A ch \in Ways : \A r :
                   Contains(Added(Publish[c][i], a), Cmd(ch, r)) <=> r = Forward(c, ch, i, a)
             /\ \A r : Contains(Removed(Publish[c][i], a), Cmd("PREROUTING", r))
                          <=> r = Forward(c, "PREROUTING", i, a)
             /\ \A r : Contains(Removed(Publish[c][i], a), Cmd("OUTPUT", r)) => r.to = "lo"
  <2> DEFINE h == Publish[c][i].host
             p == Publish[c][i].container
  <2>1. h \in Hosts(c) /\ p \in Targets
    BY <1>1 DEF Hosts, Targets
  <2> HIDE DEF h, p
  <2>2. ASSUME NEW to \in {"any", "127.0.0.1", "lo", "container"}, NEW host \in {h, NoPort},
               NEW ch \in Chains
        PROVE  Cmd(ch, Rule(to, host, a, p)) \in Commands
    <3> DEFINE U == UNION {Hosts(d) : d \in Containers}
               H == U \cup {NoPort}
    <3>1. host \in H
      <4>1. Hosts(c) \in {Hosts(d) : d \in Containers}
        OBVIOUS
      <4>2. h \in U
        BY <2>1, <4>1
      <4> HIDE DEF U
      <4>. QED
        BY <4>2
    <3>2. Rules = [to : {"any", "127.0.0.1", "lo", "container"}, host : H,
                   ip : Pool, port : Targets]
      BY DEF Rules
    <3> HIDE DEF H
    <3>3. Rule(to, host, a, p) \in Rules
      BY <2>1, <3>1, <3>2 DEF Rule
    <3>. QED
      BY <3>3 DEF Cmd, Commands
  <2>3. /\ Added(Publish[c][i], a) =
             << Cmd("PREROUTING", Rule("any", h, a, p)),
                Cmd("OUTPUT", Rule("127.0.0.1", h, a, p)),
                Cmd("POSTROUTING", Rule("container", NoPort, a, p)) >>
        /\ Removed(Publish[c][i], a) =
             << Cmd("PREROUTING", Rule("any", h, a, p)),
                Cmd("FORWARD", Rule("container", NoPort, a, p)),
                Cmd("OUTPUT", Rule("lo", h, a, p)) >>
        /\ Forward(c, "PREROUTING", i, a) = Rule("any", h, a, p)
        /\ Forward(c, "OUTPUT", i, a) = Rule("127.0.0.1", h, a, p)
    BY DEF Added, Removed, Forward, Way, h, p
  <2>4. \A x, y, z \in Commands :
           /\ <<x, y, z>> \in Seq(Commands)
           /\ \A e : Contains(<<x, y, z>>, e) <=> e \in {x, y, z}
    BY DEF Contains
  <2>5. \A ch, dh, r, q : Cmd(ch, r) = Cmd(dh, q) <=> ch = dh /\ r = q
    BY DEF Cmd
  <2>6. {"PREROUTING", "OUTPUT", "POSTROUTING", "FORWARD"} = Chains
    BY DEF Chains
  <2> DEFINE first == Cmd("PREROUTING", Rule("any", h, a, p))
             out == Cmd("OUTPUT", Rule("127.0.0.1", h, a, p))
             post == Cmd("POSTROUTING", Rule("container", NoPort, a, p))
             fwd == Cmd("FORWARD", Rule("container", NoPort, a, p))
             lo == Cmd("OUTPUT", Rule("lo", h, a, p))
  <2>7. first \in Commands /\ out \in Commands /\ post \in Commands /\ fwd \in Commands
        /\ lo \in Commands
    BY <2>2, <2>6
  <2>8. \A r : /\ Cmd("PREROUTING", r) = first <=> r = Forward(c, "PREROUTING", i, a)
               /\ Cmd("PREROUTING", r) \notin {out, post, fwd, lo}
               /\ Cmd("OUTPUT", r) = out <=> r = Forward(c, "OUTPUT", i, a)
               /\ Cmd("OUTPUT", r) \notin {first, post, fwd}
               /\ Cmd("OUTPUT", r) = lo => r.to = "lo"
    <3>1. Rule("lo", h, a, p).to = "lo"
      BY DEF Rule
    <3>. QED
      BY <2>3, <2>5, <3>1
  <2>9. Added(Publish[c][i], a) = <<first, out, post>>
        /\ Removed(Publish[c][i], a) = <<first, fwd, lo>>
    BY <2>3
  <2> HIDE DEF first, out, post, fwd, lo
  <2>10. \A e : /\ Contains(Added(Publish[c][i], a), e) <=> e \in {first, out, post}
                /\ Contains(Removed(Publish[c][i], a), e) <=> e \in {first, fwd, lo}
    BY <2>4, <2>7, <2>9
  <2>11. \A ch \in Ways : \A r :
            Contains(Added(Publish[c][i], a), Cmd(ch, r)) <=> r = Forward(c, ch, i, a)
    <3> SUFFICES ASSUME NEW ch \in Ways, NEW r
                 PROVE  Cmd(ch, r) \in {first, out, post} <=> r = Forward(c, ch, i, a)
      BY <2>10
    <3>1. CASE ch = "PREROUTING"
      BY <2>8, <3>1
    <3>2. CASE ch = "OUTPUT"
      BY <2>8, <3>2
    <3>. QED
      BY <3>1, <3>2 DEF Ways
  <2>. QED
    BY <2>4, <2>7, <2>8, <2>9, <2>10, <2>11
<1>3. adds \in [1..n -> Seq(Commands)] /\ removes \in [1..n -> Seq(Commands)]
  BY <1>1, <1>2
<1>4. /\ FlattenSeq(adds) \in Seq(Commands)
      /\ \A x : Contains(FlattenSeq(adds), x) <=> \E i \in 1..n : Contains(adds[i], x)
  <2> HIDE DEF n, adds
  <2>. QED
    BY <1>1, <1>3, FlattenElements
<1>5. /\ FlattenSeq(removes) \in Seq(Commands)
      /\ \A x : Contains(FlattenSeq(removes), x) <=> \E i \in 1..n : Contains(removes[i], x)
  <2> HIDE DEF n, removes
  <2>. QED
    BY <1>1, <1>3, FlattenElements
<1>6. AddList(c, a) = FlattenSeq(adds) /\ RemoveList(c, a) = FlattenSeq(removes)
  BY DEF AddList, RemoveList
<1>7. \A i \in 1..n : adds[i] = Added(Publish[c][i], a) /\ removes[i] = Removed(Publish[c][i], a)
  BY <1>1
<1> HIDE DEF n, adds, removes
<1>8. ASSUME NEW ch \in Ways, NEW r
      PROVE  Contains(FlattenSeq(adds), Cmd(ch, r)) <=> \E i \in 1..n : r = Forward(c, ch, i, a)
  <2>1. \A i \in 1..n : Contains(adds[i], Cmd(ch, r)) <=> r = Forward(c, ch, i, a)
    BY <1>2, <1>7
  <2>. QED
    BY <1>4, <2>1, Zenon
<1>9. ASSUME NEW r
      PROVE  /\ Contains(FlattenSeq(removes), Cmd("PREROUTING", r))
                   <=> \E i \in 1..n : r = Forward(c, "PREROUTING", i, a)
             /\ Contains(FlattenSeq(removes), Cmd("OUTPUT", r)) => r.to = "lo"
  <2>1. \A i \in 1..n :
           /\ Contains(removes[i], Cmd("PREROUTING", r)) <=> r = Forward(c, "PREROUTING", i, a)
           /\ Contains(removes[i], Cmd("OUTPUT", r)) => r.to = "lo"
    BY <1>2, <1>7
  <2>. QED
    BY <1>5, <2>1, Zenon
<1>. QED
  BY <1>1, <1>4, <1>5, <1>6, <1>8, <1>9

-----------------------------------------------------------------------------
(* The steps keep the invariant                                             *)

(* What the invariant says of one container, in the form the steps need.   *)
LEMMA PortFacts ==
    ASSUME PortsInv, NEW c \in Containers
    PROVE  /\ lease \in LeaseMap /\ snap[c] \in LeaseMap
           /\ IsLaunched(c) => ip[c] \in Pool /\ ip[c] # NoAddr /\ snap[c][c] = ip[c]
           /\ NoAddr \notin Pool
  BY DEF PortsInv, PortsTypeOK, LeaseMap, Pool, NoAddr

(* Launch and LaunchEnds: a supervisor without an address is nobody's
   business.                                                               *)
LEMMA OpeningKeeps ==
    ASSUME PortsInv, NEW c \in Containers, Launch(c) \/ LaunchEnds(c)
    PROVE  PortsInv'
<1> USE DEF PortsInv
<1>1. /\ stage[c] \in {"down", "opened"} /\ stage' \in [Containers -> Stages]
      /\ stage'[c] \in {"down", "opened"}
      /\ \A d \in Containers \ {c} : stage'[d] = stage[d] /\ snap'[d] = snap[d]
      /\ snap' \in [Containers -> LeaseMap] /\ Injective(snap'[c])
      /\ UNCHANGED <<chains, lease, active, ip, todo, orphans, crossed>>
  BY EmptyLeaseFacts DEF Launch, LaunchEnds, PortsTypeOK, Stages, Copies
<1>2. /\ ~IsLaunched(c) /\ \A d \in Containers : (IsLaunched(d))' <=> IsLaunched(d)
      /\ \A d \in Containers, s \in {"adding", "serving", "removing"} :
            stage'[d] = s <=> stage[d] = s
      /\ \A d \in Containers : IsLaunched(d) => snap'[d] = snap[d]
  BY <1>1 DEF IsLaunched
<1>3. PortsTypeOK'
  BY <1>1, <1>2 DEF PortsTypeOK
<1>4. Copies' /\ NoRuleTwice'
  BY <1>1 DEF Copies, NoRuleTwice
<1>5. OwnRules'
  BY <1>1, <1>2 DEF OwnRules, Pending, Forward
<1>6. RulesOwned'
  BY <1>1, <1>2 DEF RulesOwned, Owns, Pending, Publishes
<1>7. Leased' /\ Sharing'
  BY <1>1, <1>2 DEF Leased, Sharing
<1>8. Complete'
  BY <1>1, <1>2 DEF Complete, Pending, Forward
<1>. QED
  BY <1>3, <1>4, <1>5, <1>6, <1>7, <1>8

(* A supervisor that works with an address from now on crosses all that do
   when it shares it with one of them.                                     *)
LEMMA AllocateKeeps ==
    ASSUME PortsInv, NEW c \in Containers, NEW a \in Pool, NEW m \in LeaseMap,
           stage[c] = "opened", Add(c, a), Works(c, a, m), Injective(m), lease' = m,
           snap' \in [Containers -> LeaseMap], snap'[c][c] = a, Injective(snap'[c]),
           \A d \in Containers \ {c} : snap'[d] = snap[d],
           \A d \in Containers : IsLaunched(d) /\ ip[d] = a /\ d \notin crossed =>
               d \in Robbed(m) \/ m[c] # a,
           UNCHANGED <<chains, orphans>>
    PROVE  PortsInv'
<1> USE DEF PortsInv
<1>1. /\ AddList(c, a) \in Seq(Commands)
      /\ \A ch \in Ways : \A r : Contains(AddList(c, a), Cmd(ch, r))
                   <=> \E i \in DOMAIN Publish[c] : r = Forward(c, ch, i, a)
  BY Lists
<1>2. a # NoAddr /\ ~IsLaunched(c)
  BY DEF Pool, NoAddr, IsLaunched
<1>3. /\ ip'[c] = a /\ stage'[c] = "adding" /\ todo'[c] = AddList(c, a) /\ (IsLaunched(c))'
      /\ \A d \in Containers \ {c} : /\ ip'[d] = ip[d] /\ stage'[d] = stage[d]
                                     /\ todo'[d] = todo[d]
                                     /\ (IsLaunched(d))' <=> IsLaunched(d)
  BY DEF Add, PortsTypeOK, IsLaunched
<1> DEFINE robbed == (crossed \ {c}) \cup Robbed(m) \cup (IF m[c] = a THEN {} ELSE {c})
           sharing == {c} \cup {d \in Containers : IsLaunched(d) /\ ip[d] = a}
<1>4. crossed' = IF sharing \cap robbed = {} THEN robbed ELSE robbed \cup sharing
  BY DEF Works
<1>5. /\ \A d \in Containers \ {c} : d \in crossed \/ d \in Robbed(m) => d \in crossed'
      /\ m[c] # a => c \in crossed'
      /\ crossed' \subseteq Containers
  BY <1>4 DEF Robbed, PortsTypeOK
<1>6. ASSUME NEW d \in Containers, IsLaunched(d), ip[d] = a
      PROVE  c \in crossed' /\ d \in crossed'
  <2>1. d # c /\ d \in sharing /\ c \in sharing
    BY <1>2, <1>6
  <2>2. sharing \cap robbed # {}
    BY <1>6, <2>1
  <2>. QED
    BY <1>4, <2>1, <2>2
<1> HIDE DEF robbed, sharing
<1>7. PortsTypeOK'
  <2>1. /\ stage' \in [Containers -> Stages] /\ active' \subseteq Containers
        /\ ip' \in [Containers -> Pool \cup {NoAddr}]
    BY DEF PortsTypeOK, Stages, Add
  <2>2. todo' \in [Containers -> Seq(Commands)]
    <3>1. todo \in [Containers -> Seq(Commands)] /\ todo' = [todo EXCEPT ![c] = AddList(c, a)]
      BY DEF PortsTypeOK, Commands, Add
    <3>. QED
      BY <1>1, <3>1
  <2>3. \A d \in Containers : (IsLaunched(d))' => ip'[d] # NoAddr /\ snap'[d][d] = ip'[d]
    BY <1>2, <1>3 DEF PortsTypeOK
  <2>. QED
    BY <1>5, <2>1, <2>2, <2>3 DEF PortsTypeOK, Commands
<1>8. Copies' /\ NoRuleTwice'
  BY DEF Copies, NoRuleTwice
<1>9. OwnRules'
  BY <1>1, <1>3 DEF OwnRules, Pending, Forward
<1>10. RulesOwned'
  <2>1. ASSUME NEW ch \in Ways, NEW r \in Rules, NEW d \in Containers, Owns(d, ch, r)
        PROVE  Owns(d, ch, r)'
    <3>1. d # c
      BY <1>2, <2>1 DEF Owns
    <3>. QED
      BY <1>3, <2>1, <3>1 DEF Owns, Pending, Publishes
  <2>. QED
    BY <2>1 DEF RulesOwned
<1>11. Leased'
  <2>1. ASSUME NEW d \in Containers \ {c}, IsLaunched(d), d \notin crossed' PROVE m[d] = ip[d]
    BY <1>5, <2>1 DEF Leased, Robbed
  <2>. QED
    BY <1>3, <1>5, <2>1 DEF Leased
<1>12. Sharing'
  BY <1>3, <1>5, <1>6 DEF Sharing
<1>13. Complete'
  <2> SUFFICES ASSUME NEW d \in Containers \ crossed', stage'[d] \in {"adding", "serving"},
                      NEW ch \in Ways, NEW i \in DOMAIN Publish[d]
               PROVE  \/ Contains(chains[ch], Forward(d, ch, i, ip'[d]))
                      \/ /\ stage'[d] = "adding"
                         /\ Contains(todo'[d], Cmd(ch, Forward(d, ch, i, ip'[d])))
    BY DEF Complete, Pending, Forward
  <2>1. CASE d = c
    BY <1>1, <1>3, <2>1
  <2>2. CASE d # c
    BY <1>3, <1>5, <2>2 DEF Complete, Pending
  <2>. QED
    BY <2>1, <2>2
<1>. QED
  BY <1>7, <1>8, <1>9, <1>10, <1>11, <1>12, <1>13

(* AllocateOld: another that works with the address has lost its lease, or
   this one has.                                                           *)
LEMMA AllocateOldKeeps ==
    ASSUME PortsInv, NEW c \in Containers, AllocateOld(c)
    PROVE  PortsInv'
<1> DEFINE a == snap[c][c]
<1>1. /\ stage[c] = "opened" /\ a # NoAddr /\ Add(c, a) /\ Works(c, a, lease)
      /\ UNCHANGED <<chains, lease, snap, orphans>>
  BY DEF AllocateOld, leases
<1>2. a \in Pool /\ Injective(lease) /\ Injective(snap[c]) /\ ~IsLaunched(c)
      /\ snap \in [Containers -> LeaseMap]
  BY <1>1 DEF PortsInv, PortsTypeOK, LeaseMap, Copies, IsLaunched
<1>3. ASSUME NEW d \in Containers, IsLaunched(d), ip[d] = a, d \notin crossed
      PROVE  lease[c] # a
  <2>1. d # c /\ lease[d] = a
    BY <1>2, <1>3 DEF PortsInv, Leased
  <2>. QED
    BY <1>1, <1>2, <2>1 DEF Injective
<1>4. lease \in LeaseMap
  BY PortFacts
<1> HIDE DEF a
<1>5. snap'[c][c] = a
  BY <1>1 DEF a
<1>. QED
  BY <1>1, <1>2, <1>3, <1>4, <1>5, AllocateKeeps

(* AllocateNew: the copy that is written has one lease of the address.     *)
LEMMA AllocateNewKeeps ==
    ASSUME PortsInv, NEW c \in Containers, AllocateNew(c)
    PROVE  PortsInv'
<1>1. PICK a \in FreeAddrs(snap[c]) :
         /\ lease' = [snap[c] EXCEPT ![c] = a] /\ snap' = [snap EXCEPT ![c] = lease']
         /\ Add(c, a) /\ Works(c, a, lease')
  BY DEF AllocateNew
<1>2. stage[c] = "opened" /\ ~IsLaunched(c) /\ UNCHANGED <<chains, orphans>>
  BY DEF AllocateNew, IsLaunched
<1> DEFINE m == [snap[c] EXCEPT ![c] = a]
<1>3. snap[c] \in LeaseMap /\ Injective(snap[c]) /\ a \in Pool /\ a # NoAddr
  BY PortFacts DEF PortsInv, Copies, FreeAddrs, Pool, NoAddr
<1>4. m \in LeaseMap /\ Injective(m)
  BY <1>3, UpdateType, GrantInjective
<1>5. m[c] = a
  BY <1>3 DEF LeaseMap
<1>6. /\ snap' \in [Containers -> LeaseMap] /\ snap'[c] = m
      /\ \A d \in Containers \ {c} : snap'[d] = snap[d]
  BY <1>1, <1>4 DEF PortsInv, PortsTypeOK
<1>7. lease' = m /\ Works(c, a, m)
  BY <1>1
<1> HIDE DEF m
<1>8. ASSUME NEW d \in Containers, IsLaunched(d), ip[d] = a, d \notin crossed
      PROVE  d \in Robbed(m)
  <2>1. d # c /\ lease[d] = a
    BY <1>2, <1>8 DEF PortsInv, Leased
  <2>2. m[d] # a
    BY <1>3, <1>4, <1>5, <2>1 DEF Injective
  <2>. QED
    BY <1>8, <2>1, <2>2 DEF Robbed
<1>9. /\ snap'[c][c] = a /\ Injective(snap'[c]) /\ a \in Pool
      /\ Add(c, a) /\ Works(c, a, m)
  BY <1>1, <1>3, <1>4, <1>5, <1>6, <1>7
<1>10. \A d \in Containers : IsLaunched(d) /\ ip[d] = a /\ d \notin crossed =>
          d \in Robbed(m) \/ m[c] # a
  BY <1>8
<1>. QED
  BY <1>2, <1>4, <1>6, <1>7, <1>9, <1>10, AllocateKeeps

(* AddRule: the rule at the head of the list is in the chain afterwards,
   and every other rule is where it was.                                   *)
LEMMA AddRuleKeeps ==
    ASSUME PortsInv, NEW c \in Containers, AddRule(c)
    PROVE  PortsInv'
<1> DEFINE x == Head(todo[c])
<1> USE DEF PortsInv
<1>1. /\ stage[c] = "adding" /\ todo[c] # <<>> /\ todo[c] \in Seq(Commands)
      /\ chains' = [chains EXCEPT ![x.chain] =
                        IF Contains(@, x.rule) THEN @ ELSE Append(@, x.rule)]
      /\ todo' = [todo EXCEPT ![c] = Tail(@)]
      /\ UNCHANGED <<lease, snap, active, ip, stage, orphans, crossed>>
  BY DEF AddRule, PortsTypeOK, Commands, leases
<1>2. /\ x \in Commands /\ Tail(todo[c]) \in Seq(Commands)
      /\ \A y : Contains(todo[c], y) <=> y = x \/ Contains(Tail(todo[c]), y)
  BY <1>1, HeadOrTail
<1>3. /\ x.chain \in Chains /\ x.rule \in Rules /\ x = Cmd(x.chain, x.rule)
      /\ chains[x.chain] \in Seq(Rules)
  BY <1>2 DEF Commands, Cmd, PortsTypeOK
<1> HIDE DEF x
<1>4. /\ \A d \in Containers \ {c} : todo'[d] = todo[d]
      /\ todo'[c] = Tail(todo[c])
      /\ \A ch \in Chains : ch # x.chain => chains'[ch] = chains[ch]
      /\ chains'[x.chain] = IF Contains(chains[x.chain], x.rule) THEN chains[x.chain]
                            ELSE Append(chains[x.chain], x.rule)
  BY <1>1, <1>3 DEF PortsTypeOK, x
<1>5. \A ch \in Chains :
         /\ chains'[ch] \in Seq(Rules) /\ NoneTwice(chains'[ch])
         /\ \A r : Contains(chains'[ch], r)
                      <=> Contains(chains[ch], r) \/ (ch = x.chain /\ r = x.rule)
  <2>1. NoneTwice(chains[x.chain])
    BY <1>3 DEF NoRuleTwice
  <2> DEFINE t == chains'[x.chain]
  <2>2. /\ t \in Seq(Rules) /\ NoneTwice(t)
        /\ \A r : Contains(t, r) <=> Contains(chains[x.chain], r) \/ r = x.rule
    <3>1. CASE Contains(chains[x.chain], x.rule)
      BY <1>3, <1>4, <2>1, <3>1
    <3>2. CASE ~Contains(chains[x.chain], x.rule)
      <4>1. t = Append(chains[x.chain], x.rule)
        BY <1>4, <3>2
      <4>. QED
        BY <1>3, <2>1, <3>2, <4>1, AppendAdds
    <3>. QED
      BY <3>1, <3>2
  <2>3. ASSUME NEW ch \in Chains
        PROVE  /\ chains'[ch] \in Seq(Rules) /\ NoneTwice(chains'[ch])
               /\ \A r : Contains(chains'[ch], r)
                            <=> Contains(chains[ch], r) \/ (ch = x.chain /\ r = x.rule)
    <3>1. CASE ch = x.chain
      BY <2>2, <3>1
    <3>2. CASE ch # x.chain
      <4>1. chains[ch] \in Seq(Rules) /\ NoneTwice(chains[ch])
        BY DEF PortsTypeOK, NoRuleTwice
      <4>. QED
        BY <1>4, <3>2, <4>1
    <3>. QED
      BY <3>1, <3>2
  <2>. QED
    BY <2>3
<1>6. Ways \subseteq Chains
  BY DEF Ways, Chains
<1>7. PortsTypeOK'
  <2>1. chains' \in [Chains -> Seq(Rules)]
    BY <1>1, <1>5 DEF PortsTypeOK
  <2>2. todo' \in [Containers -> Seq(Commands)]
    BY <1>1, <1>2 DEF PortsTypeOK, Commands
  <2>. QED
    BY <1>1, <2>1, <2>2 DEF PortsTypeOK, Commands, IsLaunched
<1>8. NoRuleTwice' /\ Copies'
  BY <1>1, <1>5 DEF NoRuleTwice, Copies
\* What is pending was pending, but for the head.
<1>9. ASSUME NEW d \in Containers, NEW ch \in Ways, NEW r
      PROVE  /\ Pending(d, ch, r)' => Pending(d, ch, r)
             /\ Pending(d, ch, r) => \/ Pending(d, ch, r)'
                                     \/ d = c /\ ch = x.chain /\ r = x.rule
  <2>1. Cmd(ch, r) = x => ch = x.chain /\ r = x.rule
    BY DEF Cmd
  <2>. QED
    BY <1>2, <1>4, <2>1 DEF Pending
<1>10. OwnRules'
  BY <1>1, <1>9 DEF OwnRules, Forward
\* A rule that is new is one of c's.
<1>11. ASSUME NEW ch \in Ways, ch = x.chain
       PROVE  x.rule.to = Way(ch) /\ x.rule.ip = ip[c] /\ Publishes(c, x.rule)
  <2>1. Pending(c, ch, x.rule)
    BY <1>2, <1>3, <1>11 DEF Pending
  <2>2. PICK i \in DOMAIN Publish[c] : x.rule = Forward(c, ch, i, ip[c])
    BY <1>1, <1>3, <2>1 DEF OwnRules
  <2>. QED
    BY <1>1, <2>2, PortFacts, ForwardFacts DEF IsLaunched
<1>12. RulesOwned'
  <2> SUFFICES ASSUME NEW ch \in Ways, NEW r \in Rules, Contains(chains'[ch], r)
               PROVE  /\ r.to = Way(ch)
                      /\ r.ip \notin orphans[ch] => \E d \in Containers : Owns(d, ch, r)'
    BY <1>1 DEF RulesOwned
  <2>1. CASE Contains(chains[ch], r)
    <3>1. ASSUME NEW d \in Containers, Owns(d, ch, r) PROVE Owns(d, ch, r)'
      <4>1. stage[d] = "removing" => d # c
        BY <1>1
      <4>. QED
        BY <1>1, <1>9, <3>1, <4>1 DEF Owns, IsLaunched, Publishes
    <3>. QED
      BY <2>1, <3>1 DEF RulesOwned
  <2>2. CASE ch = x.chain /\ r = x.rule
    <3>1. Owns(c, ch, r)'
      BY <1>1, <1>11, <2>2 DEF Owns, IsLaunched, Publishes
    <3>. QED
      BY <1>11, <2>2, <3>1
  <2>. QED
    BY <1>5, <1>6, <2>1, <2>2
<1>13. Leased' /\ Sharing'
  BY <1>1 DEF Leased, Sharing, IsLaunched
<1>14. Complete'
  <2> SUFFICES ASSUME NEW d \in Containers \ crossed, stage[d] \in {"adding", "serving"},
                      NEW ch \in Ways, NEW i \in DOMAIN Publish[d],
                      NEW r, r = Forward(d, ch, i, ip[d])
               PROVE  \/ Contains(chains'[ch], r)
                      \/ stage[d] = "adding" /\ Pending(d, ch, r)'
    BY <1>1 DEF Complete, Forward, Pending
  <2>1. \/ Contains(chains[ch], r)
        \/ stage[d] = "adding" /\ Pending(d, ch, r)
    BY DEF Complete
  <2>. QED
    BY <1>5, <1>6, <1>9, <2>1
<1>. QED
  BY <1>7, <1>8, <1>10, <1>12, <1>13, <1>14

(* RemoveRule: the rule at the head of the list is gone; from PREROUTING it
   is nobody's but a container's that shares the address.                  *)
LEMMA RemoveRuleKeeps ==
    ASSUME PortsInv, NEW c \in Containers, RemoveRule(c)
    PROVE  PortsInv'
<1> DEFINE x == Head(todo[c])
<1> USE DEF PortsInv
<1>1. /\ stage[c] = "removing" /\ todo[c] # <<>> /\ todo[c] \in Seq(Commands)
      /\ chains' = [chains EXCEPT ![x.chain] = RemoveFirst(@, x.rule)]
      /\ todo' = [todo EXCEPT ![c] = Tail(@)]
      /\ UNCHANGED <<lease, snap, active, ip, stage, orphans, crossed>>
  BY DEF RemoveRule, PortsTypeOK, Commands, leases
<1>2. /\ x \in Commands /\ Tail(todo[c]) \in Seq(Commands)
      /\ \A y : Contains(todo[c], y) <=> y = x \/ Contains(Tail(todo[c]), y)
  BY <1>1, HeadOrTail
<1>3. /\ x.chain \in Chains /\ x.rule \in Rules /\ x = Cmd(x.chain, x.rule)
      /\ chains[x.chain] \in Seq(Rules)
  BY <1>2 DEF Commands, Cmd, PortsTypeOK
<1> HIDE DEF x
<1>4. /\ \A d \in Containers \ {c} : todo'[d] = todo[d]
      /\ todo'[c] = Tail(todo[c])
      /\ \A ch \in Chains : ch # x.chain => chains'[ch] = chains[ch]
      /\ chains'[x.chain] = RemoveFirst(chains[x.chain], x.rule)
  BY <1>1, <1>3 DEF PortsTypeOK, x
<1>5. \A ch \in Chains :
         /\ chains'[ch] \in Seq(Rules) /\ NoneTwice(chains'[ch])
         /\ \A r : Contains(chains'[ch], r)
                      <=> Contains(chains[ch], r) /\ ~(ch = x.chain /\ r = x.rule)
  <2>1. NoneTwice(chains[x.chain])
    BY <1>3 DEF NoRuleTwice
  <2>2. LET t == RemoveFirst(chains[x.chain], x.rule)
        IN  /\ t \in Seq(Rules) /\ NoneTwice(t)
            /\ \A r : Contains(t, r) <=> Contains(chains[x.chain], r) /\ r # x.rule
    BY <1>3, <2>1, RemoveFirstLeaves
  <2>. QED
    BY <1>4, <2>2 DEF PortsTypeOK, NoRuleTwice
<1>6. Ways \subseteq Chains
  BY DEF Ways, Chains
<1>7. PortsTypeOK'
  <2>1. chains' \in [Chains -> Seq(Rules)]
    BY <1>1, <1>5 DEF PortsTypeOK
  <2>2. todo' \in [Containers -> Seq(Commands)]
    BY <1>1, <1>2 DEF PortsTypeOK, Commands
  <2>. QED
    BY <1>1, <2>1, <2>2 DEF PortsTypeOK, Commands, IsLaunched
<1>8. NoRuleTwice' /\ Copies'
  BY <1>1, <1>5 DEF NoRuleTwice, Copies
<1>9. ASSUME NEW d \in Containers, NEW ch \in Ways, NEW r
      PROVE  /\ Pending(d, ch, r)' => Pending(d, ch, r)
             /\ Pending(d, ch, r) => \/ Pending(d, ch, r)'
                                     \/ d = c /\ ch = x.chain /\ r = x.rule
  <2>1. Cmd(ch, r) = x => ch = x.chain /\ r = x.rule
    BY DEF Cmd
  <2>. QED
    BY <1>2, <1>4, <2>1 DEF Pending
<1>10. OwnRules'
  BY <1>1, <1>9 DEF OwnRules, Forward
<1>11. ASSUME NEW ch \in Ways, ch = x.chain
       PROVE  x.rule.to = "lo" \/ (ch = "PREROUTING" /\ x.rule.ip = ip[c])
  <2>1. Pending(c, ch, x.rule)
    BY <1>2, <1>3, <1>11 DEF Pending
  <2>. QED
    BY <1>1, <1>3, <2>1 DEF OwnRules
\* The owner of a rule that stays has it to delete as before.
<1>12. RulesOwned'
  <2> SUFFICES ASSUME NEW ch \in Ways, NEW r \in Rules, Contains(chains'[ch], r)
               PROVE  /\ r.to = Way(ch)
                      /\ r.ip \notin orphans[ch] => \E d \in Containers : Owns(d, ch, r)'
    BY <1>1 DEF RulesOwned
  <2>1. Contains(chains[ch], r) /\ ~(ch = x.chain /\ r = x.rule)
    BY <1>5, <1>6
  <2>2. \A d \in Containers : Owns(d, ch, r) => Owns(d, ch, r)'
    BY <1>1, <1>9, <2>1 DEF Owns, IsLaunched, Publishes
  <2>. QED
    BY <2>1, <2>2 DEF RulesOwned
<1>13. Leased' /\ Sharing'
  BY <1>1 DEF Leased, Sharing, IsLaunched
<1>14. Complete'
  <2> SUFFICES ASSUME NEW d \in Containers \ crossed, stage[d] \in {"adding", "serving"},
                      NEW ch \in Ways, NEW i \in DOMAIN Publish[d],
                      NEW r, r = Forward(d, ch, i, ip[d])
               PROVE  \/ Contains(chains'[ch], r)
                      \/ stage[d] = "adding" /\ Pending(d, ch, r)'
    BY <1>1 DEF Complete, Forward, Pending
  <2>1. d # c /\ IsLaunched(c) /\ IsLaunched(d)
    BY <1>1 DEF IsLaunched
  <2>2. r.ip = ip[d] /\ r.to # "lo"
    BY <2>1, PortFacts, ForwardFacts
  <2>3. ip[c] # ip[d]
    BY <2>1 DEF Sharing
  <2>4. ~(ch = x.chain /\ r = x.rule)
    BY <1>11, <2>2, <2>3
  <2>5. \/ Contains(chains[ch], r)
        \/ stage[d] = "adding" /\ Pending(d, ch, r)
    BY DEF Complete
  <2>. QED
    BY <1>5, <1>6, <1>9, <2>1, <2>4, <2>5
<1>. QED
  BY <1>7, <1>8, <1>10, <1>12, <1>13, <1>14

(* Serve: the list is empty, so every rule is in place.                    *)
LEMMA ServeKeeps ==
    ASSUME PortsInv, NEW c \in Containers, Serve(c)
    PROVE  PortsInv'
<1> USE DEF PortsInv
<1>1. /\ stage[c] = "adding" /\ todo[c] = <<>> /\ stage' = [stage EXCEPT ![c] = "serving"]
      /\ UNCHANGED <<chains, lease, snap, active, ip, todo, orphans, crossed>>
  BY DEF Serve, leases
<1>2. /\ stage'[c] = "serving" /\ \A d \in Containers \ {c} : stage'[d] = stage[d]
      /\ \A d \in Containers : (IsLaunched(d))' <=> IsLaunched(d)
      /\ \A d \in Containers : stage'[d] = "removing" <=> stage[d] = "removing"
  BY <1>1 DEF PortsTypeOK, IsLaunched
<1>3. PortsTypeOK' /\ Copies' /\ NoRuleTwice'
  BY <1>1, <1>2 DEF PortsTypeOK, Stages, NoRuleTwice, Copies
<1>4. OwnRules'
  BY <1>1, <1>2 DEF OwnRules, Pending, Forward
<1>5. RulesOwned'
  BY <1>1, <1>2 DEF RulesOwned, Owns, Pending, Publishes
<1>6. Leased' /\ Sharing'
  BY <1>1, <1>2 DEF Leased, Sharing
<1>7. Complete'
  <2>1. \A ch : ~ \E r : Pending(c, ch, r)
    BY <1>1 DEF Pending, Contains
  <2>. QED
    BY <1>1, <1>2, <2>1 DEF Complete, Pending, Forward
<1>. QED
  BY <1>3, <1>4, <1>5, <1>6, <1>7

(* TargetExits: every rule of PREROUTING the container owns is on the list. *)
LEMMA TargetExitsKeeps ==
    ASSUME PortsInv, NEW c \in Containers, TargetExits(c)
    PROVE  PortsInv'
<1> USE DEF PortsInv
<1>1. /\ stage[c] = "serving" /\ stage' = [stage EXCEPT ![c] = "removing"]
      /\ todo' = [todo EXCEPT ![c] = RemoveList(c, ip[c])]
      /\ UNCHANGED <<chains, lease, snap, active, ip, orphans, crossed>>
  BY DEF TargetExits, leases
<1>2. ip[c] \in Pool /\ ip[c] # NoAddr
  BY <1>1, PortFacts DEF IsLaunched
<1>3. /\ RemoveList(c, ip[c]) \in Seq(Commands)
      /\ \A r : Contains(RemoveList(c, ip[c]), Cmd("PREROUTING", r))
                   <=> \E i \in DOMAIN Publish[c] : r = Forward(c, "PREROUTING", i, ip[c])
      /\ \A r : Contains(RemoveList(c, ip[c]), Cmd("OUTPUT", r)) => r.to = "lo"
  BY <1>2, Lists
<1>4. /\ stage'[c] = "removing" /\ todo'[c] = RemoveList(c, ip[c])
      /\ \A d \in Containers \ {c} : stage'[d] = stage[d] /\ todo'[d] = todo[d]
      /\ \A d \in Containers : (IsLaunched(d))' <=> IsLaunched(d)
  BY <1>1, <1>2 DEF PortsTypeOK, IsLaunched
<1>5. PortsTypeOK'
  BY <1>1, <1>2, <1>3, <1>4 DEF PortsTypeOK, Stages, Commands
<1>6. Copies' /\ NoRuleTwice'
  BY <1>1 DEF NoRuleTwice, Copies
<1>7. OwnRules'
  <2>1. ASSUME NEW ch \in Ways, NEW r \in Rules, Contains(todo'[c], Cmd(ch, r))
        PROVE  r.to = "lo" \/ (ch = "PREROUTING" /\ r.ip = ip[c])
    <3>1. CASE ch = "PREROUTING"
      BY <1>2, <1>3, <1>4, <2>1, <3>1, ForwardFacts
    <3>2. CASE ch = "OUTPUT"
      BY <1>3, <1>4, <2>1, <3>2
    <3>. QED
      BY <3>1, <3>2 DEF Ways
  <2>. QED
    BY <1>1, <1>4, <2>1 DEF OwnRules, Pending, Forward
<1>8. RulesOwned'
  <2>1. ASSUME NEW ch \in Ways, NEW r \in Rules, r.to = Way(ch), NEW d \in Containers,
               Owns(d, ch, r)
        PROVE  Owns(d, ch, r)'
    <3>1. CASE d = c
      <4>1. ASSUME ch = "PREROUTING" PROVE Contains(todo'[c], Cmd(ch, r))
        <5>1. PICK i \in DOMAIN Publish[c] : r = Forward(c, ch, i, ip[c])
          BY <2>1, <3>1, PublishedIsForward DEF Owns
        <5>. QED
          BY <1>3, <1>4, <4>1, <5>1
      <4>. QED
        BY <1>1, <1>4, <2>1, <3>1, <4>1 DEF Owns, Publishes, Pending
    <3>2. CASE d # c
      BY <1>1, <1>4, <2>1, <3>2 DEF Owns, Pending, Publishes
    <3>. QED
      BY <3>1, <3>2
  <2>. QED
    BY <1>1, <2>1 DEF RulesOwned
<1>9. Leased' /\ Sharing'
  BY <1>1, <1>4 DEF Leased, Sharing
<1>10. Complete'
  <2>1. ASSUME NEW d \in Containers, stage'[d] \in {"adding", "serving"}
        PROVE  d # c /\ stage[d] = stage'[d] /\ todo'[d] = todo[d]
    BY <1>4, <2>1
  <2>. QED
    BY <1>1, <2>1 DEF Complete, Pending, Forward
<1>. QED
  BY <1>5, <1>6, <1>7, <1>8, <1>9, <1>10

(* Release and SupervisorLost: a supervisor that is no more owns no rule,
   and what it leaves is an orphan.  Whoever loses its lease is crossed.   *)
LEMMA LeavingKeeps ==
    ASSUME PortsInv, NEW c \in Containers, NEW m \in LeaseMap, Injective(m), lease' = m,
           Gone(c), UNCHANGED chains, active' \subseteq active,
           crossed' = (crossed \cup Robbed(m)) \ {c},
           orphans' \in [Ways -> SUBSET Pool],
           \A ch \in Ways : orphans[ch] \subseteq orphans'[ch],
           \A ch \in Ways, r \in Rules : Contains(chains[ch], r) /\ Owns(c, ch, r)
               => r.ip \in orphans'[ch]
    PROVE  PortsInv'
<1> USE DEF PortsInv
<1>1. /\ stage' \in [Containers -> Stages] /\ stage'[c] = "down"
      /\ ip' \in [Containers -> Pool \cup {NoAddr}]
      /\ snap' \in [Containers -> LeaseMap] /\ Injective(snap'[c])
      /\ ~(IsLaunched(c))'
      /\ \A d \in Containers \ {c} :
            /\ stage'[d] = stage[d] /\ ip'[d] = ip[d] /\ todo'[d] = todo[d]
            /\ snap'[d] = snap[d] /\ ((IsLaunched(d))' <=> IsLaunched(d))
  BY EmptyLeaseFacts DEF Gone, PortsTypeOK, Stages, IsLaunched
<1>2. todo' \in [Containers -> Seq(Commands)]
  <2>1. todo \in [Containers -> Seq(Commands)] /\ todo' = [todo EXCEPT ![c] = <<>>]
    BY DEF PortsTypeOK, Commands, Gone
  <2>2. <<>> \in Seq(Commands)
    OBVIOUS
  <2>. QED
    BY <2>1, <2>2
<1>3. crossed' \subseteq Containers
  BY DEF Robbed, PortsTypeOK
<1>4. PortsTypeOK'
  BY <1>1, <1>2, <1>3 DEF PortsTypeOK, Commands
<1>5. Copies' /\ NoRuleTwice'
  BY <1>1 DEF Copies, NoRuleTwice
<1>6. OwnRules'
  <2>1. \A ch, r : ~Contains(todo'[c], Cmd(ch, r))
    BY DEF Gone, PortsTypeOK, Contains
  <2>. QED
    BY <1>1, <2>1 DEF OwnRules, Pending, Forward
<1>7. RulesOwned'
  <2> SUFFICES ASSUME NEW ch \in Ways, NEW r \in Rules, Contains(chains[ch], r),
                      r.ip \notin orphans'[ch]
               PROVE  \E d \in Containers : Owns(d, ch, r)'
    BY DEF RulesOwned
  <2>1. PICK d \in Containers : Owns(d, ch, r)
    BY DEF RulesOwned
  <2>2. d # c
    BY <2>1
  <2>3. Owns(d, ch, r)'
    BY <1>1, <2>1, <2>2 DEF Owns, Pending, Publishes
  <2>. QED
    BY <2>3
<1>8. Leased' /\ Sharing'
  BY <1>1 DEF Leased, Sharing, Robbed
<1>9. Complete'
  <2>1. ASSUME NEW d \in Containers \ crossed', stage'[d] \in {"adding", "serving"}
        PROVE  /\ d # c /\ d \notin crossed /\ stage[d] = stage'[d]
               /\ todo'[d] = todo[d] /\ ip'[d] = ip[d]
    BY <1>1, <2>1
  <2>. QED
    BY <2>1 DEF Complete, Pending, Forward
<1>. QED
  BY <1>4, <1>5, <1>6, <1>7, <1>8, <1>9

(* Release: nothing is left to delete, so c owns no rule but of OUTPUT.    *)
LEMMA ReleaseKeeps ==
    ASSUME PortsInv, NEW c \in Containers, Release(c)
    PROVE  PortsInv'
<1> DEFINE m == [snap[c] EXCEPT ![c] = NoAddr]
<1>1. /\ stage[c] = "removing" /\ todo[c] = <<>> /\ lease' = m
      /\ crossed' = (crossed \cup Robbed(lease')) \ {c}
      /\ orphans' = [orphans EXCEPT !["OUTPUT"] = @ \cup {ip[c]}]
      /\ active' \subseteq active /\ Gone(c) /\ UNCHANGED chains
  BY DEF Release
<1>2. PortsTypeOK /\ ip[c] \in Pool /\ snap[c] \in LeaseMap /\ Injective(snap[c])
  BY <1>1, PortFacts DEF PortsInv, IsLaunched, Copies
<1>3. m \in LeaseMap /\ Injective(m)
  BY <1>2, UpdateType, ReturnInjective
<1>4. crossed' = (crossed \cup Robbed(m)) \ {c}
  BY <1>1
<1> HIDE DEF m
<1>5. /\ orphans' \in [Ways -> SUBSET Pool]
      /\ \A ch \in Ways : orphans[ch] \subseteq orphans'[ch]
      /\ ip[c] \in orphans'["OUTPUT"]
  BY <1>1, <1>2 DEF PortsTypeOK, Ways
<1>6. ASSUME NEW ch \in Ways, NEW r, Owns(c, ch, r) PROVE r.ip \in orphans'[ch]
  <2>1. ch # "PREROUTING"
    BY <1>1, <1>6 DEF Owns, Pending, Contains
  <2>. QED
    BY <1>5, <1>6, <2>1 DEF Owns, Ways
<1>. QED
  BY <1>1, <1>3, <1>4, <1>5, <1>6, LeavingKeeps

(* SupervisorLost: the rules it owned are orphans.                         *)
LEMMA SupervisorLostKeeps ==
    ASSUME PortsInv, NEW c \in Containers, SupervisorLost(c)
    PROVE  PortsInv'
<1>1. /\ IsLaunched(c) /\ orphans' = [ch \in Ways |-> orphans[ch] \cup {ip[c]}]
      /\ crossed' = crossed \ {c} /\ Gone(c)
      /\ UNCHANGED <<chains, lease, active>>
  BY DEF SupervisorLost
<1>2. PortsTypeOK /\ ip[c] \in Pool /\ lease \in LeaseMap /\ Injective(lease)
  BY <1>1, PortFacts DEF PortsInv, Copies
<1>3. crossed' = (crossed \cup Robbed(lease)) \ {c}
  <2>1. Robbed(lease) = {}
    BY DEF Robbed
  <2>. QED
    BY <1>1, <2>1
<1>4. /\ orphans' \in [Ways -> SUBSET Pool]
      /\ \A ch \in Ways : orphans[ch] \subseteq orphans'[ch] /\ ip[c] \in orphans'[ch]
  BY <1>1, <1>2 DEF PortsTypeOK
<1>5. \A ch \in Ways, r \in Rules : Owns(c, ch, r) => r.ip \in orphans'[ch]
  BY <1>4 DEF Owns
<1>. QED
  BY <1>1, <1>2, <1>3, <1>4, <1>5, LeavingKeeps

(* Refresh: a supervisor whose lease it drops is crossed.                  *)
LEMMA RefreshKeeps ==
    ASSUME PortsInv, NEW c \in Containers, Refresh(c)
    PROVE  PortsInv'
<1> USE DEF PortsInv
<1>1. /\ lease' = [lease EXCEPT ![c] = NoAddr] /\ active' = active \ {c}
      /\ crossed' = crossed \cup Robbed(lease')
      /\ UNCHANGED <<chains, snap, ip, stage, todo, orphans>>
  BY DEF Refresh
<1>2. lease' \in LeaseMap /\ Injective(lease')
  BY <1>1, UpdateType, ReturnInjective DEF PortsTypeOK, Copies
<1>3. PortsTypeOK'
  BY <1>1, <1>2 DEF PortsTypeOK, Robbed, IsLaunched
<1>4. Copies' /\ NoRuleTwice'
  BY <1>1, <1>2 DEF Copies, NoRuleTwice
<1>5. OwnRules'
  BY <1>1 DEF OwnRules, Pending, Forward
<1>6. RulesOwned'
  BY <1>1 DEF RulesOwned, Owns, IsLaunched, Pending, Publishes
<1>7. Leased' /\ Sharing'
  BY <1>1 DEF Leased, Sharing, Robbed, IsLaunched
<1>8. Complete'
  BY <1>1 DEF Complete, Pending, Forward
<1>. QED
  BY <1>3, <1>4, <1>5, <1>6, <1>7, <1>8

(* TablesLost: no rule is left, and no supervisor.                         *)
LEMMA TablesLostKeeps ==
    ASSUME PortsInv, TablesLost
    PROVE  PortsInv'
<1> USE DEF PortsInv
<1>1. /\ orphans' = [ch \in Ways |-> {}] /\ chains' = [ch \in Chains |-> <<>>]
      /\ stage' = [c \in Containers |-> "down"] /\ todo' = [c \in Containers |-> <<>>]
      /\ ip' = [c \in Containers |-> NoAddr] /\ snap' = [c \in Containers |-> EmptyLease]
      /\ crossed' = {} /\ UNCHANGED <<lease, active>>
  BY DEF TablesLost
<1>2. /\ \A ch \in Chains : NoneTwice(chains'[ch]) /\ ~ \E r : Contains(chains'[ch], r)
      /\ Ways \subseteq Chains
  BY <1>1 DEF NoneTwice, Contains, Chains, Ways
<1>3. \A c \in Containers : stage'[c] = "down" /\ ~(IsLaunched(c))'
  BY <1>1 DEF IsLaunched
<1>4. PortsTypeOK'
  BY <1>1, <1>3, EmptyLeaseFacts DEF PortsTypeOK, Stages
<1>5. NoRuleTwice' /\ RulesOwned' /\ Copies'
  BY <1>1, <1>2, EmptyLeaseFacts DEF NoRuleTwice, RulesOwned, Copies
<1>6. OwnRules' /\ Leased' /\ Sharing' /\ Complete'
  BY <1>3 DEF OwnRules, Leased, Sharing, Complete
<1>. QED
  BY <1>4, <1>5, <1>6

(* The invariant holds in every state of every behaviour.                  *)
LEMMA PortsInvariant == PortsSpec => []PortsInv
<1>1. PortsInit => PortsInv
  <2> SUFFICES ASSUME PortsInit PROVE PortsInv
    OBVIOUS
  <2> USE DEF PortsInit
  <2>1. PortsTypeOK /\ Copies
    BY EmptyLeaseFacts DEF PortsTypeOK, Stages, Copies, IsLaunched
  <2>2. /\ \A ch \in Chains : NoneTwice(chains[ch]) /\ ~ \E r : Contains(chains[ch], r)
        /\ Ways \subseteq Chains
    BY DEF NoneTwice, Contains, Chains, Ways
  <2>3. NoRuleTwice /\ RulesOwned
    BY <2>2 DEF NoRuleTwice, RulesOwned
  <2>4. OwnRules /\ Leased /\ Sharing /\ Complete
    BY DEF OwnRules, Leased, Sharing, Complete, IsLaunched
  <2>. QED
    BY <2>1, <2>3, <2>4 DEF PortsInv
<1>2. PortsInv /\ [PortsNext]_portVars => PortsInv'
  <2> SUFFICES ASSUME PortsInv, [PortsNext]_portVars PROVE PortsInv'
    OBVIOUS
  <2>1. ASSUME NEW c \in Containers,
               \/ Launch(c) \/ AllocateOld(c) \/ AllocateNew(c) \/ LaunchEnds(c)
               \/ AddRule(c) \/ Serve(c) \/ TargetExits(c) \/ RemoveRule(c)
               \/ Release(c) \/ SupervisorLost(c) \/ Refresh(c)
        PROVE  PortsInv'
    BY <2>1, OpeningKeeps, AllocateOldKeeps, AllocateNewKeeps, AddRuleKeeps, ServeKeeps,
       TargetExitsKeeps, RemoveRuleKeeps, ReleaseKeeps, SupervisorLostKeeps, RefreshKeeps, Zenon
  <2>2. CASE TablesLost
    BY <2>2, TablesLostKeeps
  <2>3. CASE UNCHANGED portVars
    <3> USE DEF PortsInv
    <3>1. UNCHANGED <<chains, lease, snap, active, ip, stage, todo, orphans, crossed>>
      BY <2>3 DEF portVars, leases
    <3>2. PortsTypeOK' /\ Copies' /\ NoRuleTwice'
      BY <3>1 DEF PortsTypeOK, NoRuleTwice, Copies, IsLaunched
    <3>3. OwnRules'
      BY <3>1 DEF OwnRules, Pending, Forward
    <3>4. RulesOwned'
      BY <3>1 DEF RulesOwned, Owns, IsLaunched, Pending, Publishes
    <3>5. Leased' /\ Sharing' /\ Complete'
      BY <3>1 DEF Leased, Sharing, Complete, IsLaunched, Pending, Forward
    <3>. QED
      BY <3>2, <3>3, <3>4, <3>5
  <2>. QED
    BY <2>1, <2>2, <2>3 DEF PortsNext
<1>. QED
  BY <1>1, <1>2, PTL DEF PortsSpec

(* Every reachable state is well typed.                                    *)
THEOREM PortsTypeCorrect == PortsSpec => []PortsTypeOK
<1>1. PortsInv => PortsTypeOK
  BY DEF PortsInv
<1>. QED
  BY <1>1, PortsInvariant, PTL

(* A rule that leads a port of the host to an address has a supervisor that
   works with the address and publishes the port, and whoever shares the
   address without publishing it is crossed; unless the address is one for
   which nobody will delete the rules of the chain any more, as is, in
   OUTPUT, every address that a container has had.                         *)
THEOREM NoStrayRules == PortsSpec => []NoStrayRule
<1>1. PortsInv => NoStrayRule
  <2> SUFFICES ASSUME PortsInv, NEW ch \in Ways, NEW i \in DOMAIN chains[ch],
                      NEW r, r = chains[ch][i], r.ip \notin orphans[ch]
               PROVE  /\ \E c \in Containers : IsLaunched(c) /\ ip[c] = r.ip /\ Publishes(c, r)
                      /\ \A d \in Containers \ crossed :
                            IsLaunched(d) /\ ip[d] = r.ip => Publishes(d, r)
    BY DEF NoStrayRule
  <2>1. chains[ch] \in Seq(Rules)
    BY DEF PortsInv, PortsTypeOK, Chains, Ways
  <2>2. r \in Rules /\ Contains(chains[ch], r)
    BY <2>1 DEF Contains
  <2>3. PICK c \in Containers : Owns(c, ch, r)
    BY <2>2 DEF PortsInv, RulesOwned
  <2>4. IsLaunched(c) /\ ip[c] = r.ip /\ Publishes(c, r)
    BY <2>3 DEF Owns
  <2>5. \A d \in Containers \ crossed : IsLaunched(d) /\ ip[d] = r.ip => d = c
    BY <2>4 DEF PortsInv, Sharing
  <2>. QED
    BY <2>4, <2>5
<1>. QED
  BY <1>1, PortsInvariant, PTL

(* A packet to a published port, from outside or from the host itself,
   reaches the container that publishes it, whatever the order of the
   commands of all supervisors, unless an orphaned rule stands before.     *)
THEOREM PortsLeadToTheirPublisher == PortsSpec => []PortLeadsToPublisher
<1>1. PortsInv => PortLeadsToPublisher
  <2> SUFFICES ASSUME PortsInv, NEW c \in Containers \ crossed, stage[c] = "serving",
                      NEW ch \in Ways, NEW host \in Hosts(c),
                      ~ \E d \in Containers \ {c} : IsLaunched(d) /\ host \in Hosts(d)
               PROVE  Destination(ch, Way(ch), host) \in {ip[c]} \cup orphans[ch]
    BY DEF PortLeadsToPublisher
  <2> DEFINE rules == chains[ch]
             hits == {i \in DOMAIN rules : rules[i].to = Way(ch) /\ rules[i].host = host}
  <2>1. rules \in Seq(Rules)
    BY DEF PortsInv, PortsTypeOK, Chains, Ways
  <2>2. ip[c] \in Pool
    BY PortFacts DEF IsLaunched
  <2>3. hits # {}
    <3>1. PICK i \in DOMAIN Publish[c] : Publish[c][i].host = host
      BY DEF Hosts
    <3>2. Contains(rules, Forward(c, ch, i, ip[c]))
      BY DEF PortsInv, Complete
    <3>3. PICK k \in 1..Len(rules) : rules[k] = Forward(c, ch, i, ip[c])
      BY <3>2 DEF Contains
    <3>4. k \in hits
      BY <2>1, <3>1, <3>3 DEF Forward, Rule
    <3>. QED
      BY <3>4
  <2>4. ASSUME NEW k \in hits PROVE rules[k].ip \in {ip[c]} \cup orphans[ch]
    <3>1. k \in 1..Len(rules) /\ rules[k] \in Rules /\ rules[k].host = host
      BY <2>1
    <3>2. Contains(rules, rules[k])
      BY <3>1 DEF Contains
    <3> SUFFICES ASSUME rules[k].ip \notin orphans[ch] PROVE rules[k].ip = ip[c]
      OBVIOUS
    <3>3. PICK d \in Containers : Owns(d, ch, rules[k])
      BY <3>1, <3>2 DEF PortsInv, RulesOwned
    <3>4. IsLaunched(d) /\ host \in Hosts(d) /\ ip[d] = rules[k].ip
      BY <3>1, <3>3 DEF Owns, Publishes, Hosts
    <3>. QED
      BY <2>2, <3>4
  <2>5. hits \subseteq Nat
    BY <2>1
  <2> HIDE DEF hits
  <2>6. Min(hits) \in hits
    BY <2>3, <2>5, MinIsMember
  <2>7. Destination(ch, Way(ch), host) = rules[Min(hits)].ip
    BY <2>3 DEF Destination, hits
  <2>. QED
    BY <2>4, <2>6, <2>7
<1>. QED
  BY <1>1, PortsInvariant, PTL
=============================================================================
