--------------------------- MODULE ContainerInit ---------------------------
(***************************************************************************)
(* crabtainer_init (crabtainer_init/src/main.rs), PID 1 of every           *)
(* container: it spawns the command, forwards SIGINT and SIGTERM to it,    *)
(* reaps every process the kernel hands over to it, and exits with the     *)
(* command's exit code, which the supervisor turns into a status.          *)
(*                                                                         *)
(* The main thread waits in waitpid(-1); a second thread forwards.  The    *)
(* kernel ignores a signal to a PID 1 that has no handler for it, merges   *)
(* equal pending signals, and kills whatever is left when PID 1 exits.     *)
(***************************************************************************)
EXTENDS Naturals

CONSTANTS
    Target,    \* the containerized command
    Orphans,   \* processes that lose their parent inside the container
    Codes,     \* exit codes of processes
    MaxSends   \* bound: signals sent to the container

ASSUME ContainerInitConstants ==
    /\ Target \notin Orphans
    /\ Codes \subseteq 0..255
    /\ MaxSends \in Nat

VARIABLES
    main,      \* where the main thread is
    exitCode,  \* what crabtainer_init exited with
    state,     \* the state of each process of the container
    end,       \* how each process ended
    pending,   \* signals caught and not forwarded yet
    got,       \* signals the target got while it ran
    asked,     \* signals sent to the container
    sends      \* how many were sent

vars == <<main, exitCode, state, end, pending, got, asked, sends>>

Processes == {Target} \cup Orphans
Signals   == {"SIGINT", "SIGTERM"}
Number    == [SIGINT |-> 2, SIGKILL |-> 9, SIGTERM |-> 15]

Exited(n)     == [how |-> "exited", n |-> n]
Signaled(sig) == [how |-> "signaled", n |-> Number[sig]]
Ends          == {Exited(n) : n \in Codes} \cup {Signaled(s) : s \in DOMAIN Number}
NotEnded      == [how |-> "running", n |-> 0]

TypeOK ==
    /\ main \in {"booting", "spawned", "waiting", "exited"}
    /\ exitCode \in 0..255
    /\ state \in [Processes -> {"none", "running", "zombie", "gone"}]
    /\ end \in [Processes -> Ends \cup {NotEnded}]
    /\ pending \subseteq asked
    /\ got \subseteq asked
    /\ asked \subseteq Signals
    /\ sends \in 0..MaxSends

Init ==
    /\ main = "booting"
    /\ exitCode = 0
    /\ state = [p \in Processes |-> "none"]
    /\ end = [p \in Processes |-> NotEnded]
    /\ pending = {}
    /\ got = {}
    /\ asked = {}
    /\ sends = 0

-----------------------------------------------------------------------------
(* crabtainer_init *)

\* child_process cannot set the container up, or the command cannot be
\* spawned.
BootFails(code) ==
    /\ main = "booting"
    /\ main' = "exited"
    /\ exitCode' = code
    /\ UNCHANGED <<state, end, pending, got, asked, sends>>

\* Command::spawn
SpawnTarget ==
    /\ main = "booting"
    /\ main' = "spawned"
    /\ state' = [state EXCEPT ![Target] = "running"]
    /\ UNCHANGED <<exitCode, end, pending, got, asked, sends>>

\* Signals::new and the forwarding thread.
RegisterSignals ==
    /\ main = "spawned"
    /\ main' = "waiting"
    /\ UNCHANGED <<exitCode, state, end, pending, got, asked, sends>>

\* Mutant: the match on the signal number misses SIGTERM.
ForwardOnlySigint(sig) ==
    /\ main = "waiting"
    /\ sig \in pending
    /\ pending' = pending \ {sig}
    /\ got' = IF sig = "SIGINT" THEN got \cup {sig} ELSE got
    /\ UNCHANGED <<main, exitCode, state, end, asked, sends>>

\* One round of the forwarding thread.
Forward(sig) ==
    /\ main = "waiting"
    /\ sig \in pending
    /\ pending' = pending \ {sig}
    /\ got' = IF state[Target] = "running" THEN got \cup {sig} ELSE got
    /\ UNCHANGED <<main, exitCode, state, end, asked, sends>>

\* 128 + signal for a process killed by a signal, cut to a byte.
ExitCodeOf(e) == (IF e.how = "signaled" THEN 128 + e.n ELSE e.n) % 256

\* Mutant: waitpid(target).
ReapTargetOnly(p) ==
    /\ main = "waiting"
    /\ p = Target
    /\ state[p] = "zombie"
    /\ main' = "exited"
    /\ exitCode' = ExitCodeOf(end[p])
    /\ state' = [q \in Processes |-> IF state[q] = "none" THEN "none" ELSE "gone"]
    /\ UNCHANGED <<end, pending, got, asked, sends>>

\* Mutant: the pid is not compared with the target's.
ReapFirst(p) ==
    /\ main = "waiting"
    /\ state[p] = "zombie"
    /\ main' = "exited"
    /\ exitCode' = ExitCodeOf(end[p])
    /\ state' = [q \in Processes |-> IF state[q] = "none" THEN "none" ELSE "gone"]
    /\ UNCHANGED <<end, pending, got, asked, sends>>

\* waitpid(-1) returns p: only the target ends the loop.
Reap(p) ==
    /\ main = "waiting"
    /\ state[p] = "zombie"
    /\ IF p = Target
       THEN /\ main' = "exited"
            /\ exitCode' = ExitCodeOf(end[p])
            /\ state' = [q \in Processes |->
                            IF state[q] = "none" THEN "none" ELSE "gone"]
       ELSE /\ state' = [state EXCEPT ![p] = "gone"]
            /\ UNCHANGED <<main, exitCode>>
    /\ UNCHANGED <<end, pending, got, asked, sends>>

-----------------------------------------------------------------------------
(* The container and the host *)

\* A process of the container loses its parent.
Orphaned(o) ==
    /\ state[Target] = "running"
    /\ state[o] = "none"
    /\ state' = [state EXCEPT ![o] = "running"]
    /\ UNCHANGED <<main, exitCode, end, pending, got, asked, sends>>

\* A process exits, is killed for lack of memory, or dies of a signal.
Ending(p, e) ==
    /\ state[p] = "running"
    /\ e.how = "signaled" /\ e # Signaled("SIGKILL") =>
           p = Target /\ \E sig \in got : e = Signaled(sig)
    /\ state' = [state EXCEPT ![p] = "zombie"]
    /\ end' = [end EXCEPT ![p] = e]
    /\ UNCHANGED <<main, exitCode, pending, got, asked, sends>>

\* stop, restart, or the foreground supervisor's own forwarding thread.
Send(sig) ==
    /\ main # "exited"
    /\ sends < MaxSends
    /\ sends' = sends + 1
    /\ asked' = asked \cup {sig}
    /\ pending' = IF main = "waiting" THEN pending \cup {sig} ELSE pending
    /\ UNCHANGED <<main, exitCode, state, end, got>>

\* The namespace is gone.
Over == main = "exited" /\ UNCHANGED vars

Next ==
    \/ \E code \in {1, 127} : BootFails(code)
    \/ SpawnTarget
    \/ RegisterSignals
    \/ \E sig \in Signals : Forward(sig) \/ Send(sig)
    \/ \E p \in Processes : Reap(p) \/ \E e \in Ends : Ending(p, e)
    \/ \E o \in Orphans : Orphaned(o)
    \/ Over

Spec == Init /\ [][Next]_vars

\* The kernel schedules both threads of crabtainer_init.
Fairness ==
    /\ WF_vars(SpawnTarget)
    /\ WF_vars(RegisterSignals)
    /\ WF_vars(\E p \in Processes : Reap(p))
    /\ \A sig \in Signals : WF_vars(Forward(sig))

FairSpec == Spec /\ Fairness

-----------------------------------------------------------------------------
\* The status a detached supervisor writes for an exit code.
StatusOf(n) == CASE n = 0   -> "Exited"
                 [] n = 143 -> "Stopped"
                 [] OTHER   -> "Error"

(* crabtainer_init exits for the end of the target alone, after it (the
   kernel would kill the target with its PID 1), and reports that end:
   whatever processes it reaped before, and in whatever order, the status is
   Stopped exactly when the target died of SIGTERM (or says so itself with
   143) and Exited exactly when it returned 0.                             *)
ReportsTheTarget ==
    main = "exited" /\ state[Target] # "none" =>
        /\ end[Target] # NotEnded
        /\ state[Target] = "gone"
        /\ exitCode = ExitCodeOf(end[Target])
        /\ StatusOf(exitCode) = "Stopped" <=>
               end[Target] \in {Signaled("SIGTERM"), Exited(143)}
        /\ StatusOf(exitCode) = "Exited" <=> end[Target] = Exited(0)

(* Every zombie is reaped, the target's and the orphans'.                  *)
ZombiesAreReaped ==
    \A p \in Processes : state[p] = "zombie" ~> state[p] = "gone"

(* A signal that was caught reaches the target, unless the target ends
   first.                                                                  *)
CaughtIsForwarded ==
    \A sig \in Signals :
        sig \in pending ~> sig \in got \/ state[Target] # "running"
=============================================================================
