---------------------------- MODULE MCLifecycle ----------------------------
(* Small instances of Lifecycle.                                           *)
EXTENDS Lifecycle, TLC

CONSTANTS c1, c2, c3, k1, k2

\* One run of a detached container, two commands at any interleaving, and
\* every fault: killed supervisors, aborted commands, failed set-ups, reboots.
Race == [ids |-> {c1}, detached |-> {c1}, removed |-> {}, policy |-> "always",
         commands |-> {"run", "ps", "stop", "rm"}, clis |-> {k1, k2},
         patient |-> FALSE, faults |-> {"setup", "kill", "abort", "reboot"},
         spawns |-> 1]

\* One run of a container, detached, detached with --rm, or in the foreground,
\* one command at a time, and faults.
OneRun == [ids |-> {c1, c2, c3}, detached |-> {c1, c2}, removed |-> {c2},
         policy |-> "always", commands |-> {"run", "ps", "stop", "rm"},
         clis |-> {k1}, patient |-> FALSE,
         faults |-> {"setup", "kill", "reboot"}, spawns |-> 1]

\* Every command, by users that wait for supervisors, with a reboot.
Waiting == [ids |-> {c1}, detached |-> {c1}, removed |-> {}, policy |-> "always",
         commands |-> {"run", "ps", "stop", "rm", "start", "restart", "autostart"},
         clis |-> {k1}, patient |-> TRUE, faults |-> {"reboot"}, spawns |-> 3]

RaceAndWaiting == {Race, Waiting}
OneRunOfEach   == {OneRun}
=============================================================================
