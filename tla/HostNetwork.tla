---------------------------- MODULE HostNetwork ----------------------------
(***************************************************************************)
(* The network of the host (engine/runtime/network.rs): every launch first *)
(* makes sure that the bridge and the NAT rules exist                      *)
(* (init_global_network, add_iptables_rules) and later plugs its container *)
(* into the bridge with a veth pair (attach_container).                    *)
(*                                                                         *)
(* The launches are processes of their own; what they share is the kernel: *)
(* links, addresses and rules.  A step is one netlink or iptables call.    *)
(***************************************************************************)
EXTENDS Naturals

CONSTANTS
    Containers,
    NameOf,      \* six digits of a container's id, which name its veth pair
    NumRules     \* rules of the host network, the chain CRABTAINER included

ASSUME NumRulesIsPositive == NumRules \in Nat \ {0}

VARIABLES
    bridge,  \* how far the bridge is
    rules,   \* how often each rule is in its chain
    veth,    \* the veth pair each container's launch made: where its inner end is
    master,  \* is the outer end plugged into the bridge?
    inner,   \* is the inner end configured, or a thread at it?
    stage,   \* where the supervisor of each container is
    at,      \* the rule it looks at
    alive,   \* does the container's init run?
    broken,  \* history: a set-up of this bridge broke off half way
    mishap   \* history: an attach of this container met a fault

vars == <<bridge, rules, veth, master, inner, stage, at, alive, broken, mishap>>

Rules == 1..NumRules

SettingUp == {"adding", "added", "addressed", "checking", "appending"}
Attaching == {"cloned", "pairing", "paired", "plugged", "opened"}
Stages    == {"down", "starting", "ready", "attached", "unattached", "lost"}
                 \cup SettingUp \cup Attaching

TypeOK ==
    /\ bridge \in {"none", "added", "addressed", "up"}
    /\ rules \in [Rules -> Nat]
    /\ veth \in [Containers -> {"none", "host", "netns"}]
    /\ master \in [Containers -> BOOLEAN]
    /\ inner \in [Containers -> {"none", "held", "up"}]
    /\ stage \in [Containers -> Stages]
    /\ at \in [Containers -> 1..(NumRules + 1)]
    /\ alive \in [Containers -> BOOLEAN]
    /\ broken \in BOOLEAN
    /\ mishap \in [Containers -> BOOLEAN]

Init ==
    /\ bridge = "none"
    /\ rules = [r \in Rules |-> 0]
    /\ veth = [c \in Containers |-> "none"]
    /\ master = [c \in Containers |-> FALSE]
    /\ inner = [c \in Containers |-> "none"]
    /\ stage = [c \in Containers |-> "down"]
    /\ at = [c \in Containers |-> 1]
    /\ alive = [c \in Containers |-> FALSE]
    /\ broken = FALSE
    /\ mishap = [c \in Containers |-> FALSE]

To(c, l) == stage' = [stage EXCEPT ![c] = l]

host      == <<bridge, rules>>
ends      == <<veth, master, inner>>
container == <<ends, alive>>
history   == <<broken, mishap>>

-----------------------------------------------------------------------------
(* init_global_network *)

Namesakes(c) == {d \in Containers : NameOf[d] = NameOf[c]}

\* The name of the container's pair is in use.
Taken(c) == \E d \in Namesakes(c) : veth[d] # "none"

\* Launched, and yet to add its pair.
Early(c) == stage[c] \in {"starting", "ready", "cloned", "pairing"} \cup SettingUp

\* Containers whose pairs want one name at the same time meet: all of them when
\* none has it yet, the one launched last when another has.
Launch(c) ==
    /\ stage[c] = "down"
    /\ ~alive[c]
    /\ To(c, "starting")
    /\ at' = [at EXCEPT ![c] = 1]
    /\ LET early == {d \in Namesakes(c) : Early(d)}
       IN  mishap' = [d \in Containers |->
                         IF d = c THEN Taken(c) \/ early # {} ELSE mishap[d] \/ d \in early]
    /\ UNCHANGED <<host, container, broken>>

\* An existing bridge is taken for an initialized network.
FindBridge(c) ==
    /\ stage[c] = "starting"
    /\ To(c, IF bridge = "none" THEN "adding" ELSE "ready")
    /\ UNCHANGED <<host, container, at, history>>

\* Mutant: a bridge that exists by now is as good as a new one.
AddBridgeTolerant(c) ==
    /\ stage[c] = "adding"
    /\ bridge' = IF bridge = "none" THEN "added" ELSE bridge
    /\ To(c, "added")
    /\ UNCHANGED <<rules, container, at, history>>

\* The kernel refuses to add a second bridge of the same name, and the launch
\* fails.
AddBridge(c) ==
    /\ stage[c] = "adding"
    /\ IF bridge = "none"
       THEN bridge' = "added" /\ To(c, "added")
       ELSE UNCHANGED bridge /\ To(c, "down")
    /\ UNCHANGED <<rules, container, at, history>>

AddAddress(c) ==
    /\ stage[c] = "added"
    /\ bridge' = "addressed"
    /\ To(c, "addressed")
    /\ UNCHANGED <<rules, container, at, history>>

\* Mutant: the bridge is not brought up.
SetUpSkipped(c) ==
    /\ stage[c] = "addressed"
    /\ To(c, "checking")
    /\ UNCHANGED <<host, container, at, history>>

SetUp(c) ==
    /\ stage[c] = "addressed"
    /\ bridge' = "up"
    /\ To(c, "checking")
    /\ UNCHANGED <<rules, container, at, history>>

(* add_iptables_rules: exists and append are two calls *)

CheckRule(c) ==
    /\ stage[c] = "checking"
    /\ at[c] <= NumRules
    /\ IF rules[at[c]] = 0
       THEN To(c, "appending") /\ UNCHANGED at
       ELSE at' = [at EXCEPT ![c] = @ + 1] /\ UNCHANGED stage
    /\ UNCHANGED <<host, container, history>>

AppendRule(c) ==
    /\ stage[c] = "appending"
    /\ rules' = [rules EXCEPT ![at[c]] = @ + 1]
    /\ at' = [at EXCEPT ![c] = @ + 1]
    /\ To(c, "checking")
    /\ UNCHANGED <<bridge, container, history>>

RulesDone(c) ==
    /\ stage[c] = "checking"
    /\ at[c] > NumRules
    /\ at' = [at EXCEPT ![c] = 1]
    /\ To(c, "ready")
    /\ UNCHANGED <<host, container, history>>

-----------------------------------------------------------------------------
(* attach_container *)

Clone(c) ==
    /\ stage[c] = "ready"
    /\ alive' = [alive EXCEPT ![c] = TRUE]
    /\ To(c, "cloned")
    /\ UNCHANGED <<host, ends, at, history>>

\* /proc/<pid>/ns/net is gone when the container is.
FindNetns(c) ==
    /\ stage[c] = "cloned"
    /\ To(c, IF alive[c] THEN "pairing" ELSE "unattached")
    /\ UNCHANGED <<host, container, at, history>>

\* Mutant: a pair of that name, whosever it is, is replaced.
AddVethReplacing(c) ==
    /\ stage[c] = "pairing"
    /\ veth' = [d \in Containers |->
                   IF d = c THEN "host" ELSE IF d \in Namesakes(c) THEN "none" ELSE veth[d]]
    /\ To(c, "paired")
    /\ UNCHANGED <<host, master, inner, alive, at, history>>

\* The name is six digits of the container's id: a pair that was left behind, or
\* that of a container with the same digits, makes the call fail, which is logged.
AddVeth(c) ==
    /\ stage[c] = "pairing"
    /\ IF Taken(c)
       THEN UNCHANGED veth /\ To(c, "unattached")
       ELSE veth' = [veth EXCEPT ![c] = "host"] /\ To(c, "paired")
    /\ UNCHANGED <<host, master, inner, alive, at, history>>

\* Without a bridge there is no index to look up, and the pair stays.
PlugIn(c) ==
    /\ stage[c] = "paired"
    /\ IF bridge = "none"
       THEN UNCHANGED master /\ To(c, "unattached")
       ELSE master' = [master EXCEPT ![c] = TRUE] /\ To(c, "plugged")
    /\ UNCHANGED <<host, veth, inner, alive, at, history>>

\* The open file keeps the namespace alive from here on.
OpenNetns(c) ==
    /\ stage[c] = "plugged"
    /\ To(c, IF alive[c] THEN "opened" ELSE "unattached")
    /\ UNCHANGED <<host, container, at, history>>

\* The rest is left to a thread in the namespace, which nobody waits for.
MoveInnerEnd(c) ==
    /\ stage[c] = "opened"
    /\ veth' = [veth EXCEPT ![c] = "netns"]
    /\ inner' = [inner EXCEPT ![c] = "held"]
    /\ To(c, "attached")
    /\ UNCHANGED <<host, master, alive, at, history>>

\* A network namespace nobody holds is destroyed, with the pair that has an
\* end in it.
Unheld(c) ==
    LET gone == veth[c] = "netns"
    IN  /\ veth' = [veth EXCEPT ![c] = IF gone THEN "none" ELSE @]
        /\ master' = [master EXCEPT ![c] = @ /\ ~gone]

\* The thread lets go of the namespace.
LetGo(c) == IF alive[c] THEN UNCHANGED <<veth, master>> ELSE Unheld(c)

\* The thread brings the inner end up, with its address and route, and ends.
Configure(c) ==
    /\ inner[c] = "held"
    /\ inner' = [inner EXCEPT ![c] = IF alive[c] THEN "up" ELSE "none"]
    /\ LetGo(c)
    /\ UNCHANGED <<host, stage, alive, at, history>>

-----------------------------------------------------------------------------
(* Containers end, and what may go wrong *)

Attached(c) == stage[c] \in {"attached", "unattached"}

ContainerExits(c) ==
    /\ alive[c]
    /\ alive' = [alive EXCEPT ![c] = FALSE]
    /\ IF inner[c] = "held"
       THEN UNCHANGED ends
       ELSE inner' = [inner EXCEPT ![c] = "none"] /\ Unheld(c)
    /\ UNCHANGED <<host, stage, at, history>>

\* The thread ends with its process.
ThreadEnds(c) ==
    IF inner[c] = "held"
    THEN inner' = [inner EXCEPT ![c] = "none"] /\ LetGo(c)
    ELSE UNCHANGED ends

SupervisorEnds(c) ==
    /\ Attached(c) \/ stage[c] = "lost"
    /\ ~alive[c]
    /\ To(c, "down")
    /\ ThreadEnds(c)
    /\ UNCHANGED <<host, alive, at, history>>

\* The set-up of this launch ends before it is complete.
BreaksOff(c) == broken' = (broken \/ stage[c] \in SettingUp \ {"adding"})

Meets(c) == mishap' = [mishap EXCEPT ![c] = TRUE]

\* A netlink or iptables call fails.  Before the clone the launch fails;
\* after it the error is logged.
CallFails(c) ==
    /\ \/ stage[c] \in SettingUp /\ To(c, "down")
       \/ stage[c] \in {"pairing", "paired", "opened"} /\ To(c, "unattached")
    /\ at' = [at EXCEPT ![c] = 1]
    /\ BreaksOff(c)
    /\ Meets(c)
    /\ UNCHANGED <<host, container>>

\* So does one of the thread's; its error is dropped.
ConfigureFails(c) ==
    /\ inner[c] = "held"
    /\ ThreadEnds(c)
    /\ Meets(c)
    /\ UNCHANGED <<host, stage, alive, at, broken>>

SupervisorKilled(c) ==
    /\ stage[c] \notin {"down", "lost"}
    /\ To(c, "lost")
    /\ at' = [at EXCEPT ![c] = 1]
    /\ ThreadEnds(c)
    /\ BreaksOff(c)
    /\ Meets(c)
    /\ UNCHANGED <<host, alive>>

Reboot ==
    /\ bridge' = "none"
    /\ rules' = [r \in Rules |-> 0]
    /\ veth' = [c \in Containers |-> "none"]
    /\ master' = [c \in Containers |-> FALSE]
    /\ inner' = [c \in Containers |-> "none"]
    /\ stage' = [c \in Containers |-> "down"]
    /\ at' = [c \in Containers |-> 1]
    /\ alive' = [c \in Containers |-> FALSE]
    /\ broken' = FALSE
    /\ mishap' = [c \in Containers |-> FALSE]

\* An administrator deletes the bridge, while nobody sets it up; the rules stay.
BridgeDeleted ==
    /\ bridge # "none"
    /\ \A c \in Containers : stage[c] \notin SettingUp
    /\ bridge' = "none"
    /\ master' = [c \in Containers |-> FALSE]
    /\ broken' = FALSE
    /\ mishap' = [c \in Containers |-> mishap[c] \/ stage[c] # "down"]
    /\ UNCHANGED <<rules, veth, inner, stage, at, alive>>

Next ==
    \/ \E c \in Containers :
          \/ Launch(c) \/ FindBridge(c) \/ AddBridge(c) \/ AddAddress(c)
          \/ SetUp(c) \/ CheckRule(c) \/ AppendRule(c) \/ RulesDone(c)
          \/ Clone(c) \/ FindNetns(c) \/ AddVeth(c) \/ PlugIn(c)
          \/ OpenNetns(c) \/ MoveInnerEnd(c) \/ Configure(c)
          \/ ContainerExits(c) \/ SupervisorEnds(c)
          \/ CallFails(c) \/ ConfigureFails(c) \/ SupervisorKilled(c)
    \/ Reboot
    \/ BridgeDeleted

Spec == Init /\ [][Next]_vars

-----------------------------------------------------------------------------
(* The check and the append of a rule are two calls without a lock; still no
   rule is installed twice, whatever launches meet and wherever one of them
   breaks off: adding the bridge lets one launch through.                  *)
NoRuleTwice == \A r \in Rules : rules[r] <= 1

(* "Containers reach the outside world through iptables NAT rules installed
   when the network is set up": while no launch is setting it up and none
   has broken off doing so, a running container on the bridge finds it up,
   with every rule in place.  Launches that meet, bridges that are deleted
   under the rules and set up again do not matter.                         *)
OutboundWorks ==
    ~broken /\ (\A d \in Containers : stage[d] \notin SettingUp \ {"adding"}) =>
        \A c \in Containers : stage[c] = "attached" /\ alive[c] /\ master[c] =>
            bridge = "up" /\ \A r \in Rules : rules[r] > 0

(* "Containers restarting are re-attached to the same bridge": when the
   supervisor is through with attach_container, a container that runs has
   its end of a pair that is plugged into the bridge, configured unless the
   thread is still at it.  Excepted are launches that a fault hit, and those
   that met another container whose id has the same six digits: the pair was
   there when the container was launched (left behind, or in use), or both
   were on their way to it.  One that has its pair keeps it, whatever
   containers of the same name are launched later.                         *)
RunningIsAttached ==
    \A c \in Containers : Attached(c) /\ alive[c] /\ ~mishap[c] =>
        veth[c] = "netns" /\ master[c] /\ inner[c] # "none"
=============================================================================
