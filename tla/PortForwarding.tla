--------------------------- MODULE PortForwarding ---------------------------
(***************************************************************************)
(* Published ports (engine/runtime/network.rs, add_port_forwarding and     *)
(* remove_port_forwarding, and their calls in container.rs): the iptables  *)
(* rules that lead a port of the host to a container, from outside         *)
(* (PREROUTING) and from the host itself (OUTPUT), the address the         *)
(* container works with meanwhile, and the order in which both are given   *)
(* up.                                                                     *)
(*                                                                         *)
(* Every supervisor edits the same chains, one iptables command at a time. *)
(* The first rule of a chain that matches a packet wins.  Every supervisor *)
(* reads the leases of ipam.json when it begins, and writes them all back  *)
(* when it allocates and, as old as they are then, when it releases.  A    *)
(* refresh reads and writes them in one step, as persist_sync is one; what *)
(* comes in between is in Ipam and PersistSync.  A container has one       *)
(* supervisor at a time (Lifecycle: OneInstance).                          *)
(***************************************************************************)
EXTENDS Leases, SequencesExt

CONSTANTS
    Ports,   \* what -p may name as a port
    Publish, \* container -> its ports, each [host, container]
    Fallible \* containers whose supervisor may be killed or fail

ASSUME PublishConstants ==
    /\ Publish \in [Containers -> Seq([host : Ports, container : Ports])]
    /\ Fallible \subseteq Containers

NoPort == 0

VARIABLES
    chains,  \* chain -> its rules, in order
    lease,   \* the allocations in ipam.json
    snap,    \* the copy of them that each supervisor holds
    active,  \* containers whose config.json says Active
    ip,      \* container -> the address its supervisor works with
    stage,   \* where the supervisor of each container is
    todo,    \* the iptables commands it still has to run
    orphans, \* history: chain -> addresses with rules nobody will remove
    crossed  \* history: launched containers whose lease another process dropped,
             \* and those that work with the address of such a one

leases   == <<lease, snap>>
portVars == <<chains, leases, active, ip, stage, todo, orphans, crossed>>

Chains == {"PREROUTING", "OUTPUT", "POSTROUTING", "FORWARD"}
Stages == {"down", "opened", "adding", "serving", "removing"}

\* The two chains that lead a port to a container, and what a packet must be
\* sent to for their rules to match.
Ways    == {"PREROUTING", "OUTPUT"}
Way(ch) == IF ch = "PREROUTING" THEN "any" ELSE "127.0.0.1"

\* An iptables rule: "to" is what a packet must be sent to for the rule to
\* match, "host" the port it must have (NoPort: any), "ip" and "port" name the
\* container.
Rule(to, host, a, port) == [to |-> to, host |-> host, ip |-> a, port |-> port]

Hosts(c)  == {Publish[c][i].host : i \in DOMAIN Publish[c]}
Targets   == UNION {{Publish[c][i].container : i \in DOMAIN Publish[c]} : c \in Containers}
Rules     == [to : {"any", "127.0.0.1", "lo", "container"},
              host : (UNION {Hosts(c) : c \in Containers}) \cup {NoPort},
              ip : Pool, port : Targets]

\* The supervisor works with an address.
IsLaunched(c) == stage[c] \in {"adding", "serving", "removing"}

\* c forwards a port of the host as rule r does.
Publishes(c, r) ==
    \E i \in DOMAIN Publish[c] : Publish[c][i] = [host |-> r.host, container |-> r.port]

\* A supervisor's own copy keeps the address it works with.
PortsTypeOK ==
    /\ chains \in [Chains -> Seq(Rules)]
    /\ lease \in LeaseMap
    /\ snap \in [Containers -> LeaseMap]
    /\ active \subseteq Containers
    /\ stage \in [Containers -> Stages]
    /\ todo \in [Containers -> Seq([chain : Chains, rule : Rules])]
    /\ ip \in [Containers -> Pool \cup {NoAddr}]
    /\ \A c \in Containers : IsLaunched(c) => ip[c] # NoAddr /\ snap[c][c] = ip[c]
    /\ orphans \in [Ways -> SUBSET Pool]
    /\ crossed \subseteq Containers

PortsInit ==
    /\ chains = [ch \in Chains |-> <<>>]
    /\ lease = EmptyLease
    /\ snap = [c \in Containers |-> EmptyLease]
    /\ active = {}
    /\ ip = [c \in Containers |-> NoAddr]
    /\ stage = [c \in Containers |-> "down"]
    /\ todo = [c \in Containers |-> <<>>]
    /\ orphans = [ch \in Ways |-> {}]
    /\ crossed = {}

-----------------------------------------------------------------------------
(* What one call does to the tables, as a list of (chain, rule) *)

Cmd(ch, r) == [chain |-> ch, rule |-> r]

Added(pair, a) ==
    << Cmd("PREROUTING", Rule("any", pair.host, a, pair.container)),
       Cmd("OUTPUT", Rule("127.0.0.1", pair.host, a, pair.container)),
       Cmd("POSTROUTING", Rule("container", NoPort, a, pair.container)) >>

\* Mutant: the rule deleted from PREROUTING is not the one that was added.
RemovedLo(pair, a) ==
    << Cmd("PREROUTING", Rule("lo", pair.host, a, pair.container)),
       Cmd("FORWARD", Rule("container", NoPort, a, pair.container)),
       Cmd("OUTPUT", Rule("lo", pair.host, a, pair.container)) >>

\* The rule deleted from OUTPUT is not the one that was added, the one deleted
\* from FORWARD never was, and the one in POSTROUTING stays.
Removed(pair, a) ==
    << Cmd("PREROUTING", Rule("any", pair.host, a, pair.container)),
       Cmd("FORWARD", Rule("container", NoPort, a, pair.container)),
       Cmd("OUTPUT", Rule("lo", pair.host, a, pair.container)) >>

AddList(c, a)    == FlattenSeq([i \in DOMAIN Publish[c] |-> Added(Publish[c][i], a)])
RemoveList(c, a) == FlattenSeq([i \in DOMAIN Publish[c] |-> Removed(Publish[c][i], a)])

-----------------------------------------------------------------------------
(* Leases under way *)

\* Supervisors that work with an address whose lease is lost when somebody
\* writes m over ipam.json.
Robbed(m) == {d \in Containers : IsLaunched(d) /\ lease[d] = ip[d] /\ m[d] # ip[d]}

\* c works with a from now on.  When m, what ipam.json says then, has another
\* lease for it, or a container that lost its lease works with a, all that work
\* with a are crossed.
Works(c, a, m) ==
    LET robbed  == (crossed \ {c}) \cup Robbed(m) \cup (IF m[c] = a THEN {} ELSE {c})
        sharing == {c} \cup {d \in Containers : IsLaunched(d) /\ ip[d] = a}
    IN  crossed' = IF sharing \cap robbed = {} THEN robbed ELSE robbed \cup sharing

-----------------------------------------------------------------------------
(* A supervisor *)

\* run, start, or autostart: the supervisor reads ipam.json (Ipam::new).
Launch(c) ==
    /\ stage[c] = "down"
    /\ stage' = [stage EXCEPT ![c] = "opened"]
    /\ snap' = [snap EXCEPT ![c] = lease]
    /\ UNCHANGED <<chains, lease, active, ip, todo, orphans, crossed>>

\* The rules are next.  The config says Active by then; that of a container in
\* the foreground when they are there.
Add(c, a) ==
    /\ ip' = [ip EXCEPT ![c] = a]
    /\ todo' = [todo EXCEPT ![c] = AddList(c, a)]
    /\ stage' = [stage EXCEPT ![c] = "adding"]
    /\ active' = active \cup {c}

\* allocate: the lease that the copy has for the container; nothing is written.
AllocateOld(c) ==
    /\ stage[c] = "opened"
    /\ snap[c][c] # NoAddr
    /\ Add(c, snap[c][c])
    /\ Works(c, snap[c][c], lease)
    /\ UNCHANGED <<chains, leases, orphans>>

\* Mutant: the address is written and not kept in the copy.
AllocateForgotten(c) ==
    /\ stage[c] = "opened"
    /\ snap[c][c] = NoAddr
    /\ \E a \in FreeAddrs(snap[c]) :
          /\ lease' = [snap[c] EXCEPT ![c] = a]
          /\ Add(c, a)
          /\ Works(c, a, lease')
    /\ UNCHANGED <<chains, snap, orphans>>

\* allocate: the first address that is free in the copy, which is written over
\* whatever ipam.json is by now.
AllocateNew(c) ==
    /\ stage[c] = "opened"
    /\ snap[c][c] = NoAddr
    /\ \E a \in FreeAddrs(snap[c]) :
          /\ \A b \in FreeAddrs(snap[c]) : a <= b
          /\ lease' = [snap[c] EXCEPT ![c] = a]
          /\ snap' = [snap EXCEPT ![c] = lease']
          /\ Add(c, a)
          /\ Works(c, a, lease')
    /\ UNCHANGED <<chains, orphans>>

\* No address is free, or the launch fails before.
LaunchEnds(c) ==
    /\ stage[c] = "opened"
    /\ stage' = [stage EXCEPT ![c] = "down"]
    /\ snap' = [snap EXCEPT ![c] = EmptyLease]
    /\ UNCHANGED <<chains, lease, active, ip, todo, orphans, crossed>>

\* if !exists { append }
AddRule(c) ==
    /\ stage[c] = "adding"
    /\ todo[c] # <<>>
    /\ LET x == Head(todo[c])
       IN  chains' = [chains EXCEPT ![x.chain] =
                         IF Contains(@, x.rule) THEN @ ELSE Append(@, x.rule)]
    /\ todo' = [todo EXCEPT ![c] = Tail(@)]
    /\ UNCHANGED <<leases, active, ip, stage, orphans, crossed>>

Serve(c) ==
    /\ stage[c] = "adding"
    /\ todo[c] = <<>>
    /\ stage' = [stage EXCEPT ![c] = "serving"]
    /\ UNCHANGED <<chains, leases, active, ip, todo, orphans, crossed>>

\* Mutant: the address is given back before the rules go.
TargetExitsReleasing(c) ==
    /\ stage[c] = "serving"
    /\ stage' = [stage EXCEPT ![c] = "removing"]
    /\ todo' = [todo EXCEPT ![c] = RemoveList(c, ip[c])]
    /\ lease' = [snap[c] EXCEPT ![c] = NoAddr]
    /\ crossed' = crossed \cup (Robbed(lease') \ {c})
    /\ UNCHANGED <<chains, snap, active, ip, orphans>>

\* waitpid returned.
TargetExits(c) ==
    /\ stage[c] = "serving"
    /\ stage' = [stage EXCEPT ![c] = "removing"]
    /\ todo' = [todo EXCEPT ![c] = RemoveList(c, ip[c])]
    /\ UNCHANGED <<chains, leases, active, ip, orphans, crossed>>

\* if exists { delete }: iptables deletes the first such rule.
RemoveRule(c) ==
    /\ stage[c] = "removing"
    /\ todo[c] # <<>>
    /\ LET x == Head(todo[c])
       IN  chains' = [chains EXCEPT ![x.chain] = RemoveFirst(@, x.rule)]
    /\ todo' = [todo EXCEPT ![c] = Tail(@)]
    /\ UNCHANGED <<leases, active, ip, stage, orphans, crossed>>

\* The supervisor is no more.
Gone(c) ==
    /\ stage' = [stage EXCEPT ![c] = "down"]
    /\ ip' = [ip EXCEPT ![c] = NoAddr]
    /\ todo' = [todo EXCEPT ![c] = <<>>]
    /\ snap' = [snap EXCEPT ![c] = EmptyLease]

\* The address is given back after the list is through, by writing a copy as old
\* as the container over ipam.json, and the final status is written.  The rules
\* of OUTPUT have not been removed, and never will.
Release(c) ==
    /\ stage[c] = "removing"
    /\ todo[c] = <<>>
    /\ lease' = [snap[c] EXCEPT ![c] = NoAddr]
    /\ crossed' = (crossed \cup Robbed(lease')) \ {c}
    /\ orphans' = [orphans EXCEPT !["OUTPUT"] = @ \cup {ip[c]}]
    /\ active' = active \ {c}
    /\ Gone(c)
    /\ UNCHANGED chains

\* The supervisor is killed, or panics on an iptables error, with rules and
\* lease as they are.
SupervisorLost(c) ==
    /\ c \in Fallible
    /\ IsLaunched(c)
    /\ orphans' = [ch \in Ways |-> orphans[ch] \cup {ip[c]}]
    /\ crossed' = crossed \ {c}
    /\ Gone(c)
    /\ UNCHANGED <<chains, lease, active>>

-----------------------------------------------------------------------------
(* refresh_container_states, and the host *)

\* A config says Active and the process is gone: there is no supervisor, or one
\* that has not yet cloned the container (autostart), or one that removes its
\* rules, for the config says Active until it has ended.  The address is given
\* back; a refresh does not know of the ports.
Refresh(c) ==
    /\ c \in active
    /\ stage[c] \in {"down", "opened", "removing"}
    /\ active' = active \ {c}
    /\ lease' = [lease EXCEPT ![c] = NoAddr]
    /\ crossed' = crossed \cup Robbed(lease')
    /\ UNCHANGED <<chains, snap, ip, stage, todo, orphans>>

\* The tables do not survive a reboot; leases and configs do.
TablesLost ==
    /\ orphans' = [ch \in Ways |-> {}]
    /\ chains' = [ch \in Chains |-> <<>>]
    /\ stage' = [c \in Containers |-> "down"]
    /\ todo' = [c \in Containers |-> <<>>]
    /\ ip' = [c \in Containers |-> NoAddr]
    /\ snap' = [c \in Containers |-> EmptyLease]
    /\ crossed' = {}
    /\ UNCHANGED <<lease, active>>

PortsNext ==
    \/ \E c \in Containers :
          \/ Launch(c) \/ AllocateOld(c) \/ AllocateNew(c) \/ LaunchEnds(c)
          \/ AddRule(c) \/ Serve(c) \/ TargetExits(c) \/ RemoveRule(c)
          \/ Release(c) \/ SupervisorLost(c) \/ Refresh(c)
    \/ TablesLost

PortsSpec == PortsInit /\ [][PortsNext]_portVars

-----------------------------------------------------------------------------
(* The address a packet to a published port is sent to: the one of the first
   rule that matches.                                                      *)
Destination(ch, to, host) ==
    LET rules == chains[ch]
        hits  == {i \in DOMAIN rules : rules[i].to = to /\ rules[i].host = host}
    IN  IF hits = {} THEN NoAddr ELSE rules[Min(hits)].ip

(* A published port leads to the container that publishes it, from outside
   and from the host, from the time its rules are in place until it exits,
   whatever other containers come and go on the port and on the address:
   unless two publish the port at once, only rules that nobody will remove
   can stand in the way.  From outside those are the rules of a lost
   supervisor; from the host they are the rules of every earlier container,
   for the call that should delete them deletes another rule.  Only a
   container can lose its own rules whose lease a stale copy or a refresh
   dropped from ipam.json, or that shares its address with such a one.     *)
PortLeadsToPublisher ==
    \A c \in Containers \ crossed : stage[c] = "serving" =>
        \A ch \in Ways : \A host \in Hosts(c) :
            \/ \E d \in Containers \ {c} : IsLaunched(d) /\ host \in Hosts(d)
            \/ Destination(ch, Way(ch), host) \in {ip[c]} \cup orphans[ch]

(* No port of the host leads to a container that does not publish it: a rule
   does not outlive its supervisor, and whoever works with its address is
   that supervisor's container, or shares the address because a lease was
   dropped.  Rules go before the address does; except those that a lost
   supervisor leaves, and in OUTPUT those of every container that has ended
   since the host booted, which lead the next holder of the address to ports
   of 127.0.0.1 that it does not publish.                                  *)
NoStrayRule ==
    \A ch \in Ways : \A i \in DOMAIN chains[ch] :
        LET r == chains[ch][i]
        IN  \/ r.ip \in orphans[ch]
            \/ /\ \E c \in Containers : IsLaunched(c) /\ ip[c] = r.ip /\ Publishes(c, r)
               /\ \A d \in Containers \ crossed :
                     IsLaunched(d) /\ ip[d] = r.ip => Publishes(d, r)
=============================================================================
