# crabtainer: a verification project

crabtainer is a container engine without a daemon. Every `crabtainer` command is a
process that runs once; every container has a *supervisor*, a process the command
leaves behind (detached) or the command itself (foreground). They share no memory and
no lock. What they share is a directory tree (`ipam.json`, `<runtime>/<id>/config.json`,
the image, layout and volume stores) and the kernel (mounts, control groups, links,
iptables rules, pids). Everything that is hard about the engine comes from that: each
process reads, decides and writes back at its own pace, any of them may be killed, and
the host may reboot.

The TLA+ modules here model these processes and what they share. TLC checks them on
small instances; TLAPS proves every invariant, action property and refinement that is
checked there for every instance (section 5). Paths below are relative to the
repository; `engine/` is `crates/crabtainer/src/engine/` and `crabtainer.rs` is
`crates/crabtainer/src/bin/crabtainer.rs`.

## 1. Inventory

| Part | State it keeps | Operations | Meets others through |
|---|---|---|---|
| Address leases: `Ipam` in `engine/runtime/network.rs` | `ipam.json`; a snapshot of it in each process | `new`, `allocate`, `release` | supervisors hold their snapshot as long as the container runs; refresh and autostart release too |
| Lease file: `Ipam::persist_sync` | `ipam.tmp`, `ipam.json` | open/truncate, write, fsync, rename | every process uses the same `ipam.tmp` |
| Supervisors: `engine/runtime/container.rs` | `config.json`, the pid file, mounts, the control group, the init process | set up, clone, write `config.json`, wait, tear down, report | commands read and rewrite `config.json` |
| Commands: `crabtainer.rs`, `start.rs`, `stop.rs`, `refresh.rs` | none of their own | `run`, `ps`, `stop`, `rm`, `start`, `restart` | check `config.json` and act on it later |
| Names: `crabtainer.rs`, `config.json` itself | the name in each config | `run --name`, search by name | configs are rewritten in place, readers skip what they cannot parse |
| Autostart: `autostart.rs` | none | one pass after boot | starts containers by status and restart policy |
| `crabtainer_init`, PID 1 of a container | exit code, pending signals | spawn, forward signals, reap, exit | its exit code becomes the status |
| Port forwarding: `network.rs` | iptables rules | parse the specifications, add and remove the rules of a container | chains are shared, the first match wins; rules outlive supervisors |
| Host network: `network.rs` | bridge, rules, veth pairs | initialise once, attach each container | the existence of the bridge stands for the whole set-up |
| Volumes: `volume.rs`, `container.rs`, `crabtainer.rs` | `volumes/<name>/_data` | create, remove, seed on first use, bind | nothing locks a volume |
| Stores: `engine/build/`, `crabtainer.rs` | images, layouts | pull, build, publish, `image rm`, `layout rm`, run | containers mount layouts; builds unpack images, publish packs layouts; RUN mounts the host's `/dev` |
| Builder input: `crabtainerfile.rs`, `copy.rs`, `spec.rs` | the config of a layout | parse, execute instructions, save; match ignore rules | `run` resolves its options against the layout |
| Options: `container.rs`, `start.rs`, `autostart.rs` | what `config.json` keeps of a launch | resolve arguments, limits, environment, ports | `start` hands the stored options to a new launch |
| Control groups: `cgroups.rs` | one directory per container | create, set limits, remove | created by set-up, removed by tear-down |
| exec, logs, inspect, ls | none | read only, or enter namespaces | |
| paths, system init | files read or written once | | |

What makes each part correct:

* leases: no address twice, in any file or process; a supervisor can always give back
  what it holds; a lease never moves; ideally the file is exactly the leases of what
  runs;
* lease file: a reader always finds one whole state, results tell the truth;
* life cycle: the recorded status does not lie, nothing is deleted under a running
  container or through a mount, a container runs once, its end is reported;
* names: two containers that can be found never share a name, and a config that cannot
  be read is being written;
* PID 1: reports the target's end and nobody else's, ends with it, reaps and forwards;
* ports: a published port leads to its publisher, no port leads to anybody else, rules
  go with their container, and ports are those the user asked for;
* host network: set up once, completely, and every container attached;
* volumes: filled from the image once and completely, never over what a container wrote;
* stores: images and layouts are whole, used layouts stay, no mount is left behind;
* builder and options: a layout is what its file says, a started container has the
  options of its first launch.

PROJECT.json lists every part, modelled or not, and under "hazards" the places of the
code where these can go wrong.

## 2. Modules

| Module | Models | Runs |
|---|---|---|
| `Leases` | the pool of addresses and the operators on lease tables | |
| `LeasePool` | abstract: one shared table, grant and return | (refined by `Ipam`) |
| `Ipam` | every caller of `Ipam::new`, `allocate`, `release`, with snapshots | IpamConcurrent, IpamShared |
| `AtomicFile` | abstract: a file replaced in one step | (refined by `PersistSync`) |
| `PersistSync` | the system calls of `persist_sync` on a file system with a page cache | Persist |
| `Lifecycle` | supervisors, commands, autostart, mounts, reboots | LifeRace, LifeEnds |
| `Registry` | names, and `config.json` rewritten in place | Names |
| `ContainerInit` | PID 1, the processes of the container, the signals | InitReaps |
| `PortForwarding` | the rules of published ports, rule by rule, and the leases behind them | PortsServed |
| `HostNetwork` | bridge, NAT rules, veth pairs, call by call | Net |
| `VolumeMounts` | volumes, file by file, and who uses them | Vols |
| `Store` | images, layouts, builds, publishing and the users of all of them | Store |
| `PortSpecs` | port specifications and what they mean, as operators | Options |
| `IgnoreRules` | ignore rules, the walk of COPY and what they mean, as operators | Options |
| `Options` | from the Crabtainerfile to the limits of a restarted container | Options |
| `PersistSyncProofs`, `LifecycleProofs`, `RegistryProofs`, `HostNetworkProofs`, `VolumeMountsProofs`, `StoreProofs` | theorems about the module they are named after | |
| `NetworkProofs` | theorems about `Ipam` and `PortForwarding` | |
| `ContainerProofs` | theorems about `ContainerInit` and `Options`, with the operators of `PortSpecs` and `IgnoreRules` | |

The modules `MC...` give the constants of the small instances. In each module an action
is one step that others can see: one read or write of a shared file, one system call,
one iptables or netlink command. The operators marked `Mutant:` are wrong versions of
the operator after them; they are used to see that each property can fail, and are no
part of `Next`.

### 2.1 Ipam

A process (`Procs`) is a launch that becomes a supervisor, or a refresh. `mem[p]` is the
state its `Ipam` object holds, read once in `Ipam::new` (`ReadDb`, or `FindNoDb` followed
by `LaunchCreatesDb`); `allocate` and `release` change it and write all of it to `db`,
which is `ipam.json`. `status` is what matters of `config.json`, and `named` the instance
it names: that of a process, one whose supervisor was killed (`Orphan`), or none that
runs. `addr` is the address the instance of a supervisor has configured, `left` those of
the instances whose supervisors are gone. `start` and autostart may launch an id that is
being launched or runs (`CanLaunch`), as the code does. `SupervisorDeletesDir` is `--rm`
of a detached container: the directory goes before the lease. Kills end a process and
leave its container running; a reboot ends everything and leaves the file. `alone`
remembers that no two processes have been at work at once and nothing was launched that
ran: what the database promises only to processes that take turns is stated under it.

### 2.2 PersistSync

Names map to inodes; a write reaches the page cache, `sync_all` or `WriteBack` the
disk; `CommitDir` writes the directory at any time after a rename. Write, sync and
rename may each fail, and the caller is then told so. The file system is
external and does no more than POSIX and a journalled directory promise. Writers may
overlap: they then share the inode behind `ipam.tmp`, whose content becomes `"torn"`
when a shorter state is written over a longer one.

### 2.3 Lifecycle

A supervisor is a number and stands for the pid of the init it clones (`stage`, `proc`,
`code`). `dir`, `cfg` and `pidfile` are the files of a container, `mounts` how many root
filesystems lie on top of each other on its directory, `cgroup` its control group.
`RemoveAll` is `fs::remove_dir_all`: with a mount in place it deletes through it
(`burnt`) and then fails. A command is where it is in its own code (`cli[k].at`):
`ps`, `stop`, `rm`, `start` and `restart` first refresh every container, one read, one
write and one unmount at a time, and only then act.

`setting` says under which circumstances a behaviour runs: which ids are detached or
`--rm`, which commands are issued, which faults happen, how many starts there are, and
whether users are *patient*. It is chosen in `Init` and never changes, so that one run
checks several. Impatient commands interleave in any way; a patient user waits until
the supervisor of the container neither sets up nor tears down. The code does not
enforce that. What it promises depends on the circumstances, and the properties name
those they need:

* `RunsOnce`: no `start`, `restart` or autostart, so one session per container; any
  number of commands at any interleaving and every fault;
* `TakeTurns`: any command again and again, but one at a time, by patient users, and no
  supervisor is killed (reboots, failing set-ups and aborted commands remain);
* `Orderly`: one of the two. Most safety properties hold there and fail outside
  (section 7).

### 2.4 Registry

Lifecycle writes `config.json` in one step. Registry is about what that hides:
`fs::write` is an `Open`, which truncates, and a `Put` over whatever the file holds by
then (`Over`: a longer text leaves its tail behind). A process goes through the entries
of the runtime directory one by one (`todo`), skips what it cannot parse, and does the
same again to find a container by its name. `Remove` is `remove_dir_all`, which may fail
with the config gone; a writer that has the file open then writes to an unlinked one
(`fd`). The directory of a container comes back when a start sets it up again.

### 2.5 ContainerInit

`main` is the main thread in `waitpid(-1)`, `pending` what the signal thread has caught
and not yet forwarded. `Orphaned` and `Ending` are the container's own processes. A
signal that comes before the handlers are registered is dropped, as the kernel does
for PID 1.

### 2.6 PortForwarding

`chains` are the four chains of the nat and filter tables, `todo` the list of iptables
commands a supervisor still has to run; `AddRule` is `-C` followed by `-A` when the rule is
missing, `RemoveRule` is `-D`, which fails silently when there is none. `Added` and
`Removed` are the lists the two functions build, with their differences: three rules are
added for a pair of ports, and only the one of PREROUTING is removed again. A published
port is looked at in both chains that lead to a container (`Ways`), from outside and from
`127.0.0.1`; `Destination` is the kernel's first match.

`lease` is what `ipam.json` has, `snap` the copy each supervisor reads at its `Launch`. As
in the code, `AllocateNew` takes an address that is free in the copy and writes the copy
over the file, and `Release` writes it once more when the container has ended, as old as
it is. So leases of others are lost, and addresses may double. `ip` is the address a
supervisor works with, `active` the containers whose config says Active. `Refresh` frees
the lease of a container whose process is gone and whose config still says Active, which
is so while its supervisor removes the rules. Refresh and the two writes of a supervisor
are one step each here; their steps are in `Ipam`. `Fallible` are the containers whose
supervisor may be lost.

### 2.7 HostNetwork

`bridge` is how far `init_global_network` got, `rules` how often each NAT rule is in
its chain, `veth` where the pair is that the launch of a container made, `master` whether
its outer end is plugged in, `inner` whether the inner end is configured. `FindBridge`
skips the rest of the set-up when the bridge exists. A launch whose network fails goes on
unattached. `NameOf` is what a pair is called after: six digits of the id, which containers
may have in common (`Namesakes`); `AddVeth` fails when any of them has its pair (`Taken`).
The inner end is configured by a thread that nobody waits for: `MoveInnerEnd` ends the
attachment and leaves the thread (`inner` is "held"), and `Configure`, `ConfigureFails`,
the end of the container and that of its supervisor come in any order after it.

### 2.8 VolumeMounts

A volume is a directory (`made`) and its `_data` (`data`, an inode, so that a volume
that is removed and made again is told apart from the one a container has mounted).
`content` says of each file whether it is missing, the image's, the volume's own
`config.json`, or written by a container. A launch looks at its next volume (`Look`),
makes it, copies file by file and binds; detached launches look at `volumes/<name>`,
foreground ones at its `_data`. `Copy` passes over what is not `Regular`, as
`copy_dir_all` does with links and devices. A foreground launch then writes `config.json`
into `_data` (`WriteConfig`), over a file of the image of that name.
`volume remove` first deletes the files, then the directories if they are still empty.

### 2.9 Store

`image` and `layout` are directories. A layer file is absent, partial, or one of the
version the registry served; a root filesystem is the sequence of what was put into it,
each layer with its version and number, so that order and mixture show. `cli` is the
process of each command: a build is the list of instructions that are left (`todo`), and
within FROM the set of layer files that are left (`files`, of which `NextFile` is the
one the sorted directory has first). `Unpack` takes a layer whole or, with entries that
could not be unpacked and were only warned about, `Partial`. RUN's
mounts are counters per mount point. publish leaves its `archive` in the layout, moves
it into a new image and describes that; what FROM unpacks from it is one layer, the
whole layout. All publishes of a layout pack into the same `layer_0.tar.gz` beside it:
`Pack` spoils what the others (`Publishing`) have packed. `role` is what each process is
there for, chosen in `Init`: a run looks at several kinds of users without letting each
of them do everything. `BreaksOff` is an error return, a panic (the failed unmount) or a
kill at any step: it leaves the stores as they are.

`used` is the layout that each `config.json` names, `unreadable` the configs that are being
rewritten in place or were torn by a killed writer (`Rewrite`). `layout rm` reads the
configs one by one (`Look`) and passes over those that are unreadable (`skipped`).
Aliases are plain names; section 7 says what becomes of `/` and `.` in them.

### 2.10 PortSpecs, IgnoreRules, Options

The data that runs through the engine, as operators. `HandlePorts`, `IsIgnored` and
`Copies` are the functions of the code, `Meant`, `Ignores` and `Wanted` what the
documentation says they do. The loops of the code (over the specifications, the rules, the
lines) are functions over how far they have come; the walk of COPY and the way up from a
path (`Ancestors`) are least closed sets. Rules are compared with the text of a path, and
the walk makes that text from the source: below `.` or `./x` every path has a `/./` in it.
A rule is therefore two sets, what it matches of plain and of such *dotted* paths, and a
source says which of the two its walk yields (`MetBy`). `Options` puts them to work: a
Crabtainerfile is a sequence of lines that is parsed into `Instructions` and executed one
by one (`opts` is `LayoutOpts`), saved as the config of a layout, and resolved against the
command line by each launch; `config.json` keeps the result, from which `start` and
`autostart` launch again, when the layout may have been built anew (`Rebuild`). `Unfit`
are the pairs of ports that iptables refuses, because of a text that is no number or a
number that is too high: `add_port_forwarding` ends there with the ports before it in
place (`Before`, or `UpTo` with the first rule of the refused pair), and so does the
launch in the foreground, or the supervisor in the background, whose container runs on.
`Meaning` says without any loop what a Crabtainerfile says. Numbers are scaled: a period
of 10, u32 with eight values.

## 3. History variables

Several promises hold only until something has gone wrong that the code does not
repair. Rather than leave the fault out, the modules record what it hit, and the
properties speak about the rest:

| Variable | Set when | Cleared when |
|---|---|---|
| `alone` (Ipam) | FALSE once two engine processes were at work at once, or a container was launched while it ran | never |
| `alone` (PersistSync) | FALSE once two calls overlapped | never |
| `damaged` (Registry) | a writer of the config was killed, or two wrote it at once | never |
| `contended` (Registry) | two launches wanted the name at once, a check met a config of it half written, or its container was removed by half or under a launch | never |
| `orphans` (PortForwarding) | the addresses with rules nobody will remove: of a lost supervisor in either way, of a container that has ended in OUTPUT | reboot |
| `crossed` (PortForwarding) | a stale copy or a refresh dropped the container's lease while it works with the address, or it works with the address of such a one | its next launch, its end, reboot |
| `broken` (HostNetwork) | a set-up broke off after the bridge was added | the bridge is deleted, reboot |
| `mishap` (HostNetwork) | a fault hit this launch, its veth name was taken when it began, or another of that name was on its way to it | next launch that meets nobody of its name |
| `unsure` (VolumeMounts) | the first use of the volume broke off, or met another use | the volume is removed and nobody is about to use it |
| `evicted` (VolumeMounts) | a volume was removed under this launch | the launch has ended |
| `badImages`, `badLayouts` (Store) | a command broke off on it, two met on it, an entry of a layer was not unpacked, or what it was made of was bad | it is made afresh by one command |
| `pinned` (Store) | a RUN broke off between mount and unmount | never |
| `raced` (Store) | a launch met `layout rm` of its layout, `layout rm` passed over the config because it could not be read, or `layout rm .` took the layout | the container is removed |

`original` (Options) is no fault: it keeps what the first launch resolved its options to.
Each of the others is needed: without it TLC finds its property violated in the same run.
That is how most divergences of section 7 were found.

## 4. Runs

| Run | Question | Instance |
|---|---|---|
| IpamConcurrent | what holds of the leases at any interleaving, and is the file a pool while nothing overlaps | 2 processes, 3 containers, 2 addresses, kills, reboots |
| IpamShared | (violated) can addresses be doubled without overlapping launches | 2 processes, 3 containers, 3 addresses, no faults |
| Persist | is the file atomic | 2 writers, 2 states, 3 inodes |
| LifeRace | what do commands and runs of a container do to each other | two settings: 1 run, 2 commands at any interleaving, all faults; 3 runs, every command, patient users, a reboot |
| LifeEnds | what is left, and who learns of the end | detached, detached `--rm`, foreground; 1 command, faults |
| Names | can two containers be found by one name, is a config lost | 2 processes, 2 containers, 2 names, kills |
| InitReaps | PID 1 | target, 2 orphans, 3 signals |
| PortsServed | do ports lead where they should | 2 containers, 2 addresses, 4 chains, a copy of the leases each; one takes over a port of the other and may be killed |
| Net | is the host set up, are containers attached | 3 launches, two of them with one veth name, 2 rules, faults |
| Vols | is a volume filled once and never overwritten | 1 volume, a detached and a foreground container, a regular file, a link and a config.json in the image, 3 directories in succession |
| Store | are images and layouts whole | one process builds, and launches, pulls or publishes; one removes layouts, and images beside pulls and publishes; configs are rewritten and torn; 2 versions, 1 layout and others nobody uses |
| Options | is a layout what its file says, is a restarted container what was asked for | files of up to 3 lines, up to 2 ignore rules, plain and dotted, every choice of options, ports that iptables refuses, 3 launches |

What they show is the comment above each property; PROJECT.json says it per run.

**Bounds.** Two processes suffice for a lost update, a third container for the address
that is then given twice; fewer addresses than containers makes the pool run out. Two
writers reach every sharing of `ipam.tmp`, three inodes let the old database, a left
temporary file and a new one coexist. In `Lifecycle`, `MaxSpawns` bounds starts and
`MaxBoots` boots: the first setting of LifeRace has one run and two commands (every
check-then-act pair is of two), the second three starts. In `Registry` nothing is bounded
but the three sets: two processes on two containers reach every overlap of a check, a
write and a removal that involves two, and a name that changes hands; the proof covers the
rest. Two rules let a set-up stop between rules. Two containers and two addresses let a
port change hands, with and without its address, and a stale copy double one; only one of
the two may lose its supervisor (`Fallible`), which leaves orphans for the other and
halves the instance. Three launches let two share a veth name while a third does not.
`MaxInodes` bounds how often a volume is made anew: three tell the old, the present and
the next apart. Containers write to volumes, over the image's files too, but delete
nothing; the image's three files are one that is copied, one that is not, and one that
`config.json` replaces. In `Store`, `MaxContent` keeps a build from piling onto a layout
that already has two entries, `MaxMounts` mounts from piling up after RUN broke off,
`MaxLayers` is the longest image; `NumMounts = 2` keeps "before the last" and "last" of
the three mounts apart. The image shrinks from two layers to one so that a stale second
layer shows; `Others` lets the store hold layouts no container uses, which is what `layout
rm .` acts on. Publishing and launching are two roles of one process, chosen at the start:
they touch each other only through what builds and removals leave. Images are removed
beside pulls and publishes only: a launch looks at layouts, never at images. `MaxSends`
bounds signals. In `Options`, `Period = 10` stands for the 100000 by which each start multiplies
the quota, `MaxQuota` for the kernel's limit, which lies between its second and third
power as the real one does for small limits; `Factor = 4` stands for 1024, and `U32 = 8`
lets port ranges wrap. Ports above 5 stand for those above 65535; iptables refuses them,
and what is no number. `MaxLines` and `MaxStarts` bound the Crabtainerfile and the
launches; the proofs do without either.

**Deadlock** is checked in every run but IpamShared, where each id is launched once
and everything ends, and Options, where a file is refused or the launches are used up.

**Fairness.** LifeEnds assumes weak fairness of each supervisor and each command: they
are processes the kernel schedules, and no step in them waits for another except
`waitpid`, which the guard of `Reap` expresses. Neither the container's exit nor a fault
is fair. `DeadIsNoticed` carries its own assumption `PsRecurs`: somebody runs `ps` again
and again. InitReaps assumes weak fairness of the two threads of `crabtainer_init`;
target, orphans and senders are free. The other runs check safety.

## 5. Proofs

All theorems hold for any constants that satisfy the ASSUMEs of their module, and none
assumes more than its specification; PROJECT.json lists them. Each module of proofs has
an inductive invariant, checked by TLC before it was proved, a lemma or a step per
action, and the theorems at the end. Every invariant, every refinement and every action
property that a passing run checks is a theorem.

The assumptions say what constants are: sets of the right kind, bounds that are numbers,
the tree of the build directory has its root above every path (`TreeIsRooted`), a base
image has one config (`OptionConstants`), containers publish lists of pairs
(`PublishConstants`). None is about behaviour.

`NetworkProofs`, leases: `TypeCorrect`, `UniqueLeases`, `SupervisorsKnowTheirLease` and
`AddressesAreStable` are about any interleaving. `UniqueLeases` is inductive with the
types: a process inserts only an address that is free in the very snapshot it writes.
`SupervisorsKnowTheirLease` needs that a snapshot changes by its owner only.
`AddressesAreStable` needs a strengthening, `StableInv`: all that know an address of a
container agree, no two launches are of one such container, and a launch that has not
allocated yet works for a container no one knows an address of, or else `allocate` could
give a second one. `LiveContainersAreLeased`, `NoSharedAddressWhenAlone` and
`ImplementsLeasePool` are about behaviours as long as they are `alone`: one engine process
at a time, where a supervisor counts as long as its container runs, and no launch of what
runs; several containers then live at once only because supervisors were killed. That is
as far as the promise goes: IpamShared doubles an address with two supervisors and nothing
else at work. The invariant is `SerialInv`: there is one process at work (`OneAtWork`),
its snapshot is the database (`Fresh`), what has lost its supervisor has its lease there
(`OrphansLeased`), and what the process works for has no other instance
(`OnlySupervised`). The refinement maps the writes of `allocate` and `release` to `Grant`
and `Return` and every other step to a stutter.

`NetworkProofs`, ports: `PortsTypeCorrect`, `NoStrayRules` and
`PortsLeadToTheirPublisher`, from `PortsInv`. `NoStrayRule` alone is not inductive: it
says of each rule that somebody publishes it, but not that this somebody will delete it.
`RulesOwned` does: a rule of either way whose address is no orphan of that way is owned by
a supervisor, which publishes it and, while it removes its rules, still has that of
PREROUTING on its list (`Owns`); `NoRuleTwice` makes the one deletion enough. No such thing
holds of OUTPUT, where nothing on the list leads anywhere (`OwnRules`), and so its rules
become orphans with the end of the container. The leases are copies, so nothing in the
database says who works with an address. What does is `Leased` (a supervisor that is not
crossed has its lease in `ipam.json`, whoever writes it) and `Sharing` (those who share an
address are all crossed), which rest on `Copies`: no copy of the leases has an address
twice, so whoever is given one robs the others or shares with somebody who was robbed.
`PortLeadsToPublisher` needs `Complete` besides: between allocation and `Serve` each rule
is in its chain or on the list. The first match that the kernel takes
is found as the least index (`LeastNat`); the lists come from `FlattenSeq`
(`FlattenElements`) and `RemoveFirst` (`RemoveFirstLeaves`), which are recursive in the
library.

`PersistSyncProofs`: `DatabaseAlwaysStays` (once there, `ipam.json` is never missing)
holds for overlapping writers too; `ResultsStayTrue` and `ImplementsAtomicFile` while
they are `alone`. `WriterInv` says how far the content of the temporary inode is when
its writer is at each line, `JsonInv` that the inode behind `ipam.json` is no writer's and
holds one whole state, in the cache as on disk. The refinement maps the rename to
`Store`, `CommitDir` to `Flush` and the power failure to `Lose`.

`LifecycleProofs`: `TypeCorrect`; `FinishedIsDead`, `RunningKeepsDir`,
`OneInstanceEach`, `StopsReadOneInstance` and `NothingIsLeft` in orderly circumstances,
`NothingIsBurnt` for one command at a time on containers that are run once, and the
action property `StoppedStaysSo` for patient users. The invariant is `Inv`, in three
parts, each under the circumstances it needs.

* `General`, always: which sessions a config, a pid file and a command can know
  (`BornInv`, `PidInv`, `FileInv`), and what the init is at each stage of its
  supervisor (`StageInv`).
* `Order`, orderly: a container has at most one session at work, that is one whose
  supervisor has not ended or whose init runs (`OneInv`); who is about to launch a
  container finds none (`LaunchInv`); a status tells where that session is (`StatusInv`).
  The hard part is what a command knows that has read a config some steps ago. `LookInv`
  says it: it looks at a container whose set-up is behind it (`Beyond`) or that is over
  for good (`Over`), and nothing that can still happen takes it back from there. So `rm`
  removes nothing that runs, and the pid `stop` has read is still the one in the config
  when it looks again. `LeftInv` says which stages leave something in the kernel.
* `Alone`, for `NothingBurnt`: a mount outlives its container only until the refresh
  that marked the container has detached it (`BurntInv`).

The proof showed why `TakeTurns` excludes killed supervisors: one killed between
the clone and the first write of `config.json` leaves a container that runs while
its config says Exited, and the next start runs it twice. With `RunsOnce` there is no
next start, and kills are allowed.

`RegistryProofs`: `ConfigsComeBack` rests on `WritersInv` (an undamaged config has one
writer at most, and is empty while it has one). `NamesStayUnique` rests on `NamesInv`:
of the containers of a name nobody contends for one has a config (`OneConfig`), one
process launches it (`OneLaunch`), and what such a launch has still to look at is the
only place where another config can be (`LaunchIsAlone`); the other parts keep a late
supervisor from bringing a config back (`LateFindsFile`, `NoLateLeft`, `OpenIsThere`).
The proof found what two processes are too few to show: with three, `rm` under a start
whose set-up fails lets the supervisor of the earlier run write a config for a
container that is gone, whose name another launch has taken by then. `Remove` therefore
counts a removal under a launch in `contended`.

`ContainerProofs`, PID 1: `InitTypeCorrect` and `InitReportsTheTarget`, from `EndInv`: PID
1 has exited only by failing to start the target or after reaping it, with the code of
its end.

`ContainerProofs`, options: `LayoutsAreAsWritten`, `CopiesTakeTheRest`, `PortsAreAsMeant`
and `StartsKeepTheOptions`. What the loops compute is a lemma each, for lists of any
length:

* `LastRuleDecides`: the verdict of `is_ignored` is that of the last rule that matches.
  `CopiesWhatIsWanted`: the walk of COPY finds exactly the files below the source that
  no ignored directory hides. That it finds no more is that the wanted paths, with what
  is not below the source, are closed under the walk; that it finds them all is an
  induction down a tree which is not given as one: the paths that every closed set
  holds are themselves closed. `RulesMet`: what a dotted source meets is a list of rules
  like any other, so the walk needs one proof only.
* `PortsMeant`: the answer of `handle_ports` is an error at the first specification that
  is wrong, else all pairs in order (`LoopOfHandlePorts`); of one specification it is what
  is meant (`ParseOneMeans`), where a `Regular` one leaves no room for the width of u32.
* `InstructionsInOrder`: what parse returns enumerates the lines that are not skipped,
  upwards (`Enumerates`); its head is the least of them and its tail the others.

`BuildInv` is the induction over the Crabtainerfile: while a layout is built there is a
line up to which everything is done, `opts` and `copied` are what the lines so far say
(`Told`, `CopiedBy`), and what is left enumerates the lines after it. `LayoutIsAsWritten`
speaks of the finished layout only and is not inductive. `ExecuteTells` is its step: one
instruction more changes the last of its kind, and an image fills in only what neither an
instruction nor an earlier image has set (`FirstGrows`). `RunInv` has the options: what is
published of a running container is among its pairs, and has all of those before a refused
one (`Before`); the config of a container and that of its first launch agree (`Kept`),
where the environment is some prefix and then the variables given first. That the prefix
grows with every start and the last value of a variable stays (`LastValue`) is what
`StartsWithItsOptions` says of it.

`HostNetworkProofs`: `NoRuleIsDoubled` is the argument that adding the bridge is a lock:
it lets one launch through (`OwnerInv`), which alone appends rules, each after it found it
missing (`RulesInv`). `OutboundAlwaysWorks` adds `CompleteInv`, `RunningGetsAttached` adds
`VethInv`, which follows the veth pair of a launch that met no fault: until it has added
it, no container of its name has one or is about to, for the launch that comes later is
the one that meets (`mishap`). `ThreadInv` says when the thread may be at work.

`VolumeMountsProofs`: `SeedsAreWhole` and `WritesStay`. While a launch fills a volume
that is not `unsure` nobody else is at it, nobody has it mounted and nothing in it has been
written (`SeedInv`), so the copy cannot overwrite; a volume that lacks a file is being
filled or removed (`DataInv`); a container that keeps its volume has all its regular files
(`BoundInv`), because who mounts a volume that is being removed is `evicted`
(`EvictInv`). `InodeInv` keeps an old and a new directory of one volume apart.

`StoreProofs`: `TypeCorrect`, `ImagesWhole`, `LayoutsWhole`, `UsedLayoutsStay` and
`MountsAreGone`, for any number of processes, images, layouts, versions, layers and for
every Crabtainerfile. Each command at work has one of six shapes (`ShapeInv`); the rest
of `Inv` is about what they share:

* `ImageInv`: an image that nothing has spoilt has one user at most that fills it, and is
  filled exactly as far as that one has come (`Filled`), or whole. `Meets` is what makes
  it so: a command that finds another on its image spoils it.
* `ArchiveInv`: what a publish that still counts as good is about to move is what it
  packed. TLC found this violated at first: two publishes of one layout share the archive
  (section 7), which `Pack` had not told.
* `UsedInv`: a `layout rm` that is past a container does not remove the layout that its
  config names, unless it passed over the config (`Passes`), since those it found used are
  kept and later launches are `raced`. `MountInv`: the mounts at a mount point of a layout
  are at most as many as RUNs have mounted there and not yet unmounted, a counting
  argument over finite sets.
* `LayoutIsWhole` needs an induction over the Crabtainerfile. `TodoInv`: the
  instructions a build has left are the end of the script. `AloneInv`: the build of an
  unspoilt layout is alone on it and on its image. `ContentInv`: the root filesystem is
  what the instructions before have made (`Made`), plus, within FROM, the layers unpacked
  so far (`Unpacked`), and a layout that nobody builds is finished.

The library's induction theorems take an operator and cannot be used here. What can is
that a non-empty set of naturals has a least element, from `WFMin` and
`NatLessThanWellFounded`: the lemma `LeastNat`. With it `FlattenStages` shows what
`FlattenSeq` computes, for sequences of any length, and `MadeContent` that the last
stage is the content that `LayoutIsWhole` names.

Only model-checked are the four liveness properties (`ExitIsReported`, `DeadIsNoticed`,
`ZombiesAreReaped`, `CaughtIsForwarded`), which need fairness and ENABLED and are out of
the prover's reach, and the violation that IpamShared shows. No module declares a
RECURSIVE operator.

## 6. What is not modelled

* `exec` changes no state of the engine. It finds a process as `stop` does, of which
  `StopReadsAgree` says what holds. What it does after its forks happens in a copy of the
  asynchronous runtime, whose behaviour this code does not determine.
* Paths and system init: names of files, and a systemd unit written once. `logs`,
  `inspect` and the `ls` commands only read.
* The rootfs of a container is one mount count; that `proc`, `sys`, `dev` and the init
  are mounted one by one, and unmounted by one lazy detach, is not told apart. Volumes
  are (`VolumeMounts`). Bind mounts share nothing the engine manages.
* `Lifecycle` reads and writes `config.json` in one step; `Registry` has the steps.
* The `50 ms` of `restart` are a step that may or may not be long enough.
* `layout rm .` asks for a key and then asks again; one answer is modelled.
* Where COPY puts its files; a build is taken to run in its build directory.
* What a published archive holds is one layer, the whole layout (but see section 7).
* The `remove_dir_all` of OVERRIDE is one step (`Download`). Broken off, it leaves what an
  `image rm` leaves that breaks off, which the model has (`RmImageHalf`).
* The error arms of `waitpid` in PID 1 (`main.rs:76-82`): it has a child until it has reaped
  the target, with which the loop ends anyway, and signal_hook installs handlers that
  restart a call they interrupt.
* Within one boot no pid is given out twice: supervisors stand for pids. The engine cannot
  tell a reused pid within a boot from the container it had (`is_container_alive`).
* COPY sources that are absolute or hold `..`; `nan` and `inf` as CPU_LIMIT.
* Docs, examples, CI files and the lock files carry no logic.

## 7. Where the code and its documentation differ

One is a run (PROJECT.json, "findings"). The others were met while modelling and can be
reproduced by dropping the guard or history variable of a property, by widening an
instance, or by reading the lines side by side:

Leases and network

* `networking.md:27-28` "free ones are reused": a late supervisor brings back the lease
  of a container that has ended; no refresh looks at it again.
* `network.rs:219` "atomically": not when two calls overlap (`FileSteps` without `alone`).
* `networking.md:32-33`: a set-up that broke off is never completed (`OutboundWorks`
  without `broken`).
* `networking.md:27-28` again: a supervisor writes back the leases it read when it was
  launched, so leases of others are dropped and addresses double; both containers then
  have rules for one address (`NoStrayRule` without `crossed`).
* `networking.md:55-57`: rules of a killed supervisor shadow those of the next
  container on the port (`PortLeadsToPublisher` without `orphans`).
* `network.rs:613-614` "Removes the iptables DNAT rules set up by add_port_forwarding":
  it deletes an OUTPUT rule on `lo` and a FORWARD rule that were never added, and leaves
  the OUTPUT and POSTROUTING rules that were (`Removed` against `Added` in
  `PortForwarding`). A port of `127.0.0.1` therefore leads to the first container that
  published it since the host booted, or to whoever has its address by then (`NoStrayRule`
  and `PortLeadsToPublisher` with orphans of PREROUTING only).
* `networking.md:69-70`: a left veth pair, or a container whose id has the same six digits,
  makes the attachment fail, which is only logged (`RunningIsAttached` without `mishap`).
  The thread that configures the inner end is not waited for and its errors are dropped:
  the command may run before its network is up, or without.
* Port ranges use the host's numbers on both sides (`network.rs:502` has it as a TODO). The
  sizes are compared as u32, so ranges that go down are accepted and empty if they wrap
  to one size, and the third text of a range like `1-2-3` is forgotten (`PortsAsMeant`
  without `Regular`).
* `network.rs:560-562`: `add_port_forwarding` fails also when iptables refuses a rule, of
  `abc:80` or a port over 65535, which `handle_ports` lets through. A background container
  then runs on without a supervisor, with the ports before that one, and perhaps the rule
  of PREROUTING or OUTPUT of that one; nobody removes them (`PortsAsMeant`, `Unfit`).

Life of a container

* `start.rs:71` "Active containers are rejected", `autostart.rs:14-15`: two starts, or
  autostart of a running container, give two instances (LifeRace's second setting with
  impatient users). So does a start after a supervisor was killed between the clone and
  its first write of `config.json`: the container runs and the config says Exited
  (`FinishedMeansDead` and `OneInstance` without `Orderly`).
* `options.rs:61-66`, `lifecycle.md:84-85`: with overlapping starts a late final status
  overwrites the next run's Active, and refresh overwrites Stopped.
* `container.rs:621`: the pid that is killed is that of the newest start.
* `lifecycle.md:84`: a container that ends with 143 after `stop` is Stopped when it runs in
  the background; in the foreground (`container.rs:1037-1045`) every code but 0 is Error.
* `cli-reference.md:103`: `restart` starts nothing when the container needs more than
  50 ms to end.
* `cli-reference.md:126-127`: `rm` may delete the directory of a start that began after
  its check, and while another command's refresh is between marking a container and
  unmounting it, through the mount (`NothingBurnt` with two commands).
* `storage-and-volumes.md:84-85`: `rm` after a failed set-up or a killed supervisor
  deletes through the mounts into volumes (`NothingBurnt` with several starts).
* `autostart.rs:41`: its release goes to `config.json` of the base directory, not
  `ipam.json`.
* A name can be taken twice by launches that overlap, or when the check meets a config
  while it is rewritten (`NamesUnique` without `contended`).

Options and limits

* `start.rs:69-70`, `cli-reference.md:92-93` "its original options": the stored quota is
  handed over as a number of cores. The first start multiplies the limit by 100000,
  later ones are refused by the kernel.
* `cli-reference.md:28` `e.g. 1.5`: truncated to 1 core; `0.5` becomes 0 and is refused.
* `cli-reference.md:29` "in MB": the number is taken for bytes.
* `crabtainerfile.md:50-52`, `copy.rs:4-7`: the ignore rules apply to what `*` finds and to
  what is below a directory that is named or found by a glob. The entries themselves, named
  or globbed, are looked up by their relative path, which no rule matches, and are always
  taken. Below `.` and `./x` the walk yields paths with a `/./`, so a rule without a
  wildcard matches none of them. A `!` below an ignored directory has no effect
  (`CopyTakesTheRest` says what does hold).

Stores and volumes

* `cli-reference.md:205`: `layout rm` takes the layout of a container whose config it cannot
  read at that moment, or that was torn by a killed writer (`UsedLayoutStays` without
  `skipped` in `raced`).
* `from.rs:108-114`: an entry of a layer that cannot be unpacked is a warning, and the build
  succeeds without it (`LayoutIsWhole` without `badLayouts`).
* `from.rs:28`: FROM replaces `/` and `.` of an alias by `_`, DOWNLOAD (`download.rs:42`)
  and the builder's own lookup (`builder.rs:93`) do not. An image downloaded under such an
  alias is not found by FROM; if there is one under the alias with `_`, its layers are
  taken, with the settings of the other.
* `cli-reference.md:205`: `layout rm .` removes the directory "." of the store, so all
  layouts, as soon as one is unused (`crabtainer.rs:566`).
* `cli-reference.md:67`: `build` looks for its tag in the image store; an existing layout
  is built upon.
* `run.rs:3-5` "unmounted afterwards": not when a mount or an unmount fails
  (`MountsGone` without `pinned`).
* `cli-reference.md:207` `layout publish <TAG>`: it takes a tag and a name.
  `publish.rs:3` "reusable component": tar stores the absolute path of the root
  filesystem, so FROM unpacks it below itself; the layout's runtime config is read as an
  image config, so environment, command and entrypoint are empty; and a failing tar is
  only printed (`ImageIsWhole` and `LayoutIsWhole` count such an image as bad). Two
  publishes of one layout write and move the same `layer_0.tar.gz`: one of them may get
  the archive of the other, or none.
* `storage-and-volumes.md:91`: a bind mount of a detached run gets `_data` appended.
* `storage-and-volumes.md:81` has a volume seeded from the image's directory: links,
  devices and sockets are skipped (`container.rs:69`), and the first foreground use writes
  the volume's `config.json` among its data, over a file of that name
  (`container.rs:857-863`).
* `volume create` makes no `_data`, so a detached run that uses the volume fails;
  foreground runs make it. `volume remove` asks nobody and deletes under running
  containers.

## 8. Plan

Done, most important behaviour first: leases and their file, the life cycle, PID 1,
ports, host network, stores; then names and the config in place, volumes, options with
the Crabtainerfile, the ignore rules and the port specifications, publish, and the
leases behind the ports. Proofs of all invariants that the runs check.

What is left:

* to compose: leases, ports and life cycle in one module, for which the state of the
  three has to be cut down first; `PortForwarding` holds the part that matters most, the
  release before the removal of the rules;
* to model: the mounts of a rootfs one by one.
