------------------------------- MODULE Options -------------------------------
(***************************************************************************)
(* The way of what users write to what is enforced: a Crabtainerfile is    *)
(* parsed (engine/build/crabtainerfile.rs), built instruction by           *)
(* instruction (builder.rs) and saved as the config of a layout (spec.rs); *)
(* a container is run from it with the options of the command line         *)
(* (container.rs, cgroups.rs), and started again from its own config.json  *)
(* (start.rs, autostart.rs), when the layout may have been built anew.     *)
(*                                                                         *)
(* An option that may be left out is a set with at most one member.  CPU   *)
(* limits are in tenths of a core.                                         *)
(***************************************************************************)
EXTENDS PortSpecs, IgnoreRules, SequencesExt

CONSTANTS
    FileLines,     \* lines a Crabtainerfile may have: [key, arg]
    MaxLines,      \* bound: lines of a Crabtainerfile
    ImageConfig,   \* image -> {its config}, or {} if it cannot be read;
                   \* its args are the entrypoint and then the command
    RuleLists,     \* what .crabtainerignore may say
    Rebuilt,       \* what the layout may become after the first run
    EnvVars,       \* variables of an environment: <<name, value>>
    CliOptions,    \* what may be given to run
    Unfit,         \* pairs of texts of which iptables refuses a rule
    Period,        \* the period of cpu.max: one core
    Factor,        \* 1024
    MinQuota, MaxQuota, \* the quotas the kernel takes
    MaxStarts      \* bound: launches of the container

ASSUME OptionConstants ==
    /\ MaxLines \in Nat /\ MaxStarts \in Nat
    /\ Period \in Nat \ {0} /\ MinQuota \in Nat /\ MaxQuota \in Nat
    /\ RuleLists \subseteq Seq(RuleSet)
    /\ \A line \in FileLines : line.arg # <<>> =>
          /\ line.key = "FROM" => line.arg[1] \in DOMAIN ImageConfig
          /\ line.key = "COPY" => line.arg[1] \in Sources
    /\ \A i \in DOMAIN ImageConfig : \A x \in ImageConfig[i] :
          ImageConfig[i] = {x} /\ x.envs \in Seq(EnvVars)
    /\ \A l \in Rebuilt : l.envs \in Seq(EnvVars)
    /\ \A o \in CliOptions : o.envs \in Seq(EnvVars) /\ o.ports \in Seq(Seq(Sides))

VARIABLES
    stage,     \* where the build is
    file,      \* the Crabtainerfile
    rules,     \* .crabtainerignore
    todo,      \* the instructions left
    opts,      \* LayoutOpts
    copied,    \* the files COPY has put into the layout
    layout,    \* {the config of the layout}
    cfg,       \* {config.json of the container}
    up,        \* does the container run?
    published, \* the ports forwarded to it
    starts,    \* how often it was launched
    original   \* history: {what its first launch resolved to}, with the
               \* options of the command line

build      == <<stage, file, rules, todo, opts, copied>>
optionVars == <<build, layout, cfg, up, published, starts, original>>

Or(option, default) == IF option = {} THEN default ELSE CHOOSE x \in option : TRUE

NoOpts == [args |-> <<>>, cpu |-> {}, memory |-> {}, cwd |-> {}, envs |-> <<>>]

OptionsInit ==
    /\ stage = "parse"
    /\ file \in UNION {[1..n -> FileLines] : n \in 0..MaxLines}
    /\ rules \in RuleLists
    /\ todo = <<>>
    /\ opts = NoOpts
    /\ copied = {}
    /\ layout = {}
    /\ cfg = {}
    /\ up = FALSE
    /\ published = {}
    /\ starts = 0
    /\ original = {}

-----------------------------------------------------------------------------
(* Crabtainerfile::parse and build_layout *)

\* parse_memory_limit
Bytes(size) == size.num * Factor ^ (CASE size.unit = "b" -> 0 [] size.unit = "k" -> 1
                                      [] size.unit = "m" -> 2 [] size.unit = "g" -> 3)

\* What parse says of a line: blank ones and comments are skipped, an unknown
\* keyword, a missing or a wrong argument ends it.
Skipped(line) == line.key = "blank"
Valid(line)   ==
    /\ line.key \in {"DOWNLOAD", "FROM", "COPY", "RUN", "CMD", "CPU_LIMIT",
                     "MEMORY_LIMIT", "WORKDIR"}
    /\ line.arg # <<>>
    /\ line.key = "DOWNLOAD"     => /\ Len(line.arg) \in {3, 4} /\ line.arg[2] = "AS"
                                    /\ Len(line.arg) = 4 => line.arg[4] = "OVERRIDE"
    /\ line.key = "COPY"         => Len(line.arg) = 2
    /\ line.key = "CPU_LIMIT"    => line.arg[1] # NaN /\ line.arg[1] > 0
    /\ line.key = "MEMORY_LIMIT" => line.arg[1].num # NaN

\* The instructions, in the order of their lines.
Instructions(lines) ==
    LET pushed[n \in 0..Len(lines)] ==
            IF n = 0 THEN <<>>
            ELSE IF Skipped(lines[n]) THEN pushed[n-1] ELSE Append(pushed[n-1], lines[n])
    IN  pushed[Len(lines)]

Parse ==
    /\ stage = "parse"
    /\ LET wrong == {i \in DOMAIN file : ~Skipped(file[i]) /\ ~Valid(file[i])}
       IN  IF wrong # {} THEN stage' = "refused" /\ UNCHANGED todo
           ELSE /\ stage' = "build"
                /\ todo' = Instructions(file)
    /\ UNCHANGED <<file, rules, opts, copied, layout, cfg, up, published, starts, original>>

\* FROM fills in what nothing has set yet.
FromImage(o, i) ==
    IF ImageConfig[i] = {} THEN o
    ELSE LET image == CHOOSE x \in ImageConfig[i] : TRUE
         IN  [o EXCEPT !.args = IF @ = <<>> THEN image.args ELSE @,
                       !.envs = IF @ = <<>> THEN image.envs ELSE @,
                       !.cwd  = IF @ = {} THEN image.cwd ELSE @]

\* Mutant: FROM appends to what is set.
ExecuteAppending(o, line) ==
    CASE line.key = "FROM"         -> [FromImage(o, line.arg[1]) EXCEPT
                                          !.args = o.args \o FromImage(NoOpts, line.arg[1]).args]
      [] line.key = "CMD"          -> [o EXCEPT !.args = line.arg]
      [] line.key = "CPU_LIMIT"    -> [o EXCEPT !.cpu = {line.arg[1]}]
      [] line.key = "MEMORY_LIMIT" -> [o EXCEPT !.memory = {Bytes(line.arg[1])}]
      [] line.key = "WORKDIR"      -> [o EXCEPT !.cwd = {line.arg[1]}]
      [] OTHER                     -> o

\* The other instructions replace it, or have nothing to do with the config.
Execute(o, line) ==
    CASE line.key = "FROM"         -> FromImage(o, line.arg[1])
      [] line.key = "CMD"          -> [o EXCEPT !.args = line.arg]
      [] line.key = "CPU_LIMIT"    -> [o EXCEPT !.cpu = {line.arg[1]}]
      [] line.key = "MEMORY_LIMIT" -> [o EXCEPT !.memory = {Bytes(line.arg[1])}]
      [] line.key = "WORKDIR"      -> [o EXCEPT !.cwd = {line.arg[1]}]
      [] OTHER                     -> o

Instruction ==
    /\ stage = "build"
    /\ todo # <<>>
    /\ opts' = Execute(opts, Head(todo))
    /\ copied' = IF Head(todo).key = "COPY"
                 THEN copied \cup Copies(rules, Head(todo).arg[1]) ELSE copied
    /\ todo' = Tail(todo)
    /\ UNCHANGED <<stage, file, rules, layout, cfg, up, published, starts, original>>

\* An instruction fails: the layout has no config.
BuildFails ==
    /\ stage = "build"
    /\ todo # <<>>
    /\ stage' = "refused"
    /\ UNCHANGED <<file, rules, todo, opts, copied, layout, cfg, up, published, starts, original>>

\* save_config
Saved(o) == [args   |-> o.args,
             quota  |-> (Or(o.cpu, 10) * Period) \div 10,
             memory |-> Or(o.memory, Factor ^ 3),
             cwd    |-> Or(o.cwd, Root),
             envs   |-> o.envs]

Save ==
    /\ stage = "build"
    /\ todo = <<>>
    /\ layout' = {Saved(opts)}
    /\ stage' = "saved"
    /\ UNCHANGED <<file, rules, todo, opts, copied, cfg, up, published, starts, original>>

\* The build command ends; how the layout came about is forgotten.
Built ==
    /\ stage = "saved"
    /\ stage' = "built"
    /\ file' = <<>> /\ rules' = <<>> /\ opts' = NoOpts /\ copied' = {}
    /\ UNCHANGED <<todo, layout, cfg, up, published, starts, original>>

-----------------------------------------------------------------------------
(* run_container and spawn_detach_container *)

\* resolve_args, resolve_cpu_limit (whole cores), resolve_memory_limit, and the
\* environment, to which the options are appended.
Resolved(o, l) ==
    [args   |-> IF o.args = <<>> THEN l.args ELSE o.args,
     quota  |-> IF o.cpu = {} THEN l.quota ELSE (Or(o.cpu, 0) \div 10) * Period,
     memory |-> Or(o.memory, l.memory),
     envs   |-> l.envs \o o.envs,
     ports  |-> o.ports, detached |-> o.detached]

\* add_port_forwarding works through the pairs and ends at the first one of
\* which iptables refuses a rule; its first rule may be in place by then.
Before(pairs) == {pairs[i] : i \in {j \in DOMAIN pairs : \A k \in 1..j : pairs[k] \notin Unfit}}
UpTo(pairs)   == {pairs[i] : i \in {j \in DOMAIN pairs : \A k \in 1..(j-1) : pairs[k] \notin Unfit}}

AllPublished(specs) == /\ HandlePorts(specs).result = "ok"
                       /\ ToSet(HandlePorts(specs).pairs) \cap Unfit = {}

\* setup_cgroups: the kernel refuses a quota out of its range, and the launch
\* ends.  In the foreground the ports are published before that, and the launch
\* ends if one cannot be; in the background when the container runs already, and
\* its supervisor ends if one cannot be.  old is what is forwarded already to the
\* address of the container.
Launch(o, old) ==
    \E l \in layout :
       LET r      == Resolved(o, l)
           pairs  == HandlePorts(o.ports).pairs
           fits   == r.quota \in MinQuota..MaxQuota
           begins == fits /\ (o.detached \/ AllPublished(o.ports))
       IN  /\ starts < MaxStarts
           /\ starts' = starts + 1
           /\ IF o.detached /\ ~fits THEN published' = old
              ELSE \E now \in {Before(pairs), UpTo(pairs)} : published' = old \cup now
           /\ IF begins
              THEN /\ cfg' = {r}
                   /\ up' = TRUE
                   /\ original' = IF original = {} THEN {[first |-> r, envs |-> o.envs]} ELSE original
              ELSE UNCHANGED <<cfg, up, original>>
           /\ UNCHANGED <<build, layout>>

\* Every run is one of a new container, with an address of its own.
Run(o) == stage = "built" /\ cfg = {} /\ Launch(o, {})

\* Nobody takes the ports back if the supervisor is gone.
Exit ==
    /\ up
    /\ up' = FALSE
    /\ \E c \in cfg :
          published' = IF AllPublished(c.ports)
                       THEN published \ ToSet(HandlePorts(c.ports).pairs) ELSE published
    /\ UNCHANGED <<build, layout, cfg, starts, original>>

\* Mutant: the options are looked up in the layout again.
StartOptionsDefault(c) == [args |-> <<>>, cpu |-> {}, memory |-> {}, envs |-> c.envs,
                           ports |-> c.ports, detached |-> c.detached]

\* start_container and autostart_detached: the stored quota is handed over as a
\* number of cores.
StartOptions(c) == [args |-> c.args, cpu |-> {c.quota * 10}, memory |-> {c.memory},
                    envs |-> c.envs, ports |-> c.ports, detached |-> c.detached]

\* Its address may be a new one by then.
Start == ~up /\ \E c \in cfg, old \in {published, {}} : Launch(StartOptions(c), old)

\* The layout is built anew under its container.
Rebuild ==
    /\ cfg # {}
    /\ layout' \in {{l} : l \in Rebuilt}
    /\ UNCHANGED <<build, cfg, up, published, starts, original>>

OptionsNext ==
    \/ Parse \/ Instruction \/ BuildFails \/ Save \/ Built
    \/ \E o \in CliOptions : Run(o)
    \/ Exit \/ Start \/ Rebuild

OptionsSpec == OptionsInit /\ [][OptionsNext]_optionVars
-----------------------------------------------------------------------------
(* What the first n lines of the Crabtainerfile say.                        *)
LinesOf(key, n) == {i \in 1..n : file[i].key = key}
LastOf(key, n)  == LET lines == LinesOf(key, n)
                   IN  IF lines = {} THEN {} ELSE {file[Max(lines)].arg}

\* The base images that say something of an entry of the config.
Images(entry, none, n) ==
    {i \in LinesOf("FROM", n) :
        \E image \in ImageConfig[file[i].arg[1]] : image[entry] # none}

FirstImage(entry, none, n) ==
    LET images == Images(entry, none, n)
    IN  IF images = {} THEN none
        ELSE (CHOOSE image \in ImageConfig[file[Min(images)].arg[1]] : TRUE)[entry]

Meaning(n) ==
    [args   |-> Or(LastOf("CMD", n), FirstImage("args", <<>>, n)),
     quota  |-> (Or({arg[1] : arg \in LastOf("CPU_LIMIT", n)}, 10) * Period) \div 10,
     memory |-> Or({Bytes(arg[1]) : arg \in LastOf("MEMORY_LIMIT", n)}, Factor ^ 3),
     cwd    |-> Or({arg[1] : arg \in LastOf("WORKDIR", n)},
                   Or(FirstImage("cwd", {}, n), Root)),
     envs   |-> FirstImage("envs", <<>>, n)]

(* A layout has what its Crabtainerfile says: of several instructions the
   last counts, of several base images the first that says something, and an
   instruction counts more than an image, wherever it stands.  A file with a
   wrong line builds nothing.                                              *)
LayoutIsAsWritten ==
    stage = "saved" => /\ \A i \in DOMAIN file : Skipped(file[i]) \/ Valid(file[i])
                       /\ layout = {Meaning(Len(file))}

(* "Files matched by .crabtainerignore are excluded" from a COPY, and no
   others: the last rule that matches a path decides, and what is below an
   ignored directory is out, whatever a later rule says of it; but what the
   COPY names, or its glob finds, is taken in any case, and below a source
   that begins with "." the rules match the paths with the dot: a rule
   without a wildcard matches none of them.                                *)
CopyTakesTheRest ==
    stage = "saved" =>
        copied = UNION {Wanted(rules, file[i].arg[1]) : i \in LinesOf("COPY", Len(file))}

(* A container that runs has no ports but those it was asked to have, one by
   one, and all of those whose specifications come before the first one of
   which iptables refuses a pair; none at all if a specification is neither a
   pair nor two ranges of one size.  Left out are ranges that go down, with an
   offset or of more than two texts: the code takes the first for empty, if
   the sizes are equal as u32, uses the host's numbers for the second, and
   forgets the third text.                                                 *)
Regular(spec) ==
    Len(spec) = 2 /\ Ranged(spec[1]) /\ Ranged(spec[2]) =>
        /\ \A s \in {1, 2} : /\ Len(spec[s]) = 2
                             /\ \/ NaN \in {spec[s][1], spec[s][2]}
                                \/ spec[s][1] <= spec[s][2]
        /\ IsRange(spec) => spec[1] = spec[2]

FitUpTo(specs, n) == \A i \in 1..n : Meant(specs[i]) \cap Unfit = {}

PortsAsMeant ==
    \A c \in cfg : up /\ (\A spec \in ToSet(c.ports) : Regular(spec)) =>
        IF \A spec \in ToSet(c.ports) : IsPair(spec) \/ IsRange(spec)
        THEN /\ published \subseteq UNION {Meant(spec) : spec \in ToSet(c.ports)}
             /\ \A n \in DOMAIN c.ports :
                   FitUpTo(c.ports, n) => Meant(c.ports[n]) \subseteq published
        ELSE published = {}

\* The last of several variables of one name counts.
ValueOf(name, envs) == envs[Max({i \in DOMAIN envs : envs[i][1] = name})]

(* "Starts a stopped container again with its original options": whatever
   the layout has become, the command (unless the first launch had none), the
   memory limit and the ports are those of the first launch, each variable
   given with -e has its value last in the environment, and the CPU limit is
   not below the one of the first launch.  It is not the same: the quota of
   each launch is taken for cores.                                         *)
StartsWithItsOptions ==
    \A c \in cfg, a \in original :
        /\ a.first.args # <<>> => c.args = a.first.args
        /\ c.memory = a.first.memory
        /\ c.ports = a.first.ports /\ c.detached = a.first.detached
        /\ c.quota >= a.first.quota
        /\ \A given \in ToSet(a.envs) :
              ValueOf(given[1], c.envs) = ValueOf(given[1], a.envs)
=============================================================================
