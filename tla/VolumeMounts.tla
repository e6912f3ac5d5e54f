---------------------------- MODULE VolumeMounts ----------------------------
(***************************************************************************)
(* Named volumes (engine/runtime/container.rs, the loop over the volumes   *)
(* of a launch, and bin/crabtainer.rs, volume create and remove).  The     *)
(* first launch that uses a volume makes its directory, copies what the    *)
(* image has at the mount point into it, and mounts it; later ones only    *)
(* mount it.  Detached launches take volumes/<name> for the volume and     *)
(* keep its config.json there; foreground ones take volumes/<name>/_data   *)
(* and write the config.json over what they have copied.  Both mount       *)
(* _data.                                                                  *)
(*                                                                         *)
(* Nothing locks a volume: launches, containers and commands interleave    *)
(* file by file.                                                           *)
(***************************************************************************)
EXTENDS Naturals, Sequences

CONSTANTS
    Volumes,
    Launches,   \* launches that can be under way or running at once
    Detached,   \* the launches with -d
    Uses,       \* launch -> its volumes, in order
    ImageFiles, \* what the image has at the mount points
    Regular,    \* the regular files of it: not links, devices, sockets
    Config,     \* the name config.json
    NewFiles,   \* other files a container may write
    MaxInodes   \* bound: the directories ever made

ASSUME VolumeConstants == /\ Detached \subseteq Launches
                          /\ Uses \in [Launches -> Seq(Volumes)]
                          /\ Regular \subseteq ImageFiles
                          /\ MaxInodes \in Nat

Files  == ImageFiles \cup NewFiles \cup {Config}
Inodes == 0..MaxInodes  \* 0: there is no such directory

VARIABLES
    made,     \* the volumes whose directory exists
    data,     \* volume -> the directory volumes/<name>/_data
    content,  \* directory -> what each file in it is
    inodes,   \* how many directories were made
    at,       \* where each launch is
    vol,      \* how many of its volumes a launch has mounted
    todo,     \* the files it still has to copy
    bound,    \* launch -> volume -> the directory mounted there
    removing, \* the volumes whose files volume remove has deleted
    unsure,   \* history: volumes whose first use broke off, or met another use
    evicted   \* history: launches a volume was removed under

vars == <<made, data, content, inodes, at, vol, todo, bound, removing, unsure, evicted>>

Seeding == {"mkdir", "mkdata", "copy", "config"}
Places  == {"idle", "look", "bind", "running"} \cup Seeding

TypeOK ==
    /\ made \subseteq Volumes
    /\ data \in [Volumes -> Inodes]
    /\ \A v \in Volumes : data[v] # 0 => v \in made /\ data[v] <= inodes
    /\ content \in [Inodes -> [Files -> {"none", "image", "config", "written"}]]
    /\ inodes \in Inodes
    /\ at \in [Launches -> Places]
    /\ vol \in [Launches -> Nat]
    /\ \A l \in Launches : vol[l] <= Len(Uses[l])
    /\ todo \in [Launches -> SUBSET ImageFiles]
    /\ bound \in [Launches -> [Volumes -> Inodes]]
    /\ removing \subseteq made
    /\ unsure \subseteq Volumes
    /\ evicted \subseteq Launches

Nothing == [v \in Volumes |-> 0]
Empty   == [f \in Files |-> "none"]

Init ==
    /\ made = {}
    /\ data = Nothing
    /\ content = [i \in Inodes |-> Empty]
    /\ inodes = 0
    /\ at = [l \in Launches |-> "idle"]
    /\ vol = [l \in Launches |-> 0]
    /\ todo = [l \in Launches |-> {}]
    /\ bound = [l \in Launches |-> Nothing]
    /\ removing = {}
    /\ unsure = {}
    /\ evicted = {}

-----------------------------------------------------------------------------
(* A launch *)

Vol(l)   == Uses[l][vol[l] + 1]
Goto(l, p) == at' = [at EXCEPT ![l] = p]

Working(l, v) == /\ at[l] \in {"look", "bind"} \cup Seeding
                 /\ vol[l] < Len(Uses[l])
                 /\ Vol(l) = v

\* Somebody else is in the middle of a use of l's volume, and one of the two is
\* the first use.
Meets(l, first) == \E m \in Launches \ {l} :
                      /\ Working(m, Vol(l))
                      /\ at[m] \in Seeding \/ (first /\ at[m] = "bind")

Launch(l) ==
    /\ at[l] = "idle"
    /\ Goto(l, "look")
    /\ UNCHANGED <<made, data, content, inodes, vol, todo, bound, removing, unsure, evicted>>

Exists(l, v) == IF l \in Detached THEN v \in made ELSE data[v] # 0

\* Mutant: the volume is filled on every use.
LookAlways(l) ==
    /\ at[l] = "look"
    /\ vol[l] < Len(Uses[l])
    /\ Goto(l, "mkdir")
    /\ unsure' = IF Meets(l, TRUE) THEN unsure \cup {Vol(l)} ELSE unsure
    /\ evicted' = IF Vol(l) \in removing THEN evicted \cup {l} ELSE evicted
    /\ UNCHANGED <<made, data, content, inodes, vol, todo, bound, removing>>

\* fs::metadata on the volume: filled on first use only.
Look(l) ==
    /\ at[l] = "look"
    /\ vol[l] < Len(Uses[l])
    /\ Goto(l, IF Exists(l, Vol(l)) THEN "bind" ELSE "mkdir")
    /\ unsure' = IF Meets(l, ~Exists(l, Vol(l))) THEN unsure \cup {Vol(l)} ELSE unsure
    /\ evicted' = IF Vol(l) \in removing THEN evicted \cup {l} ELSE evicted
    /\ UNCHANGED <<made, data, content, inodes, vol, todo, bound, removing>>

\* create_dir_all makes <name> and then _data, if they are not there.
MakeVolume(l) ==
    /\ at[l] = "mkdir"
    /\ made' = made \cup {Vol(l)}
    /\ Goto(l, "mkdata")
    /\ UNCHANGED <<data, content, inodes, vol, todo, bound, removing, unsure, evicted>>

MakeData(l) ==
    /\ at[l] = "mkdata"
    /\ Vol(l) \in made
    /\ IF data[Vol(l)] = 0
       THEN /\ inodes < MaxInodes
            /\ inodes' = inodes + 1
            /\ data' = [data EXCEPT ![Vol(l)] = inodes + 1]
       ELSE UNCHANGED <<inodes, data>>
    /\ todo' = [todo EXCEPT ![l] = ImageFiles]
    /\ Goto(l, "copy")
    /\ UNCHANGED <<made, content, vol, bound, removing, unsure, evicted>>

\* copy_dir_all overwrites what is there, and skips what is no regular file.
Copy(l, f) ==
    /\ at[l] = "copy"
    /\ f \in todo[l]
    /\ IF f \in Regular
       THEN /\ data[Vol(l)] # 0
            /\ content' = [content EXCEPT ![data[Vol(l)]][f] = "image"]
       ELSE UNCHANGED content
    /\ todo' = [todo EXCEPT ![l] = @ \ {f}]
    /\ UNCHANGED <<made, data, inodes, at, vol, bound, removing, unsure, evicted>>

Copied(l) ==
    /\ at[l] = "copy"
    /\ todo[l] = {}
    /\ Goto(l, IF l \in Detached THEN "bind" ELSE "config")
    /\ UNCHANGED <<made, data, content, inodes, vol, todo, bound, removing, unsure, evicted>>

\* The config.json of a foreground launch goes into _data.
WriteConfig(l) ==
    /\ at[l] = "config"
    /\ data[Vol(l)] # 0
    /\ content' = [content EXCEPT ![data[Vol(l)]][Config] = "config"]
    /\ Goto(l, "bind")
    /\ UNCHANGED <<made, data, inodes, vol, todo, bound, removing, unsure, evicted>>

\* Mutant: a missing _data is made, as the mount point is.
BindMaking(l) ==
    /\ at[l] = "bind"
    /\ Vol(l) \in made
    /\ IF data[Vol(l)] = 0
       THEN /\ inodes < MaxInodes
            /\ inodes' = inodes + 1
            /\ data' = [data EXCEPT ![Vol(l)] = inodes + 1]
       ELSE UNCHANGED <<inodes, data>>
    /\ bound' = [bound EXCEPT ![l][Vol(l)] = data'[Vol(l)]]
    /\ vol' = [vol EXCEPT ![l] = @ + 1]
    /\ Goto(l, "look")
    /\ UNCHANGED <<made, content, todo, removing, unsure, evicted>>

\* mount --bind volumes/<name>/_data
Bind(l) ==
    /\ at[l] = "bind"
    /\ data[Vol(l)] # 0
    /\ bound' = [bound EXCEPT ![l][Vol(l)] = data[Vol(l)]]
    /\ vol' = [vol EXCEPT ![l] = @ + 1]
    /\ Goto(l, "look")
    /\ UNCHANGED <<made, data, content, inodes, todo, removing, unsure, evicted>>

\* The rest of the setup, and the container.
Run(l) ==
    /\ at[l] = "look"
    /\ vol[l] = Len(Uses[l])
    /\ Goto(l, "running")
    /\ UNCHANGED <<made, data, content, inodes, vol, todo, bound, removing, unsure, evicted>>

Gone(l) == /\ Goto(l, "idle")
           /\ vol' = [vol EXCEPT ![l] = 0]
           /\ todo' = [todo EXCEPT ![l] = {}]
           /\ bound' = [bound EXCEPT ![l] = Nothing]
           /\ evicted' = evicted \ {l}

\* A launch is killed or panics: the disk is full, a directory it needs is
\* not there.  Its mounts are in the way of nobody else.
Fails(l) ==
    /\ at[l] \in {"look", "bind"} \cup Seeding
    /\ unsure' = IF at[l] \in Seeding THEN unsure \cup {Vol(l)} ELSE unsure
    /\ Gone(l)
    /\ UNCHANGED <<made, data, content, inodes, removing>>

-----------------------------------------------------------------------------
(* Containers *)

Write(l, v, f) ==
    /\ at[l] = "running"
    /\ bound[l][v] # 0
    /\ content' = [content EXCEPT ![bound[l][v]][f] = "written"]
    /\ UNCHANGED <<made, data, inodes, at, vol, todo, bound, removing, unsure, evicted>>

Exit(l) ==
    /\ at[l] = "running"
    /\ Gone(l)
    /\ UNCHANGED <<made, data, content, inodes, removing, unsure>>

-----------------------------------------------------------------------------
(* Commands *)

\* volume create makes <name> and no _data.
Create(v) ==
    /\ v \notin made
    /\ made' = made \cup {v}
    /\ UNCHANGED <<data, content, inodes, at, vol, todo, bound, removing, unsure, evicted>>

\* volume remove asks nobody: first the files ...
RemoveFiles(v) ==
    /\ v \in made
    /\ IF data[v] = 0 THEN UNCHANGED content
                      ELSE content' = [content EXCEPT ![data[v]] = Empty]
    /\ removing' = removing \cup {v}
    /\ evicted' = evicted \cup {l \in Launches : bound[l][v] # 0 \/ Working(l, v)}
    /\ UNCHANGED <<made, data, inodes, at, vol, todo, bound, unsure>>

\* ... then the directories, unless somebody has put a file there meanwhile.
\* A volume nobody is about to use begins afresh.
RemoveDirs(v) ==
    /\ v \in removing
    /\ removing' = removing \ {v}
    /\ IF data[v] # 0 /\ content[data[v]] # Empty
       THEN /\ unsure' = unsure \cup {v}
            /\ UNCHANGED <<made, data>>
       ELSE /\ made' = made \ {v}
            /\ data' = [data EXCEPT ![v] = 0]
            /\ unsure' = IF \E l \in Launches : Working(l, v)
                         THEN unsure \cup {v} ELSE unsure \ {v}
    /\ UNCHANGED <<content, inodes, at, vol, todo, bound, evicted>>

-----------------------------------------------------------------------------
Next ==
    \/ \E l \in Launches :
          \/ Launch(l) \/ Look(l) \/ MakeVolume(l) \/ MakeData(l)
          \/ Copied(l) \/ WriteConfig(l) \/ Bind(l) \/ Run(l) \/ Fails(l) \/ Exit(l)
          \/ \E f \in ImageFiles : Copy(l, f)
          \/ \E v \in Volumes, f \in Files : Write(l, v, f)
    \/ \E v \in Volumes : Create(v) \/ RemoveFiles(v) \/ RemoveDirs(v)

Spec == Init /\ [][Next]_vars

-----------------------------------------------------------------------------
(* "The container directory at the destination path is seeded into the
   volume": a container finds in its volumes every regular file that the
   image has there, as it was or as a container has written it, whoever
   used, created or removed the volume before, unless the first use broke
   off or met another one, or the volume was removed under it.  Links and
   special files of the image are not seeded, and in place of a config.json
   there may be that of the volume.                                        *)
SeedIsWhole ==
    \A l \in Launches \ evicted, v \in Volumes \ unsure :
        at[l] = "running" /\ bound[l][v] # 0
            => \A f \in Regular :
                  content[bound[l][v]][f] \in
                      {"image", "written"} \cup (IF f = Config THEN {"config"} ELSE {})

(* Volumes "persist independently of the container": what a container has
   written stays until the volume is removed; no later launch puts the file
   of the image back.                                                      *)
WrittenStays ==
    \A v \in Volumes \ unsure, f \in Files :
        data[v] # 0 /\ data'[v] = data[v] /\ content[data[v]][f] = "written"
            => content'[data[v]][f] = "written" \/ v \in removing'
WritesSurvive == [][WrittenStays]_vars
=============================================================================
