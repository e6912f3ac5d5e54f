------------------------------- MODULE Store -------------------------------
(***************************************************************************)
(* The stores on disk: images (engine/build/instructions/download.rs,      *)
(* from.rs), layouts (engine/build/builder.rs, copy.rs, run.rs, spec.rs)   *)
(* layouts that are made images (publish.rs) and the containers that use   *)
(* layouts (engine/runtime/container.rs), with the commands of             *)
(* bin/crabtainer.rs that work on them: build, image pull, image rm,       *)
(* layout rm, layout publish, run, start.                                  *)
(*                                                                         *)
(* Every command is a process; there are no locks.  An error return and a  *)
(* kill leave the stores as they are at that moment: BreaksOff is both.    *)
(***************************************************************************)
EXTENDS Naturals, Sequences, FiniteSets, SequencesExt

CONSTANTS
    Images,      \* aliases
    Layouts,     \* tags
    Others,      \* may the store hold further layouts, which nobody uses?
    Containers,
    CLIs,
    Roles,       \* what the CLIs may be there for: CLI -> its commands
    Versions,    \* what the registry serves for the reference, over time
    NumLayers,   \* version -> layers
    MaxLayers,   \* bound: layers of an image
    NumMounts,   \* pseudo-filesystems that RUN mounts: proc, sys and dev
    Script,      \* the instructions of the Crabtainerfile
    MaxContent,  \* bound: a layout with more in it is not built upon again
    MaxMounts    \* bound: mounts on top of each other

Instructions == {"download", "override", "from", "copy", "run"}

ASSUME StoreConstants ==
    /\ {"none", "absent", "partial", "packed"} \cap Versions = {}
    /\ "none" \notin Images \cup Layouts \cup Containers \cup CLIs
    /\ IsFiniteSet(CLIs)
    /\ MaxLayers \in Nat \ {0}
    /\ NumLayers \in [Versions -> 1..MaxLayers]
    /\ Script \in Seq(Instructions)
    /\ Others \in BOOLEAN
    /\ {MaxContent, MaxMounts} \subseteq Nat
    /\ NumMounts \in Nat \ {0}

VARIABLES
    role,        \* CLI -> the commands it gives, which never change
    image,       \* alias -> its directory
    layout,      \* tag -> its directory, and the mounts in its rootfs
    used,        \* container -> the layout in its config.json, or None
    overlay,     \* container -> the layout mounted under it, or None
    unreadable,  \* the containers whose config.json is being rewritten, or torn
    cli,         \* what each command does
    \* history: what a fault or an overlap has hit
    badImages, badLayouts, pinned, raced

store   == <<image, layout>>
runtime == <<used, overlay, unreadable>>
history == <<badImages, badLayouts, pinned, raced>>
vars    == <<role, store, runtime, cli, history>>

None == "none"
Absent == "absent"
Partial == "partial"
Packed == "packed"  \* what publish makes of a layout, an image of one layer
Numbers == 1..MaxLayers
Origins == Versions \cup {Packed}
Size(v) == IF v = Packed THEN 1 ELSE NumLayers[v]

\* A layer in a root filesystem, and what COPY adds to it.
Layer(v, i) == <<v, i>>
Copied == <<None, 0>>

NoImage == [present |-> FALSE, config |-> None, layers |-> [i \in Numbers |-> Absent]]
NoLayout == [present |-> FALSE, config |-> None, rootfs |-> <<>>, archive |-> Absent,
             mounts |-> [m \in 1..NumMounts |-> 0]]
Idle == [at |-> "idle", cmd |-> None, image |-> None, layout |-> None, c |-> None,
         todo |-> <<>>, i |-> 0, v |-> None, files |-> {}, ok |-> TRUE, keep |-> {},
         seen |-> {}, skipped |-> {}]

Filling == {"mkdir", "manifest", "layer", "blob", "move", "describe"}
Running == {"mounting", "running", "unmounting"}
Places == {"idle", "start", "next", "unpack", "look", "removing", "check", "config",
           "pack", "publish"} \cup Filling \cup Running

Commands == {"pull", "build", "rm", "run", "publish"}

ImageDirs ==
    [present : BOOLEAN, config : Origins \cup {None},
     layers : [Numbers -> {Absent, Partial} \cup Origins]]

LayoutDirs ==
    [present : BOOLEAN, config : {None, "image", "spec"},
     rootfs : Seq(((Origins \cup {Partial}) \X Numbers) \cup {Copied}),
     archive : {Absent, Partial, Packed}, mounts : [1..NumMounts -> 0..MaxMounts]]

AtWork ==
    [at : Places, cmd : Commands \cup {None}, image : Images \cup {None},
     layout : Layouts \cup {None}, c : Containers \cup {None},
     todo : Seq(Instructions \cup {"save"}), i : Nat, v : Versions \cup {None},
     files : SUBSET Numbers, ok : BOOLEAN, keep : SUBSET (Layouts \cup {None}),
     seen : SUBSET Containers, skipped : SUBSET Containers]

TypeOK ==
    /\ role \in Roles
    /\ image \in [Images -> ImageDirs]
    /\ layout \in [Layouts -> LayoutDirs]
    /\ {used, overlay} \subseteq [Containers -> Layouts \cup {None}]
    /\ cli \in [CLIs -> AtWork]
    /\ badImages \subseteq Images /\ badLayouts \cup pinned \subseteq Layouts
    /\ raced \cup unreadable \subseteq Containers

Init ==
    /\ role \in Roles
    /\ image = [a \in Images |-> NoImage]
    /\ layout = [l \in Layouts |-> NoLayout]
    /\ used = [c \in Containers |-> None]
    /\ overlay = [c \in Containers |-> None]
    /\ unreadable = {}
    /\ cli = [k \in CLIs |-> Idle]
    /\ badImages = {} /\ badLayouts = {} /\ pinned = {} /\ raced = {}

-----------------------------------------------------------------------------
(* Commands begin and end *)

Busy == {k \in CLIs : cli[k].at # "idle"}

Goes(k, where) == cli' = [cli EXCEPT ![k].at = where]
Ends(k) == cli' = [cli EXCEPT ![k] = Idle]

\* The instruction is carried out.
Advanced(d) ==
    IF Len(d.todo) = 1 THEN Idle
    ELSE [d EXCEPT !.at = "next", !.todo = Tail(@), !.i = 0, !.v = None]

Advances(k) == cli' = [cli EXCEPT ![k] = Advanced(@)]

\* The instruction command k comes to.
Does(k, instructions) ==
    /\ cli[k].at = "next"
    /\ cli[k].todo # <<>>
    /\ Head(cli[k].todo) \in instructions

\* The other commands that work on image a, or write layout l.
OnImage(k, a) == {j \in Busy \ {k} : cli[j].image = a}
OnLayout(k, l) ==
    {j \in Busy \ {k} : \/ cli[j].cmd \in {"build", "rm"} /\ cli[j].layout = l
                        \/ cli[j].cmd = "rm" /\ cli[j].layout = None}

Mounted(l) == \E m \in 1..NumMounts : layout[l].mounts[m] > 0

\* A command that meets others on an image or a layout spoils it for all.
Meets(k, a, l) ==
    LET met == OnImage(k, a) \cup OnLayout(k, l)
    IN  /\ badImages' = badImages \cup (IF OnImage(k, a) = {} THEN {} ELSE {a})
        /\ badLayouts' = badLayouts \cup
              (IF met = {} THEN {} ELSE ({l} \cup {cli[j].layout : j \in met}) \ {None})
        /\ UNCHANGED <<pinned, raced>>

\* image pull: the check of the command looks for a container of that name.
IssuePull(k, a, step) ==
    /\ cli[k].at = "idle"
    /\ cli' = [cli EXCEPT ![k] = [Idle EXCEPT !.at = "next", !.cmd = "pull",
                                              !.image = a, !.todo = <<step>>]]
    /\ Meets(k, a, None)
    /\ UNCHANGED <<store, runtime>>

\* build: the check of the command looks for an image of that name.
IssueBuild(k, a, l) ==
    /\ cli[k].at = "idle"
    /\ l \in Images => ~image[l].present
    /\ Len(layout[l].rootfs) <= MaxContent
    /\ cli' = [cli EXCEPT ![k] = [Idle EXCEPT !.at = "start", !.cmd = "build", !.image = a,
                                              !.layout = l, !.todo = Script \o <<"save">>]]
    /\ Meets(k, a, l)
    /\ UNCHANGED <<store, runtime>>

IssueRm(k, l) ==
    /\ cli[k].at = "idle"
    /\ cli' = [cli EXCEPT ![k] = [Idle EXCEPT !.at = "look", !.cmd = "rm", !.layout = l]]
    /\ badLayouts' = badLayouts \cup
          {d \in Layouts : l \in {d, None} /\ OnLayout(k, d) # {}}
    /\ UNCHANGED <<store, runtime, badImages, pinned, raced>>

\* run for a new container, start for one that has a config it can read.
IssueRun(k, c, l) ==
    /\ cli[k].at = "idle"
    /\ overlay[c] = None
    /\ used[c] \in {None, l} /\ c \notin unreadable
    /\ \A j \in Busy : cli[j].c # c
    /\ cli' = [cli EXCEPT ![k] = [Idle EXCEPT !.at = "check", !.cmd = "run",
                                              !.layout = l, !.c = c]]
    /\ UNCHANGED <<store, runtime, history>>

\* image rm
RmImage(k, a) ==
    /\ cli[k].at = "idle"
    /\ image[a].present
    /\ image' = [image EXCEPT ![a] = NoImage]
    /\ Meets(k, a, None)
    /\ UNCHANGED <<layout, runtime, cli>>

\* image rm breaks off: the directory stays, with its config.
RmImageHalf(k, a) ==
    /\ cli[k].at = "idle"
    /\ image[a].present
    /\ image' = [image EXCEPT ![a].layers = NoImage.layers]
    /\ badImages' = badImages \cup {a}
    /\ badLayouts' = badLayouts \cup ({cli[j].layout : j \in OnImage(k, a)} \ {None})
    /\ UNCHANGED <<layout, runtime, cli, pinned, raced>>

-----------------------------------------------------------------------------
(* download_image_if_missing *)

\* Mutant: OVERRIDE downloads over the old image.
DownloadOverOld(k) ==
    LET a == cli[k].image
    IN  /\ Does(k, {"download", "override"})
        /\ IF image[a].present /\ Head(cli[k].todo) = "download"
           THEN Advances(k)
           ELSE Goes(k, "mkdir")
        /\ UNCHANGED <<store, runtime, history>>

Download(k) ==
    LET a == cli[k].image
    IN  /\ Does(k, {"download", "override"})
        /\ IF image[a].present /\ Head(cli[k].todo) = "download"
           THEN Advances(k) /\ UNCHANGED image
           ELSE Goes(k, "mkdir") /\ image' = [image EXCEPT ![a] = NoImage]
        /\ UNCHANGED <<layout, runtime, history>>

\* A directory that is new and has one user is as good as none before it.
MakeImageDir(k) ==
    LET a == cli[k].image
    IN  /\ cli[k].at = "mkdir"
        /\ image' = [image EXCEPT ![a].present = TRUE]
        /\ badImages' = IF image[a].present \/ OnImage(k, a) # {}
                        THEN badImages ELSE badImages \ {a}
        /\ Goes(k, "manifest")
        /\ UNCHANGED <<layout, runtime, badLayouts, pinned, raced>>

FetchManifest(k) ==
    /\ cli[k].at = "manifest"
    /\ image[cli[k].image].present
    /\ \E v \in Versions :
          /\ image' = [image EXCEPT ![cli[k].image].config = v]
          /\ cli' = [cli EXCEPT ![k].at = "layer", ![k].v = v, ![k].i = 1]
    /\ UNCHANGED <<layout, runtime, history>>

CreateLayer(k) ==
    /\ cli[k].at = "layer"
    /\ image[cli[k].image].present
    /\ image' = [image EXCEPT ![cli[k].image].layers[cli[k].i] = Partial]
    /\ Goes(k, "blob")
    /\ UNCHANGED <<layout, runtime, history>>

\* The file may have been removed meanwhile: then the blob goes nowhere.
PullBlob(k) ==
    LET a == cli[k].image
        i == cli[k].i
    IN  /\ cli[k].at = "blob"
        /\ image' = [image EXCEPT ![a].layers[i] = IF @ = Partial THEN cli[k].v ELSE @]
        /\ IF i = NumLayers[cli[k].v]
           THEN Advances(k)
           ELSE cli' = [cli EXCEPT ![k].at = "layer", ![k].i = i + 1]
        /\ UNCHANGED <<layout, runtime, history>>

-----------------------------------------------------------------------------
(* build_layout *)

\* An existing layout is warned about, and built upon.
BuildStart(k) ==
    LET l == cli[k].layout
        fresh == ~layout[l].present /\ OnLayout(k, l) = {} /\ OnImage(k, cli[k].image) = {}
    IN  /\ cli[k].at = "start"
        /\ layout' = [layout EXCEPT ![l].present = TRUE]
        /\ badLayouts' = IF fresh THEN badLayouts \ {l} ELSE badLayouts \cup {l}
        /\ Goes(k, "next")
        /\ UNCHANGED <<image, runtime, badImages, pinned, raced>>

\* The layer files, by their numbers.
Files(a) == {i \in Numbers : image[a].layers[i] # Absent}

\* Mutant: layer_1 goes on top of layer_2.
NextDownward(i, files) == i \in files /\ \A j \in files : j <= i

\* They are sorted, and unpacked in that order.
NextFile(i, files) == i \in files /\ \A j \in files : i <= j

\* FROM makes the root filesystem it unpacks to, and fails without an image.
From(k) ==
    LET a == cli[k].image
    IN  /\ Does(k, {"from"})
        /\ image[a].present
        /\ Files(a) # {}
        /\ layout' = [layout EXCEPT ![cli[k].layout].present = TRUE]
        /\ cli' = [cli EXCEPT ![k].at = "unpack", ![k].files = Files(a)]
        /\ badLayouts' = badLayouts \cup (IF a \in badImages THEN {cli[k].layout} ELSE {})
        /\ UNCHANGED <<image, runtime, badImages, pinned, raced>>

\* Mutant: a layer that is gone or cut short is unpacked as far as it goes.
UnpackTruncated(k) ==
    \E i \in Numbers :
        LET a == cli[k].image
            l == cli[k].layout
        IN  /\ cli[k].at = "unpack"
            /\ layout[l].present
            /\ NextFile(i, cli[k].files)
            /\ layout' = [layout EXCEPT
                  ![l].rootfs = Append(@, Layer(image[a].layers[i], i)),
                  ![l].config = IF image[a].config = None THEN @ ELSE "image"]
            /\ IF cli[k].files = {i}
               THEN Advances(k)
               ELSE cli' = [cli EXCEPT ![k].files = @ \ {i}]
            /\ UNCHANGED <<image, runtime, history>>

\* A layer that is gone or cut short is an error; an entry of it that cannot be
\* unpacked is only warned about, and missing from the root filesystem.  The
\* image's config comes with every layer.
Unpack(k) ==
    \E i \in Numbers :
        LET a == cli[k].image
            l == cli[k].layout
        IN  /\ cli[k].at = "unpack"
            /\ layout[l].present
            /\ NextFile(i, cli[k].files)
            /\ image[a].layers[i] \in Origins
            /\ \E unpacked \in {image[a].layers[i], Partial} :
                  /\ layout' = [layout EXCEPT
                        ![l].rootfs = Append(@, Layer(unpacked, i)),
                        ![l].config = IF image[a].config = None THEN @ ELSE "image"]
                  /\ badLayouts' = badLayouts \cup (IF unpacked = Partial THEN {l} ELSE {})
            /\ IF cli[k].files = {i}
               THEN Advances(k)
               ELSE cli' = [cli EXCEPT ![k].files = @ \ {i}]
            /\ UNCHANGED <<image, runtime, badImages, pinned, raced>>

\* COPY makes the directories it needs.
Copy(k) ==
    LET l == cli[k].layout
    IN  /\ Does(k, {"copy"})
        /\ layout' = [layout EXCEPT ![l].present = TRUE, ![l].rootfs = Append(@, Copied)]
        /\ Advances(k)
        /\ UNCHANGED <<image, runtime, history>>

\* RUN writes resolv.conf first, which takes a root filesystem.
Run(k) ==
    LET l == cli[k].layout
    IN  /\ Does(k, {"run"})
        /\ layout[l].rootfs # <<>>
        /\ cli' = [cli EXCEPT ![k].at = "mounting", ![k].i = 1]
        /\ UNCHANGED <<store, runtime, history>>

MountOne(k) ==
    LET l == cli[k].layout
        m == cli[k].i
    IN  /\ cli[k].at = "mounting"
        /\ layout[l].rootfs # <<>>
        /\ layout[l].mounts[m] < MaxMounts
        /\ layout' = [layout EXCEPT ![l].mounts[m] = @ + 1]
        /\ cli' = [cli EXCEPT ![k].at = IF m = NumMounts THEN "running" ELSE @,
                              ![k].i = m + 1]
        /\ UNCHANGED <<image, runtime, history>>

\* Mutant: a command that fails returns before the unmounts.
CommandReturns(k) ==
    /\ cli[k].at = "running"
    /\ \/ /\ cli' = [cli EXCEPT ![k].at = "unmounting", ![k].i = 1]
          /\ UNCHANGED badLayouts
       \/ Ends(k) /\ badLayouts' = badLayouts \cup {cli[k].layout}
    /\ UNCHANGED <<store, runtime, badImages, pinned, raced>>

Command(k) ==
    /\ cli[k].at = "running"
    /\ \E success \in BOOLEAN :
          cli' = [cli EXCEPT ![k].at = "unmounting", ![k].i = 1, ![k].ok = success]
    /\ UNCHANGED <<store, runtime, history>>

\* The status of the command is looked at after the last unmount.
UnmountOne(k) ==
    LET l == cli[k].layout
        m == cli[k].i
    IN  /\ cli[k].at = "unmounting"
        /\ layout[l].mounts[m] > 0
        /\ layout' = [layout EXCEPT ![l].mounts[m] = @ - 1]
        /\ CASE m < NumMounts -> cli' = [cli EXCEPT ![k].i = m + 1] /\ UNCHANGED badLayouts
             [] m = NumMounts /\ cli[k].ok -> Advances(k) /\ UNCHANGED badLayouts
             [] OTHER -> Ends(k) /\ badLayouts' = badLayouts \cup {l}
        /\ UNCHANGED <<image, runtime, badImages, pinned, raced>>

\* An error here is only printed.
Save(k) ==
    LET l == cli[k].layout
    IN  /\ Does(k, {"save"})
        /\ layout' = [layout EXCEPT ![l].config = IF layout[l].present THEN "spec" ELSE @]
        /\ Ends(k)
        /\ UNCHANGED <<image, runtime, history>>

-----------------------------------------------------------------------------
(* publish_layout *)

\* There must be no image of that name, and a config in the layout.
IssuePublish(k, a, l) ==
    /\ cli[k].at = "idle"
    /\ ~image[a].present
    /\ layout[l].config # None
    /\ cli' = [cli EXCEPT ![k] = [Idle EXCEPT !.at = "pack", !.cmd = "publish",
                                              !.image = a, !.layout = l]]
    /\ Meets(k, a, None)
    /\ UNCHANGED <<store, runtime>>

\* The other publishes of layout l, which pack into the same file.
Publishing(k, l) == {j \in Busy \ {k} : cli[j].cmd = "publish" /\ cli[j].layout = l}

\* tar packs what is there into a file in the layout; it may break off, or not
\* begin, and what it returns is only printed.
Pack(k) ==
    LET l == cli[k].layout
        whole == l \notin badLayouts /\ ~Mounted(l) /\ OnLayout(k, l) = {}
    IN  /\ cli[k].at = "pack"
        /\ \E file \in {Packed, Partial, layout[l].archive} :
              /\ layout' = [layout EXCEPT ![l].archive = IF layout[l].present THEN file ELSE @]
              /\ cli' = [j \in CLIs |->
                    CASE j = k -> [cli[k] EXCEPT !.at = "publish",
                                                 !.ok = (file = Packed /\ whole)]
                      [] j \in Publishing(k, l) -> [cli[j] EXCEPT !.ok = FALSE]
                      [] OTHER -> cli[j]]
        /\ badImages' = badImages \cup {cli[j].image : j \in Publishing(k, l)}
        /\ UNCHANGED <<image, runtime, badLayouts, pinned, raced>>

MakePublishedDir(k) ==
    LET a == cli[k].image
    IN  /\ cli[k].at = "publish"
        /\ image' = [image EXCEPT ![a].present = TRUE]
        /\ badImages' = IF image[a].present \/ OnImage(k, a) # {} \/ ~cli[k].ok
                        THEN badImages \cup {a} ELSE badImages \ {a}
        /\ Goes(k, "move")
        /\ UNCHANGED <<layout, runtime, badLayouts, pinned, raced>>

\* Without a file to move the image is removed, whoever made it.
MoveArchive(k) ==
    LET a == cli[k].image
        l == cli[k].layout
    IN  /\ cli[k].at = "move"
        /\ IF layout[l].archive # Absent /\ image[a].present
           THEN /\ image' = [image EXCEPT ![a].layers[1] = layout[l].archive]
                /\ layout' = [layout EXCEPT ![l].archive = Absent]
                /\ Goes(k, "describe")
           ELSE /\ image' = [image EXCEPT ![a] = NoImage]
                /\ UNCHANGED layout
                /\ Ends(k)
        /\ UNCHANGED <<runtime, history>>

Describe(k) ==
    /\ cli[k].at = "describe"
    /\ image[cli[k].image].present
    /\ image' = [image EXCEPT ![cli[k].image].config = Packed]
    /\ Ends(k)
    /\ UNCHANGED <<layout, runtime, history>>

-----------------------------------------------------------------------------
(* layout rm *)

\* Mutant: only containers that run count.
LookAtRunning(k, c) ==
    IF overlay[c] # None /\ overlay[c] = cli[k].layout
    THEN Ends(k)
    ELSE cli' = [cli EXCEPT ![k].seen = @ \cup {c}, ![k].keep = @ \cup {overlay[c]}]

\* A config that cannot be read or parsed is passed over.
LookAt(k, c) ==
    CASE c \in unreadable ->
            cli' = [cli EXCEPT ![k].seen = @ \cup {c}, ![k].skipped = @ \cup {c}]
      [] c \notin unreadable /\ used[c] # None /\ used[c] = cli[k].layout ->
            Ends(k)
      [] OTHER ->
            cli' = [cli EXCEPT ![k].seen = @ \cup {c}, ![k].keep = @ \cup {used[c]}]

\* The configs of all containers are read, one after the other.
Look(k) ==
    /\ cli[k].at = "look"
    /\ \/ \E c \in Containers \ cli[k].seen : LookAt(k, c)
       \/ cli[k].seen = Containers /\ Goes(k, "removing")
    /\ UNCHANGED <<store, runtime, history>>

Present == {l \in Layouts : layout[l].present}

Launching(l) == {cli[j].c : j \in {j \in Busy : cli[j].cmd = "run" /\ cli[j].layout = l}}

RemoveLayout(k) ==
    LET l == cli[k].layout
    IN  /\ cli[k].at = "removing"
        /\ l # None
        /\ ~Mounted(l)
        /\ layout' = [layout EXCEPT ![l] = NoLayout]
        /\ raced' = raced \cup Launching(l) \cup {c \in cli[k].skipped : used[c] = l}
        /\ Ends(k)
        /\ UNCHANGED <<image, runtime, badImages, badLayouts, pinned>>

\* A mount point in the way, or a kill.
RemoveHalf(k) ==
    \E l \in Present :
        /\ cli[k].at = "removing"
        /\ cli[k].layout \in {l, None}
        /\ layout' = [layout EXCEPT ![l].rootfs = <<>>]
        /\ badLayouts' = badLayouts \cup {l}
        /\ Ends(k)
        /\ UNCHANGED <<image, runtime, badImages, pinned, raced>>

\* layout rm . : for each layout that is not used, the directory "." is
\* removed, that is all of them, as far as that goes.
RemoveAll(k) ==
    /\ cli[k].at = "removing"
    /\ cli[k].layout = None
    /\ \/ Present \subseteq cli[k].keep /\ UNCHANGED <<layout, raced>>
       \/ /\ Others \/ ~(Present \subseteq cli[k].keep)
          /\ \E gone \in SUBSET {l \in Present : ~Mounted(l)} :
                /\ layout' = [l \in Layouts |-> IF l \in gone THEN NoLayout ELSE layout[l]]
                /\ raced' = raced \cup
                      {c \in Containers : used[c] \in gone \/ \E l \in gone : c \in Launching(l)}
    /\ Ends(k)
    /\ UNCHANGED <<image, runtime, badImages, badLayouts, pinned>>

-----------------------------------------------------------------------------
(* Containers *)

\* Without a runtime config or a root filesystem the launch fails.
MountOverlay(k) ==
    /\ cli[k].at = "check"
    /\ layout[cli[k].layout].config = "spec"
    /\ layout[cli[k].layout].rootfs # <<>>
    /\ overlay' = [overlay EXCEPT ![cli[k].c] = cli[k].layout]
    /\ Goes(k, "config")
    /\ UNCHANGED <<store, used, unreadable, history>>

\* layout rm j has been past container c.
HasPassed(j, c) == cli[j].at = "removing" \/ (cli[j].at = "look" /\ c \in cli[j].seen)

SaveConfig(k) ==
    LET l == cli[k].layout
        c == cli[k].c
    IN  /\ cli[k].at = "config"
        /\ used' = [used EXCEPT ![c] = l]
        /\ unreadable' = unreadable \ {c}
        /\ raced' = raced \cup (IF \E j \in OnLayout(k, l) : HasPassed(j, c) THEN {c} ELSE {})
        /\ Ends(k)
        /\ UNCHANGED <<store, overlay, badImages, badLayouts, pinned>>

\* refresh, stop and the supervisor rewrite config.json in place, with the same
\* layout in it: between truncation and write nobody can read it, and not after
\* a writer was killed there either, until the next one writes.
Rewrite(c) ==
    /\ used[c] # None
    /\ unreadable' = IF c \in unreadable THEN unreadable \ {c} ELSE unreadable \cup {c}
    /\ UNCHANGED <<store, used, overlay, cli, history>>

ContainerEnds(c) ==
    /\ overlay[c] # None
    /\ \A j \in Busy : cli[j].c # c
    /\ overlay' = [overlay EXCEPT ![c] = None]
    /\ UNCHANGED <<store, used, unreadable, cli, history>>

RemoveContainer(c) ==
    /\ used[c] # None
    /\ overlay[c] = None
    /\ \A j \in Busy : cli[j].c # c
    /\ used' = [used EXCEPT ![c] = None]
    /\ unreadable' = unreadable \ {c}
    /\ raced' = raced \ {c}
    /\ UNCHANGED <<store, overlay, cli, badImages, badLayouts, pinned>>

-----------------------------------------------------------------------------
\* An I/O error, a panic or a kill.
BreaksOff(k) ==
    LET spoilt(bad, now, x) == IF now THEN bad \cup {x} ELSE bad
    IN  /\ cli[k].at # "idle"
        /\ badImages' = spoilt(badImages, cli[k].at \in Filling, cli[k].image)
        /\ badLayouts' = spoilt(badLayouts, cli[k].cmd = "build", cli[k].layout)
        /\ pinned' = spoilt(pinned, cli[k].at \in Running, cli[k].layout)
        /\ Ends(k)
        /\ UNCHANGED <<store, runtime, raced>>

Issue(k) ==
    \/ \E a \in Images :
          \/ "pull" \in role[k] /\ \E step \in {"download", "override"} : IssuePull(k, a, step)
          \/ "build" \in role[k] /\ \E l \in Layouts : IssueBuild(k, a, l)
          \/ "publish" \in role[k] /\ \E l \in Layouts : IssuePublish(k, a, l)
          \/ "rmi" \in role[k] /\ (RmImage(k, a) \/ RmImageHalf(k, a))
    \/ "rm" \in role[k] /\ \E l \in Layouts \cup {None} : IssueRm(k, l)
    \/ "run" \in role[k] /\ \E c \in Containers, l \in Layouts : IssueRun(k, c, l)

Step(k) ==
    \/ Download(k) \/ MakeImageDir(k) \/ FetchManifest(k) \/ CreateLayer(k)
    \/ PullBlob(k)
    \/ BuildStart(k) \/ From(k) \/ Unpack(k) \/ Copy(k)
    \/ Run(k) \/ MountOne(k) \/ Command(k) \/ UnmountOne(k) \/ Save(k)
    \/ Pack(k) \/ MakePublishedDir(k) \/ MoveArchive(k) \/ Describe(k)
    \/ Look(k) \/ RemoveLayout(k) \/ RemoveHalf(k) \/ RemoveAll(k)
    \/ MountOverlay(k) \/ SaveConfig(k)

Next ==
    /\ \/ \E k \in CLIs : Issue(k) \/ Step(k) \/ BreaksOff(k)
       \/ \E c \in Containers : ContainerEnds(c) \/ RemoveContainer(c) \/ Rewrite(c)
    /\ UNCHANGED role

Spec == Init /\ [][Next]_vars

-----------------------------------------------------------------------------
(* "DOWNLOAD ... unless it is already present": an image that is present is
   one whole version, or one whole layout that was published, its config and
   every layer and no layer of another, whatever pulls, overrides, publishes
   and removals led to it, unless its download or publish broke off or met
   another command on it or another publish of the layout, or tar failed.  *)
ImageIsWhole ==
    \A a \in Images \ badImages :
        /\ image[a].present
        /\ \A k \in CLIs : cli[k].image = a => cli[k].at \notin Filling
        => /\ image[a].config \in Origins
           /\ \A i \in Numbers :
                 image[a].layers[i] = IF i <= Size(image[a].config)
                                      THEN image[a].config ELSE Absent

\* What an instruction adds to the root filesystem, when v is what FROM finds.
Adds(instruction, v) ==
    CASE instruction = "from" -> [i \in 1..Size(v) |-> Layer(v, i)]
      [] instruction = "copy" -> <<Copied>>
      [] OTHER -> <<>>

Content(versions) ==
    FlattenSeq([s \in DOMAIN Script |-> Adds(Script[s], versions[s])])

Froms == {s \in DOMAIN Script : Script[s] = "from"}

(* "Layers are applied in index order": a layout has, instruction by
   instruction, the layers of one version of its image for a FROM, in order,
   and what the others add, and a runtime config, unless its build broke off,
   met another command, warned about an entry it could not unpack, or began
   on an image or a layout that was there and not whole; nor does one that was
   published while it was half built or half removed become the base of a
   layout that passes for whole.                                           *)
LayoutIsWhole ==
    \A l \in Layouts \ badLayouts :
        layout[l].present /\ OnLayout(None, l) = {} =>
            /\ layout[l].config = "spec"
            /\ \E versions \in [Froms -> Origins] : layout[l].rootfs = Content(versions)

(* layout rm "refuses when a container still uses it": the layout a
   container's config names is there, so that start finds it, unless layout rm
   was at work when the container was launched, or passed its config over
   while that could not be read, or it was layout rm ".".                  *)
UsedLayoutStays ==
    \A c \in Containers \ raced : used[c] # None => layout[used[c]].present

(* RUN's mounts are "unmounted afterwards": whatever its command returns, a
   layout no RUN works on has no mounts, through which layout rm would delete
   from the host's /dev, unless a RUN broke off while it mounted, ran or
   unmounted.                                                              *)
MountsGone ==
    \A l \in Layouts \ pinned :
        Mounted(l) => \E k \in OnLayout(None, l) : cli[k].at \in Running
=============================================================================
