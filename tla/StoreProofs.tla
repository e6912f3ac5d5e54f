---------------------------- MODULE StoreProofs ----------------------------
(***************************************************************************)
(* Theorems about Store for every number of commands, images, layouts,     *)
(* containers, versions and layers, and every Crabtainerfile.              *)
(*                                                                         *)
(* A command at work has one of six shapes (Shape); what a step makes of   *)
(* it is one lemma per action, <Action>Does.  Then, part by part, what     *)
(* holds of images, archives, layouts in use, mounts and types.  The last  *)
(* part is about the content of layouts: Made(r, n) says that r is what    *)
(* the first n instructions make, and Progress how far a build has come.   *)
(***************************************************************************)
EXTENDS Store, FiniteSetTheorems, WellFoundedInduction, TLAPS

-----------------------------------------------------------------------------
(* What a command at work looks like *)

Fetching == {"mkdir", "manifest", "layer", "blob"}

Pulls(d) ==
    /\ d.cmd = "pull" /\ d.at \in {"next"} \cup Fetching
    /\ d.image \in Images /\ d.layout = None
    /\ d.todo \in {<<"download">>, <<"override">>}

Builds(d) ==
    /\ d.cmd = "build" /\ d.at \in {"start", "next", "unpack"} \cup Fetching \cup Running
    /\ d.image \in Images /\ d.layout \in Layouts
    /\ d.todo # <<>>

Publishes(d) ==
    /\ d.cmd = "publish" /\ d.at \in {"pack", "publish", "move", "describe"}
    /\ d.image \in Images /\ d.layout \in Layouts

Removes(d) == d.cmd = "rm" /\ d.at \in {"look", "removing"} /\ d.image = None

Launches(d) ==
    /\ d.cmd = "run" /\ d.at \in {"check", "config"}
    /\ d.image = None /\ d.layout \in Layouts /\ d.c \in Containers

Counts(d) ==
    /\ d.at \in {"layer", "blob"} => d.v \in Versions /\ d.i \in 1..NumLayers[d.v]
    /\ d.at \in {"mounting", "unmounting"} => d.i \in 1..NumMounts

Shape(d) ==
    /\ d \in AtWork
    /\ Counts(d)
    /\ d = Idle \/ Pulls(d) \/ Builds(d) \/ Publishes(d) \/ Removes(d) \/ Launches(d)

ShapeInv == \A k \in CLIs : Shape(cli[k])

\* Only command k takes a step.
Only(k) == \A j \in CLIs \ {k} : cli'[j] = cli[j]

-----------------------------------------------------------------------------
\* A command that does nothing.
LEMMA IdleShape == Shape(Idle)
<1>1. Idle \in AtWork
  BY DEF Idle, AtWork, Places, None
<1>2. Counts(Idle)
  BY DEF Counts, Idle
<1>. QED
  BY <1>1, <1>2 DEF Shape

LEMMA IdleIs ==
    /\ Idle.at = "idle" /\ Idle.cmd = None /\ Idle.image = None /\ Idle.layout = None
    /\ Idle.c = None /\ Idle.todo = <<>> /\ Idle.v = None
<1>. QED
  BY DEF Idle

\* One command changes to d.
LEMMA CliStep ==
    ASSUME cli \in [CLIs -> AtWork], ShapeInv, NEW k \in CLIs, NEW d, Shape(d),
           cli' = [cli EXCEPT ![k] = d]
    PROVE  cli' \in [CLIs -> AtWork] /\ ShapeInv' /\ Only(k) /\ cli'[k] = d
<1>1. cli'[k] = d /\ \A j \in CLIs \ {k} : cli'[j] = cli[j]
  OBVIOUS
<1>2. cli' \in [CLIs -> AtWork]
  BY DEF Shape
<1>3. \A j \in CLIs : Shape(cli'[j])
  BY <1>1 DEF ShapeInv
<1>. QED
  BY <1>1, <1>2, <1>3 DEF ShapeInv, Only

\* A command that has carried out an instruction, and where it goes.
LEMMA AdvancedShape ==
    ASSUME NEW d, Shape(d), Pulls(d) \/ Builds(d)
    PROVE  Shape(Advanced(d))
<1> DEFINE e == [d EXCEPT !.at = "next", !.todo = Tail(d.todo), !.i = 0, !.v = None]
<1>1. d \in AtWork
  BY DEF Shape
<1>2. CASE Len(d.todo) = 1
  BY <1>2, IdleShape DEF Advanced
<1>3. CASE Len(d.todo) # 1
  <2>0. Builds(d)
    <3>1. Len(<<"download">>) = 1 /\ Len(<<"override">>) = 1
      OBVIOUS
    <3>. QED
      BY <3>1, <1>3 DEF Pulls
  <2>1. d.todo \in Seq(Instructions \cup {"save"}) /\ d.todo # <<>>
    BY <1>1, <2>0 DEF AtWork, Builds
  <2>2. Tail(d.todo) \in Seq(Instructions \cup {"save"}) /\ Tail(d.todo) # <<>>
    <3>1. Len(d.todo) \in Nat /\ Len(d.todo) # 0
      BY <2>1
    <3>2. Tail(d.todo) \in Seq(Instructions \cup {"save"})
      BY <2>1
    <3>3. Len(Tail(d.todo)) = Len(d.todo) - 1
      BY <2>1
    <3>4. Len(Tail(d.todo)) # Len(<<>>)
      BY <1>3, <3>1, <3>3
    <3>. QED
      BY <3>2, <3>4
  <2>3. /\ e \in AtWork
        /\ e.at = "next" /\ e.cmd = d.cmd /\ e.image = d.image /\ e.layout = d.layout
        /\ e.todo = Tail(d.todo)
    BY <1>1, <2>2 DEF AtWork, Places
  <2>4. Builds(e)
    BY <2>0, <2>2, <2>3 DEF Builds
  <2>5. Counts(e)
    BY <2>3 DEF Counts
  <2>6. Advanced(d) = e
    BY <1>3 DEF Advanced
  <2>. QED
    BY <2>3, <2>4, <2>5, <2>6 DEF Shape
<1>. QED
  BY <1>2, <1>3

LEMMA AdvancedAt ==
    ASSUME NEW d, Shape(d), d # Idle
    PROVE  LET e == Advanced(d)
           IN  /\ e.at \in {"idle", "next"}
               /\ e.image \in {d.image, None} /\ e.layout \in {d.layout, None}
<1>. QED
  BY DEF Advanced, Idle, Shape, AtWork

\* Which command k gives: by where it is.
LEMMA WhoIsWhere ==
    ASSUME NEW d, Shape(d)
    PROVE  /\ d.at # "idle" => d # Idle
           /\ d.at \in Fetching \cup {"next"} => Pulls(d) \/ Builds(d)
           /\ d.at \in {"start", "unpack"} \cup Running => Builds(d)
           /\ d.at \in {"pack", "publish", "move", "describe"} => Publishes(d)
           /\ d.at \in {"look", "removing"} => Removes(d)
           /\ d.at \in {"check", "config"} => Launches(d)
           /\ d.at = "idle" => d = Idle
<1>1. Idle.at = "idle"
  BY DEF Idle
<1>. QED
  BY <1>1 DEF Shape, Pulls, Builds, Publishes, Removes, Launches, Fetching, Running

-----------------------------------------------------------------------------
(* What each step does with the commands *)

Local(k) == cli' \in [CLIs -> AtWork] /\ ShapeInv' /\ Only(k)

\* The ways in which a step leaves its command.
LEMMA EndsDoes ==
    ASSUME TypeOK, ShapeInv, NEW k \in CLIs, Ends(k)
    PROVE  Local(k) /\ cli'[k] = Idle
<1>. QED
  BY CliStep, IdleShape DEF TypeOK, Ends, Local

LEMMA AdvancesDoes ==
    ASSUME TypeOK, ShapeInv, NEW k \in CLIs, Advances(k),
           cli[k].at \in {"next", "blob", "unpack", "unmounting"}
    PROVE  Local(k) /\ cli'[k] = Advanced(cli[k])
<1>1. cli' = [cli EXCEPT ![k] = Advanced(cli[k])]
  BY DEF Advances
<1>2. Shape(cli[k])
  BY DEF ShapeInv
<1>3. Pulls(cli[k]) \/ Builds(cli[k])
  BY <1>2, WhoIsWhere DEF Fetching, Running
<1>. QED
  BY <1>1, <1>2, <1>3, AdvancedShape, CliStep DEF TypeOK, Local

LEMMA GoesDoes ==
    ASSUME TypeOK, ShapeInv, NEW k \in CLIs, NEW where, Goes(k, where),
           \/ cli[k].at = "next" /\ where = "mkdir"
           \/ cli[k].at = "mkdir" /\ where = "manifest"
           \/ cli[k].at = "start" /\ where = "next"
           \/ cli[k].at = "layer" /\ where = "blob"
           \/ cli[k].at = "publish" /\ where = "move"
           \/ cli[k].at = "move" /\ where = "describe"
           \/ cli[k].at = "look" /\ where = "removing"
           \/ cli[k].at = "check" /\ where = "config"
    PROVE  /\ Local(k)
           /\ cli'[k] = [cli[k] EXCEPT !.at = where]
           /\ cli'[k].at = where /\ cli'[k].image = cli[k].image
           /\ cli'[k].layout = cli[k].layout /\ cli'[k].c = cli[k].c
           /\ cli'[k].v = cli[k].v /\ cli'[k].i = cli[k].i /\ cli'[k].ok = cli[k].ok
<1> DEFINE d == cli[k]
           e == [d EXCEPT !.at = where]
<1>1. d \in AtWork /\ Shape(d) /\ Counts(d)
  BY DEF ShapeInv, Shape
<1>2. /\ e \in AtWork
      /\ e.at = where /\ e.cmd = d.cmd /\ e.image = d.image /\ e.layout = d.layout
      /\ e.c = d.c /\ e.todo = d.todo /\ e.v = d.v /\ e.i = d.i /\ e.ok = d.ok
  BY <1>1 DEF AtWork, Places, Filling
<1>3. Counts(e)
  BY <1>1, <1>2 DEF Counts
<1>4. Pulls(e) \/ Builds(e) \/ Publishes(e) \/ Removes(e) \/ Launches(e)
  <2>1. CASE d.at \in {"next", "mkdir", "layer"}
    BY <1>1, <1>2, <2>1, WhoIsWhere DEF Pulls, Builds, Fetching
  <2>2. CASE d.at = "start"
    BY <1>1, <1>2, <2>2, WhoIsWhere DEF Builds
  <2>3. CASE d.at \in {"publish", "move"}
    BY <1>1, <1>2, <2>3, WhoIsWhere DEF Publishes
  <2>4. CASE d.at = "look"
    BY <1>1, <1>2, <2>4, WhoIsWhere DEF Removes
  <2>5. CASE d.at = "check"
    BY <1>1, <1>2, <2>5, WhoIsWhere DEF Launches
  <2>. QED
    BY <2>1, <2>2, <2>3, <2>4, <2>5
<1>5. cli' = [cli EXCEPT ![k] = e]
  BY DEF Goes
<1>. QED
  BY <1>2, <1>3, <1>4, <1>5, CliStep DEF Shape, TypeOK, Local

\* Commands that are issued.
LEMMA IssuePullDoes ==
    ASSUME TypeOK, ShapeInv, NEW k \in CLIs, NEW a \in Images,
           NEW step \in {"download", "override"}, IssuePull(k, a, step)
    PROVE  Local(k) /\ cli'[k].at = "next" /\ cli'[k].image = a
<1> DEFINE e == [Idle EXCEPT !.at = "next", !.cmd = "pull", !.image = a, !.todo = <<step>>]
<1>1. <<step>> \in Seq(Instructions \cup {"save"})
  BY DEF Instructions
<1>2. /\ e \in AtWork
      /\ e.at = "next" /\ e.cmd = "pull" /\ e.image = a /\ e.layout = None /\ e.todo = <<step>>
  BY <1>1 DEF Idle, AtWork, Places, Commands, None
<1>3. Shape(e)
  BY <1>2 DEF Shape, Counts, Pulls
<1>. QED
  BY <1>2, <1>3, CliStep DEF IssuePull, Local, TypeOK

LEMMA IssueBuildDoes ==
    ASSUME TypeOK, ShapeInv, NEW k \in CLIs, NEW a \in Images, NEW l \in Layouts,
           IssueBuild(k, a, l)
    PROVE  Local(k) /\ cli'[k].at = "start" /\ cli'[k].image = a
<1> DEFINE e == [Idle EXCEPT !.at = "start", !.cmd = "build", !.image = a, !.layout = l,
                             !.todo = Script \o <<"save">>]
<1>1. Script \o <<"save">> \in Seq(Instructions \cup {"save"}) /\ Script \o <<"save">> # <<>>
  <2>1. Script \in Seq(Instructions \cup {"save"})
    BY StoreConstants
  <2>2. <<"save">> \in Seq(Instructions \cup {"save"}) /\ Len(<<"save">>) = 1
    OBVIOUS
  <2>3. Len(Script \o <<"save">>) = Len(Script) + 1 /\ Len(Script) \in Nat
    BY <2>1, <2>2
  <2>. QED
    BY <2>1, <2>2, <2>3
<1>2. /\ e \in AtWork
      /\ e.at = "start" /\ e.cmd = "build" /\ e.image = a /\ e.layout = l
      /\ e.todo = Script \o <<"save">>
  BY <1>1 DEF Idle, AtWork, Places, Commands, None
<1>3. Shape(e)
  BY <1>1, <1>2 DEF Shape, Counts, Builds
<1>. QED
  BY <1>2, <1>3, CliStep DEF IssueBuild, Local, TypeOK

LEMMA IssueRmDoes ==
    ASSUME TypeOK, ShapeInv, NEW k \in CLIs, NEW l \in Layouts \cup {None}, IssueRm(k, l)
    PROVE  Local(k) /\ cli'[k].at = "look" /\ cli'[k].image = None /\ cli'[k].seen = {}
<1> DEFINE e == [Idle EXCEPT !.at = "look", !.cmd = "rm", !.layout = l]
<1>0. Idle \in AtWork
  BY IdleShape DEF Shape
<1>1. e \in AtWork /\ e.at = "look" /\ e.cmd = "rm" /\ e.image = None /\ e.layout = l
  BY <1>0, IdleIs DEF AtWork, Places, Commands
<1>3. e.seen = {}
  BY DEF Idle
<1>2. Shape(e)
  BY <1>1 DEF Shape, Counts, Removes
<1>. QED
  BY <1>1, <1>2, <1>3, CliStep DEF IssueRm, Local, TypeOK

LEMMA IssueRunDoes ==
    ASSUME TypeOK, ShapeInv, NEW k \in CLIs, NEW c \in Containers, NEW l \in Layouts,
           IssueRun(k, c, l)
    PROVE  Local(k) /\ cli'[k].at = "check" /\ cli'[k].image = None
<1> DEFINE e == [Idle EXCEPT !.at = "check", !.cmd = "run", !.layout = l, !.c = c]
<1>0. Idle \in AtWork
  BY IdleShape DEF Shape
<1>1. /\ e \in AtWork
      /\ e.at = "check" /\ e.cmd = "run" /\ e.image = None /\ e.layout = l /\ e.c = c
  BY <1>0, IdleIs DEF AtWork, Places, Commands
<1>2. Shape(e)
  BY <1>1 DEF Shape, Counts, Launches
<1>. QED
  BY <1>1, <1>2, CliStep DEF IssueRun, Local, TypeOK

LEMMA IssuePublishDoes ==
    ASSUME TypeOK, ShapeInv, NEW k \in CLIs, NEW a \in Images, NEW l \in Layouts,
           IssuePublish(k, a, l)
    PROVE  Local(k) /\ cli'[k].at = "pack" /\ cli'[k].image = a
<1> DEFINE e == [Idle EXCEPT !.at = "pack", !.cmd = "publish", !.image = a, !.layout = l]
<1>0. Idle \in AtWork
  BY IdleShape DEF Shape
<1>1. /\ e \in AtWork
      /\ e.at = "pack" /\ e.cmd = "publish" /\ e.image = a /\ e.layout = l
  BY <1>0, IdleIs DEF AtWork, Places, Commands
<1>2. Shape(e)
  BY <1>1 DEF Shape, Counts, Publishes
<1>. QED
  BY <1>1, <1>2, CliStep DEF IssuePublish, Local, TypeOK

\* Steps that change more of their command than its place.
LEMMA FetchManifestDoes ==
    ASSUME TypeOK, ShapeInv, NEW k \in CLIs, FetchManifest(k)
    PROVE  /\ Local(k)
           /\ \E v \in Versions :
                 /\ cli'[k].at = "layer" /\ cli'[k].v = v /\ cli'[k].i = 1
                 /\ cli'[k].image = cli[k].image
                 /\ image' = [image EXCEPT ![cli[k].image].config = v]
<1>1. PICK v \in Versions :
          /\ image' = [image EXCEPT ![cli[k].image].config = v]
          /\ cli' = [cli EXCEPT ![k].at = "layer", ![k].v = v, ![k].i = 1]
  BY DEF FetchManifest
<1> DEFINE d == cli[k]
           e == [d EXCEPT !.at = "layer", !.v = v, !.i = 1]
<1>2. d.at = "manifest" /\ d \in AtWork /\ Shape(d) /\ (Pulls(d) \/ Builds(d))
  BY WhoIsWhere DEF FetchManifest, ShapeInv, Shape, Fetching
<1>3. /\ e \in AtWork
      /\ e.at = "layer" /\ e.v = v /\ e.i = 1
      /\ e.cmd = d.cmd /\ e.image = d.image /\ e.layout = d.layout /\ e.todo = d.todo
  BY <1>2 DEF AtWork, Places, Filling
<1>4. Counts(e)
  BY <1>3, StoreConstants DEF Counts
<1>5. Pulls(e) \/ Builds(e)
  BY <1>2, <1>3 DEF Pulls, Builds, Fetching
<1>6. Shape(e)
  BY <1>3, <1>4, <1>5 DEF Shape
<1>7. cli' = [cli EXCEPT ![k] = e]
  BY <1>1
<1>. QED
  BY <1>1, <1>3, <1>6, <1>7, CliStep DEF Local, TypeOK

LEMMA PullBlobDoes ==
    ASSUME TypeOK, ShapeInv, NEW k \in CLIs, PullBlob(k)
    PROVE  /\ Local(k)
           /\ \/ /\ cli[k].i = NumLayers[cli[k].v] /\ cli'[k] = Advanced(cli[k])
              \/ /\ cli[k].i + 1 \in 1..NumLayers[cli[k].v]
                 /\ cli'[k].at = "layer" /\ cli'[k].v = cli[k].v /\ cli'[k].i = cli[k].i + 1
                 /\ cli'[k].image = cli[k].image
<1> DEFINE d == cli[k]
           e == [d EXCEPT !.at = "layer", !.i = d.i + 1]
<1>1. d.at = "blob" /\ d \in AtWork /\ Shape(d) /\ (Pulls(d) \/ Builds(d))
  BY WhoIsWhere DEF PullBlob, ShapeInv, Shape, Fetching
<1>2. d.v \in Versions /\ d.i \in 1..NumLayers[d.v] /\ NumLayers[d.v] \in Nat
  BY <1>1, StoreConstants DEF Shape, Counts
<1>3. CASE d.i = NumLayers[d.v]
  BY <1>1, <1>3, AdvancesDoes DEF PullBlob
<1>4. CASE d.i # NumLayers[d.v]
  <2>1. d.i + 1 \in 1..NumLayers[d.v] /\ d.i + 1 \in Nat
    BY <1>2, <1>4
  <2>2. /\ e \in AtWork
        /\ e.at = "layer" /\ e.v = d.v /\ e.i = d.i + 1
        /\ e.cmd = d.cmd /\ e.image = d.image /\ e.layout = d.layout /\ e.todo = d.todo
    BY <1>1, <2>1 DEF AtWork, Places, Filling
  <2>3. Shape(e)
    BY <1>1, <1>2, <2>1, <2>2 DEF Shape, Counts, Pulls, Builds, Fetching
  <2>4. cli' = [cli EXCEPT ![k] = e]
    BY <1>4 DEF PullBlob
  <2>. QED
    BY <2>1, <2>2, <2>3, <2>4, CliStep DEF Local, TypeOK
<1>. QED
  BY <1>3, <1>4

LEMMA FromDoes ==
    ASSUME TypeOK, ShapeInv, NEW k \in CLIs, From(k)
    PROVE  Local(k) /\ cli'[k].at = "unpack" /\ cli'[k].image = cli[k].image
<1> DEFINE d == cli[k]
           e == [d EXCEPT !.at = "unpack", !.files = Files(d.image)]
<1>1. d.at = "next" /\ d \in AtWork /\ Shape(d) /\ Head(d.todo) = "from"
  BY DEF From, Does, ShapeInv, Shape
<1>2. Builds(d)
  BY <1>1, WhoIsWhere, Head(<<"download">>) = "download", Head(<<"override">>) = "override"
  DEF Pulls
<1>3. /\ e \in AtWork
      /\ e.at = "unpack" /\ e.cmd = d.cmd /\ e.image = d.image /\ e.layout = d.layout
      /\ e.todo = d.todo
  BY <1>1 DEF AtWork, Places, Files
<1>4. Shape(e)
  BY <1>2, <1>3 DEF Shape, Counts, Builds
<1>5. cli' = [cli EXCEPT ![k] = e]
  BY DEF From
<1>. QED
  BY <1>3, <1>4, <1>5, CliStep DEF Local, TypeOK

\* FROM, COPY, RUN and the end of a Crabtainerfile are instructions of a build.
LEMMA BuildsAre ==
    ASSUME ShapeInv, NEW k \in CLIs, Does(k, {"from", "copy", "run", "save"})
    PROVE  Builds(cli[k]) /\ cli[k].layout \in Layouts
<1>1. Head(<<"download">>) = "download" /\ Head(<<"override">>) = "override"
  OBVIOUS
<1>2. ~Pulls(cli[k])
  BY <1>1 DEF Does, Pulls
<1>. QED
  BY <1>2, WhoIsWhere DEF Does, ShapeInv, Builds

LEMMA UnpackDoes ==
    ASSUME TypeOK, ShapeInv, NEW k \in CLIs, Unpack(k)
    PROVE  /\ Local(k) /\ cli'[k].at \in {"unpack", "next", "idle"}
           /\ cli'[k].image \in {cli[k].image, None}
<1> DEFINE d == cli[k]
<1>1. d.at = "unpack" /\ d \in AtWork /\ Shape(d) /\ Builds(d)
  BY WhoIsWhere DEF Unpack, ShapeInv, Shape
<1>2. PICK i \in Numbers :
          IF d.files = {i} THEN Advances(k)
          ELSE cli' = [cli EXCEPT ![k].files = @ \ {i}]
  BY DEF Unpack
<1>3. CASE Advances(k)
  BY <1>1, <1>3, AdvancesDoes, AdvancedAt, WhoIsWhere
<1>4. CASE cli' = [cli EXCEPT ![k].files = @ \ {i}]
  <2> DEFINE e == [d EXCEPT !.files = d.files \ {i}]
  <2>1. /\ e \in AtWork
        /\ e.at = d.at /\ e.cmd = d.cmd /\ e.image = d.image /\ e.layout = d.layout
        /\ e.todo = d.todo
    BY <1>1 DEF AtWork
  <2>2. Shape(e)
    BY <1>1, <2>1 DEF Shape, Counts, Builds
  <2>3. cli' = [cli EXCEPT ![k] = e]
    BY <1>4
  <2>. QED
    BY <1>1, <2>1, <2>2, <2>3, CliStep DEF Local, TypeOK
<1>. QED
  BY <1>2, <1>3, <1>4

LEMMA RunDoes ==
    ASSUME TypeOK, ShapeInv, NEW k \in CLIs, Run(k)
    PROVE  /\ Local(k)
           /\ cli[k].at = "next" /\ cli'[k].at = "mounting" /\ cli'[k].i = 1
           /\ cli'[k].image = cli[k].image /\ cli'[k].layout = cli[k].layout
<1> DEFINE d == cli[k]
           e == [d EXCEPT !.at = "mounting", !.i = 1]
<1>1. d.at = "next" /\ d \in AtWork /\ Shape(d) /\ Head(d.todo) = "run"
  BY DEF Run, Does, ShapeInv, Shape
<1>2. Builds(d)
  BY <1>1, WhoIsWhere, Head(<<"download">>) = "download", Head(<<"override">>) = "override"
  DEF Pulls
<1>3. /\ e \in AtWork
      /\ e.at = "mounting" /\ e.i = 1
      /\ e.cmd = d.cmd /\ e.image = d.image /\ e.layout = d.layout /\ e.todo = d.todo
  BY <1>1 DEF AtWork, Places, Running
<1>4. Shape(e)
  BY <1>2, <1>3, StoreConstants DEF Shape, Counts, Builds, Running
<1>5. cli' = [cli EXCEPT ![k] = e]
  BY DEF Run
<1>. QED
  BY <1>1, <1>3, <1>4, <1>5, CliStep DEF Local, TypeOK

LEMMA MountOneDoes ==
    ASSUME TypeOK, ShapeInv, NEW k \in CLIs, MountOne(k)
    PROVE  /\ Local(k)
           /\ cli[k].at = "mounting" /\ cli[k].i \in 1..NumMounts /\ Builds(cli[k])
           /\ cli'[k].at = IF cli[k].i = NumMounts THEN "running" ELSE "mounting"
           /\ cli'[k].i = cli[k].i + 1
           /\ cli'[k].image = cli[k].image /\ cli'[k].layout = cli[k].layout
<1> DEFINE d == cli[k]
           where == IF d.i = NumMounts THEN "running" ELSE "mounting"
           e == [d EXCEPT !.at = where, !.i = d.i + 1]
<1>1. d.at = "mounting" /\ d \in AtWork /\ Shape(d) /\ Builds(d) /\ d.i \in 1..NumMounts
  BY WhoIsWhere DEF MountOne, ShapeInv, Shape, Counts, Running
<1>2. d.i + 1 \in Nat /\ (where = "running" \/ d.i + 1 \in 1..NumMounts)
  BY <1>1, StoreConstants
<1>3. where \in {"running", "mounting"}
  OBVIOUS
<1>4. /\ e \in AtWork
      /\ e.at = where /\ e.i = d.i + 1
      /\ e.cmd = d.cmd /\ e.image = d.image /\ e.layout = d.layout /\ e.todo = d.todo
  <2> HIDE DEF where
  <2>. QED
    BY <1>1, <1>2, <1>3, ZenonT(30) DEF AtWork, Places, Running
<1>5. Shape(e)
  <2> HIDE DEF where, e
  <2>. QED
    BY <1>1, <1>2, <1>3, <1>4 DEF Shape, Counts, Builds, Running
<1>6. cli' = [cli EXCEPT ![k] = e]
  <2>1. where = IF d.i = NumMounts THEN "running" ELSE d.at
    BY <1>1
  <2>. QED
    BY <2>1 DEF MountOne
<1>. QED
  BY <1>1, <1>4, <1>5, <1>6, CliStep DEF Local, TypeOK

LEMMA CommandDoes ==
    ASSUME TypeOK, ShapeInv, NEW k \in CLIs, Command(k)
    PROVE  /\ Local(k)
           /\ cli[k].at = "running" /\ cli'[k].at = "unmounting" /\ cli'[k].i = 1
           /\ cli'[k].image = cli[k].image /\ cli'[k].layout = cli[k].layout
<1>1. PICK success \in BOOLEAN :
          cli' = [cli EXCEPT ![k].at = "unmounting", ![k].i = 1, ![k].ok = success]
  BY DEF Command
<1> DEFINE d == cli[k]
           e == [d EXCEPT !.at = "unmounting", !.i = 1, !.ok = success]
<1>2. d.at = "running" /\ d \in AtWork /\ Builds(d)
  BY WhoIsWhere DEF Command, ShapeInv, Shape, Running
<1>3. /\ e \in AtWork
      /\ e.at = "unmounting" /\ e.i = 1
      /\ e.cmd = d.cmd /\ e.image = d.image /\ e.layout = d.layout /\ e.todo = d.todo
  BY <1>2 DEF AtWork, Places, Running
<1>4. Shape(e)
  BY <1>2, <1>3, StoreConstants DEF Shape, Counts, Builds, Running
<1>5. cli' = [cli EXCEPT ![k] = e]
  BY <1>1
<1>. QED
  BY <1>2, <1>3, <1>4, <1>5, CliStep DEF Local, TypeOK

LEMMA UnmountOneDoes ==
    ASSUME TypeOK, ShapeInv, NEW k \in CLIs, UnmountOne(k)
    PROVE  /\ Local(k)
           /\ cli[k].at = "unmounting" /\ cli[k].i \in 1..NumMounts /\ Builds(cli[k])
           /\ \/ /\ cli[k].i < NumMounts /\ cli'[k].at = "unmounting"
                 /\ cli'[k].i = cli[k].i + 1
                 /\ cli'[k].image = cli[k].image /\ cli'[k].layout = cli[k].layout
              \/ /\ cli[k].i = NumMounts /\ cli'[k].at \in {"next", "idle"}
                 /\ cli'[k].image \in {cli[k].image, None}
<1> DEFINE d == cli[k]
           e == [d EXCEPT !.i = d.i + 1]
<1>1. d.at = "unmounting" /\ d \in AtWork /\ Shape(d) /\ Builds(d) /\ d.i \in 1..NumMounts
  BY WhoIsWhere DEF UnmountOne, ShapeInv, Shape, Counts, Running
<1>2. CASE d.i < NumMounts
  <2>1. d.i + 1 \in 1..NumMounts /\ d.i + 1 \in Nat
    BY <1>1, <1>2, StoreConstants
  <2>2. /\ e \in AtWork
        /\ e.at = "unmounting" /\ e.i = d.i + 1
        /\ e.cmd = d.cmd /\ e.image = d.image /\ e.layout = d.layout /\ e.todo = d.todo
    BY <1>1, <2>1 DEF AtWork
  <2>3. Shape(e)
    BY <1>1, <2>1, <2>2 DEF Shape, Counts, Builds
  <2>4. cli' = [cli EXCEPT ![k] = e]
    BY <1>1, <1>2, StoreConstants DEF UnmountOne
  <2>. QED
    BY <1>1, <1>2, <2>2, <2>3, <2>4, CliStep DEF Local, TypeOK
<1>3. CASE d.i = NumMounts
  <2>1. Advances(k) \/ Ends(k)
    BY <1>3, StoreConstants DEF UnmountOne
  <2>. QED
    BY <1>1, <1>3, <2>1, AdvancesDoes, EndsDoes, AdvancedAt, WhoIsWhere, IdleIs
<1>. QED
  BY <1>1, <1>2, <1>3, StoreConstants

LEMMA LookDoes ==
    ASSUME TypeOK, ShapeInv, NEW k \in CLIs, Look(k)
    PROVE  /\ Local(k)
           /\ cli[k].at = "look" /\ cli[k].image = None
           /\ \/ cli'[k] = Idle
              \/ /\ cli'[k].at = "removing" /\ cli'[k].image = None
                 /\ cli'[k].layout = cli[k].layout
                 /\ cli[k].seen = Containers /\ cli'[k].skipped = cli[k].skipped
              \/ /\ cli'[k].at = "look" /\ cli'[k].image = None
                 /\ cli'[k].layout = cli[k].layout
                 /\ \E c \in Containers :
                       /\ cli'[k].seen = cli[k].seen \cup {c}
                       /\ \/ c \in cli'[k].skipped
                          \/ used[c] = None
                          \/ used[c] # cli[k].layout
                 /\ cli[k].skipped \subseteq cli'[k].skipped
<1> DEFINE d == cli[k]
<1>1. d.at = "look" /\ d \in AtWork /\ Shape(d) /\ Removes(d)
  BY WhoIsWhere DEF Look, ShapeInv, Shape
<1>2. CASE Ends(k)
  BY <1>1, <1>2, EndsDoes DEF Removes
<1>3. CASE d.seen = Containers /\ Goes(k, "removing")
  <2>1. cli'[k] = [d EXCEPT !.at = "removing"]
    BY <1>1, <1>3, GoesDoes
  <2>2. cli'[k].skipped = d.skipped
    BY <1>1, <2>1 DEF AtWork
  <2>. QED
    BY <1>1, <1>3, <2>2, GoesDoes DEF Removes
<1>4. ASSUME NEW c \in Containers, ~Ends(k), LookAt(k, c)
      PROVE  /\ Local(k) /\ cli'[k].at = "look" /\ cli'[k].image = None
             /\ cli'[k].layout = d.layout /\ cli'[k].seen = d.seen \cup {c}
             /\ c \in cli'[k].skipped \/ used[c] = None \/ used[c] # d.layout
             /\ d.skipped \subseteq cli'[k].skipped
  <2>1. CASE c \in unreadable
    <3> DEFINE e == [d EXCEPT !.seen = @ \cup {c}, !.skipped = @ \cup {c}]
    <3>1. /\ e \in AtWork
          /\ e.at = d.at /\ e.cmd = d.cmd /\ e.image = d.image /\ e.layout = d.layout
          /\ e.seen = d.seen \cup {c} /\ e.skipped = d.skipped \cup {c}
      BY <1>1 DEF AtWork
    <3>2. Shape(e)
      BY <1>1, <3>1 DEF Shape, Counts, Removes
    <3>3. cli' = [cli EXCEPT ![k] = e]
      BY <1>4, <2>1 DEF LookAt
    <3>. QED
      BY <1>1, <3>1, <3>2, <3>3, CliStep DEF Local, TypeOK, Removes
  <2>2. CASE c \notin unreadable /\ (used[c] = None \/ used[c] # d.layout)
    <3> DEFINE e == [d EXCEPT !.seen = @ \cup {c}, !.keep = @ \cup {used[c]}]
    <3>1. used[c] \in Layouts \cup {None}
      BY DEF TypeOK
    <3>2. /\ e \in AtWork
          /\ e.at = d.at /\ e.cmd = d.cmd /\ e.image = d.image /\ e.layout = d.layout
          /\ e.seen = d.seen \cup {c} /\ e.skipped = d.skipped
      BY <1>1, <3>1 DEF AtWork
    <3>3. Shape(e)
      BY <1>1, <3>2 DEF Shape, Counts, Removes
    <3>4. cli' = [cli EXCEPT ![k] = e]
      BY <1>4, <2>2 DEF LookAt
    <3>. QED
      BY <1>1, <2>2, <3>2, <3>3, <3>4, CliStep DEF Local, TypeOK, Removes
  <2>3. CASE c \notin unreadable /\ used[c] # None /\ used[c] = d.layout
    BY <1>4, <2>3 DEF LookAt
  <2>. QED
    BY <2>1, <2>2, <2>3
<1>. QED
  BY <1>1, <1>2, <1>3, <1>4 DEF Look, Removes

\* The step that changes other commands: publishes of the same layout.
LEMMA PackDoes ==
    ASSUME TypeOK, ShapeInv, NEW k \in CLIs, Pack(k)
    PROVE  /\ cli' \in [CLIs -> AtWork] /\ ShapeInv'
           /\ cli[k].at = "pack" /\ cli'[k].at = "publish" /\ Publishes(cli[k])
           /\ cli'[k].image = cli[k].image /\ cli'[k].layout = cli[k].layout
           /\ cli'[k].cmd = cli[k].cmd /\ cli'[k].todo = cli[k].todo
           /\ \A j \in CLIs \ {k} :
                 /\ cli'[j].at = cli[j].at /\ cli'[j].cmd = cli[j].cmd
                 /\ cli'[j].image = cli[j].image /\ cli'[j].layout = cli[j].layout
                 /\ cli'[j].c = cli[j].c /\ cli'[j].i = cli[j].i /\ cli'[j].v = cli[j].v
                 /\ cli'[j].ok = IF j \in Publishing(k, cli[k].layout) THEN FALSE ELSE cli[j].ok
                 /\ cli[j].cmd # "publish" => cli'[j] = cli[j]
           /\ \E file \in {Packed, Partial, layout[cli[k].layout].archive} :
                 /\ layout' = [layout EXCEPT ![cli[k].layout].archive =
                                  IF layout[cli[k].layout].present THEN file ELSE @]
                 /\ cli'[k].ok => file = Packed
<1> DEFINE l == cli[k].layout
           whole == l \notin badLayouts /\ ~Mounted(l) /\ OnLayout(k, l) = {}
<1>1. PICK file \in {Packed, Partial, layout[l].archive} :
          /\ layout' = [layout EXCEPT ![l].archive = IF layout[l].present THEN file ELSE @]
          /\ cli' = [j \in CLIs |->
                CASE j = k -> [cli[k] EXCEPT !.at = "publish", !.ok = (file = Packed /\ whole)]
                  [] j \in Publishing(k, l) -> [cli[j] EXCEPT !.ok = FALSE]
                  [] OTHER -> cli[j]]
  BY DEF Pack
<1> DEFINE good == file = Packed /\ whole
           e == [cli[k] EXCEPT !.at = "publish", !.ok = good]
           F(j) == CASE j = k -> e
                     [] j \in Publishing(k, l) -> [cli[j] EXCEPT !.ok = FALSE]
                     [] OTHER -> cli[j]
<1>2. good \in BOOLEAN /\ (good => file = Packed)
  OBVIOUS
<1>3. cli' = [j \in CLIs |-> F(j)]
  BY <1>1
<1> HIDE DEF good
<1>4. cli[k] \in AtWork /\ \A j \in CLIs : cli[j] \in AtWork /\ Shape(cli[j])
  BY DEF TypeOK, ShapeInv
<1>5. cli[k].at = "pack" /\ Publishes(cli[k])
  BY <1>4, WhoIsWhere DEF Pack
<1>6. /\ e \in AtWork
      /\ e.at = "publish" /\ e.cmd = cli[k].cmd /\ e.image = cli[k].image
      /\ e.layout = cli[k].layout /\ e.ok = good /\ e.todo = cli[k].todo
  BY <1>2, <1>4, ZenonT(30) DEF AtWork, Places
<1>7. Shape(e)
  <2> HIDE DEF e
  <2>. QED
    BY <1>5, <1>6 DEF Shape, Counts, Publishes
<1>8. cli'[k] = e
  <2> HIDE DEF e
  <2>1. k \notin Publishing(k, l)
    BY DEF Publishing
  <2>2. F(k) = e
    BY <2>1 <2> HIDE DEF F
  <2>. QED
    BY <1>3, <2>2
<1>9. ASSUME NEW j \in CLIs \ {k}
      PROVE  /\ cli'[j] \in AtWork /\ Shape(cli'[j])
             /\ cli'[j].at = cli[j].at /\ cli'[j].cmd = cli[j].cmd
             /\ cli'[j].image = cli[j].image /\ cli'[j].layout = cli[j].layout
             /\ cli'[j].c = cli[j].c /\ cli'[j].i = cli[j].i /\ cli'[j].v = cli[j].v
             /\ cli'[j].ok = IF j \in Publishing(k, cli[k].layout) THEN FALSE ELSE cli[j].ok
             /\ cli[j].cmd # "publish" => cli'[j] = cli[j]
  <2>1. CASE j \in Publishing(k, l)
    <3> DEFINE f == [cli[j] EXCEPT !.ok = FALSE]
    <3>1. cli'[j] = f
      BY <1>3, <2>1
    <3>2. /\ f \in AtWork
          /\ f.at = cli[j].at /\ f.cmd = cli[j].cmd /\ f.image = cli[j].image
          /\ f.layout = cli[j].layout /\ f.c = cli[j].c /\ f.i = cli[j].i /\ f.v = cli[j].v
          /\ f.ok = FALSE
      BY <1>4 DEF AtWork
    <3>3. Publishes(f)
      <4>1. cli[j].at # "idle" /\ cli[j].cmd = "publish"
        BY <2>1 DEF Publishing, Busy
      <4>2. Publishes(cli[j])
        BY <1>4, <4>1, WhoIsWhere DEF Shape, Idle, Pulls, Builds, Removes, Launches
      <4>. QED
        BY <3>2, <4>2 DEF Publishes
    <3>4. Shape(f)
      BY <3>2, <3>3 DEF Shape, Counts, Publishes
    <3>5. cli[j].cmd = "publish"
      BY <2>1 DEF Publishing
    <3>. QED
      BY <2>1, <3>1, <3>2, <3>4, <3>5
  <2>2. CASE j \notin Publishing(k, l)
    BY <1>3, <1>4, <2>2
  <2>. QED
    BY <2>1, <2>2
<1> HIDE DEF e
<1>10. \A j \in CLIs : cli'[j] \in AtWork /\ Shape(cli'[j])
  BY <1>6, <1>7, <1>8, <1>9
<1>11. cli' \in [CLIs -> AtWork]
  <2> HIDE DEF F
  <2>1. \A j \in CLIs : F(j) = cli'[j]
    BY <1>3
  <2>. QED
    BY <1>3, <1>10, <2>1
<1>12. cli'[k].at = "publish" /\ cli'[k].image = cli[k].image /\ cli'[k].layout = cli[k].layout
       /\ cli'[k].cmd = cli[k].cmd /\ cli'[k].todo = cli[k].todo
       /\ (cli'[k].ok => file = Packed)
  BY <1>2, <1>6, <1>8
<1>. QED
  BY <1>1, <1>5, <1>9, <1>10, <1>11, <1>12 DEF ShapeInv

\* The other steps, which end the command or take it to another place.
LEMMA OthersDo ==
    ASSUME TypeOK, ShapeInv, NEW k \in CLIs,
           \/ Download(k) \/ MakeImageDir(k) \/ CreateLayer(k) \/ BuildStart(k) \/ Copy(k)
           \/ Save(k) \/ MakePublishedDir(k) \/ MoveArchive(k) \/ Describe(k)
           \/ RemoveLayout(k) \/ RemoveHalf(k) \/ RemoveAll(k)
           \/ MountOverlay(k) \/ SaveConfig(k) \/ BreaksOff(k)
    PROVE  Local(k)
<1>1. CASE Download(k) \/ MakeImageDir(k) \/ CreateLayer(k) \/ BuildStart(k) \/ Copy(k)
  BY <1>1, AdvancesDoes, GoesDoes DEF Download, MakeImageDir, CreateLayer, BuildStart, Copy, Does
<1>2. CASE Save(k) \/ Describe(k) \/ RemoveLayout(k) \/ RemoveHalf(k) \/ RemoveAll(k)
           \/ SaveConfig(k) \/ BreaksOff(k)
  BY <1>2, EndsDoes DEF Save, Describe, RemoveLayout, RemoveHalf, RemoveAll, SaveConfig, BreaksOff
<1>3. CASE MakePublishedDir(k) \/ MoveArchive(k) \/ MountOverlay(k)
  BY <1>3, EndsDoes, GoesDoes DEF MakePublishedDir, MoveArchive, MountOverlay
<1>. QED
  BY <1>1, <1>2, <1>3

\* The steps of command k but Pack.
Mine(k) == (Issue(k) \/ Step(k) \/ BreaksOff(k)) /\ ~Pack(k)

LEMMA MineDoes ==
    ASSUME TypeOK, ShapeInv, NEW k \in CLIs, Mine(k)
    PROVE  Local(k)
<1>1. CASE Issue(k)
  <2>1. ASSUME NEW a \in Images, RmImage(k, a) \/ RmImageHalf(k, a)
        PROVE  Local(k)
    BY <2>1 DEF RmImage, RmImageHalf, Local, Only, ShapeInv, TypeOK
  <2>. QED
    BY <1>1, <2>1, IssuePullDoes, IssueBuildDoes, IssuePublishDoes, IssueRmDoes, IssueRunDoes
    DEF Issue
<1>2. CASE Step(k) /\ ~Pack(k)
  BY <1>2, OthersDo, FetchManifestDoes, PullBlobDoes, FromDoes, UnpackDoes, RunDoes,
     MountOneDoes, CommandDoes, UnmountOneDoes, LookDoes
  DEF Step
<1>. QED
  BY <1>1, <1>2, OthersDo DEF Mine

LEMMA GoesTo ==
    ASSUME TypeOK, NEW k \in CLIs, NEW where, Goes(k, where)
    PROVE  cli'[k].at = where
<1>. QED
  BY DEF Goes, TypeOK, AtWork

LEMMA AdvancesTo ==
    ASSUME TypeOK, ShapeInv, NEW k \in CLIs, Advances(k),
           cli[k].at \in {"next", "blob", "unpack", "unmounting"}
    PROVE  cli'[k].at \in {"idle", "next"}
<1>1. Shape(cli[k]) /\ cli[k] # Idle
  BY WhoIsWhere DEF ShapeInv
<1>. QED
  BY <1>1, AdvancesDoes, AdvancedAt

\* The places that only a few steps lead to.
Special == {"publish", "move", "removing", "config"} \cup Running

LEMMA WhereTo ==
    ASSUME TypeOK, ShapeInv, NEW k \in CLIs, Mine(k),
           ~(MakePublishedDir(k) \/ Look(k) \/ MountOverlay(k)),
           ~(Run(k) \/ MountOne(k) \/ Command(k) \/ UnmountOne(k))
    PROVE  \/ cli'[k] = cli[k]
           \/ cli'[k].at \notin Special /\ (cli'[k].at = "look" => cli'[k].seen = {})
<1>1. CASE Issue(k)
  <2>1. ASSUME NEW a \in Images, RmImage(k, a) \/ RmImageHalf(k, a) PROVE cli'[k] = cli[k]
    BY <2>1 DEF RmImage, RmImageHalf
  <2>2. \/ cli'[k] = cli[k] \/ cli'[k].at \in {"next", "start", "pack", "check"}
        \/ cli'[k].at = "look" /\ cli'[k].seen = {}
    BY <1>1, <2>1, IssuePullDoes, IssueBuildDoes, IssuePublishDoes, IssueRmDoes, IssueRunDoes
    DEF Issue
  <2>. QED
    BY <2>2 DEF Special, Running
<1>2. CASE Download(k) \/ Copy(k)
  BY <1>2, AdvancesTo, GoesTo DEF Download, Copy, Does, Special, Running
<1>3. CASE MakeImageDir(k) \/ CreateLayer(k) \/ BuildStart(k)
  BY <1>3, GoesTo DEF MakeImageDir, CreateLayer, BuildStart, Special, Running
<1>4. CASE FetchManifest(k) \/ From(k) \/ Unpack(k)
  BY <1>4, FetchManifestDoes, FromDoes, UnpackDoes DEF Special, Running
<1>5. CASE PullBlob(k)
  <2>1. cli[k].at = "blob" /\ Shape(cli[k]) /\ cli[k] # Idle
    BY <1>5, WhoIsWhere DEF PullBlob, ShapeInv
  <2>. QED
    BY <1>5, <2>1, PullBlobDoes, AdvancedAt DEF Special, Running
<1>6. CASE Save(k) \/ Describe(k) \/ RemoveLayout(k) \/ RemoveHalf(k) \/ RemoveAll(k)
           \/ SaveConfig(k) \/ BreaksOff(k)
  BY <1>6, EndsDoes, IdleIs
  DEF Save, Describe, RemoveLayout, RemoveHalf, RemoveAll, SaveConfig, BreaksOff, Special,
      Running
<1>7. CASE MoveArchive(k)
  BY <1>7, EndsDoes, GoesTo, IdleIs DEF MoveArchive, Special, Running
<1>. QED
  BY <1>1, <1>2, <1>3, <1>4, <1>5, <1>6, <1>7 DEF Mine, Step

-----------------------------------------------------------------------------
(* Images *)

(* What is not there is empty.                                             *)
NothingThere ==
    /\ \A a \in Images : ~image[a].present => image[a] = NoImage
    /\ \A l \in Layouts : ~layout[l].present => layout[l] = NoLayout

Holds(a, config, layers) ==
    image[a].present /\ image[a].config = config /\ image[a].layers = layers

(* How far the command that fills an image has come.                       *)
Filled(k) ==
    LET a == cli[k].image
        v == cli[k].v
        i == cli[k].i
    IN  /\ cli[k].at = "mkdir" => ~image[a].present
        /\ cli[k].at \in {"manifest", "move"} => Holds(a, None, NoImage.layers)
        /\ cli[k].at = "layer" =>
              Holds(a, v, [n \in Numbers |-> IF n < i THEN v ELSE Absent])
        /\ cli[k].at = "blob" =>
              Holds(a, v, [n \in Numbers |-> IF n < i THEN v ELSE IF n = i THEN Partial
                                             ELSE Absent])
        /\ cli[k].at = "move" => cli[k].ok
        /\ cli[k].at = "describe" =>
              Holds(a, None, [n \in Numbers |-> IF n = 1 THEN Packed ELSE Absent])

Whole(a) ==
    /\ image[a].config \in Origins
    /\ \A n \in Numbers :
          image[a].layers[n] = IF n <= Size(image[a].config) THEN image[a].config ELSE Absent

(* An image that nothing has spoilt has one user, and is whole when that one
   does not fill it.                                                       *)
ImageAt(a) ==
    /\ \A j, k \in CLIs : cli[j].image = a /\ cli[k].image = a => j = k
    /\ \A k \in CLIs : cli[k].image = a => Filled(k)
    /\ image[a].present /\ (\A k \in CLIs : cli[k].image = a => cli[k].at \notin Filling)
          => Whole(a)

ImageInv == \A a \in Images \ badImages : ImageAt(a)

(* What a publish will move is what it packed.                             *)
ArchiveInv ==
    \A k \in CLIs : cli[k].at \in {"publish", "move"} /\ cli[k].ok =>
        layout[cli[k].layout].archive \in {Absent, Packed}

\* Nothing happens to image a.
Leaves(a) ==
    /\ image'[a] = image[a]
    /\ a \in badImages => a \in badImages'
    /\ \A j \in CLIs : cli'[j].image = a =>
          /\ cli[j].image = a
          /\ \/ cli'[j].at = cli[j].at /\ cli'[j].v = cli[j].v /\ cli'[j].i = cli[j].i
                /\ cli'[j].ok = cli[j].ok
             \/ cli[j].at \notin Filling /\ cli'[j].at \notin Filling
    /\ \A j \in CLIs : cli[j].image = a /\ cli'[j].image # a => cli[j].at \notin Filling

\* An image that a step leaves alone stays as good as it was.
LEMMA LeavesImage ==
    ASSUME ImageInv, NEW a \in Images, Leaves(a), a \notin badImages'
    PROVE  ImageAt(a)'
<1>1. ImageAt(a) /\ image'[a] = image[a]
  BY DEF ImageInv, Leaves
<1>2. \A j, k \in CLIs : cli'[j].image = a /\ cli'[k].image = a => j = k
  BY <1>1 DEF ImageAt, Leaves
<1>3. ASSUME NEW k \in CLIs, cli'[k].image = a PROVE Filled(k)'
  <2>1. cli[k].image = a /\ Filled(k)
    BY <1>1, <1>3 DEF ImageAt, Leaves
  <2>2. CASE /\ cli'[k].at = cli[k].at /\ cli'[k].v = cli[k].v /\ cli'[k].i = cli[k].i
             /\ cli'[k].ok = cli[k].ok
    BY <1>1, <1>3, <2>1, <2>2 DEF Filled, Holds
  <2>3. CASE cli'[k].at \notin Filling
    BY <2>3 DEF Filled, Filling
  <2>. QED
    BY <1>3, <2>2, <2>3 DEF Leaves
<1>4. ASSUME image'[a].present, \A k \in CLIs : cli'[k].image = a => cli'[k].at \notin Filling
      PROVE  Whole(a)'
  <2>1. \A k \in CLIs : cli[k].image = a => cli[k].at \notin Filling
    BY <1>4 DEF Leaves
  <2>2. Whole(a)
    BY <1>1, <1>4, <2>1 DEF ImageAt
  <2>. QED
    BY <1>1, <2>2 DEF Whole
<1>. QED
  BY <1>2, <1>3, <1>4 DEF ImageAt

\* Command k works on no image but a, and on none that another works on.
LEMMA LeavesOthers ==
    ASSUME TypeOK, ShapeInv, NEW k \in CLIs, Only(k), NEW a \in Images,
           cli[k].image \in {a, None}, cli'[k].image \in {a, None},
           \A b \in Images \ {a} : image'[b] = image[b],
           badImages \ {a} \subseteq badImages'
    PROVE  \A b \in Images \ {a} : Leaves(b)
<1>1. None \notin Images
  BY StoreConstants DEF None
<1>. QED
  BY <1>1 DEF Leaves, Only

\* A step after which every image is as it was.
LEMMA QuietSteps ==
    ASSUME TypeOK, ShapeInv, ImageInv, NEW k \in CLIs, Only(k), image' = image,
           badImages \subseteq badImages',
           cli[k].at \notin Filling, cli'[k].at \notin Filling,
           cli'[k].image \in {cli[k].image, None}
    PROVE  ImageInv'
<1>1. None \notin Images
  BY StoreConstants DEF None
<1>2. ASSUME NEW a \in Images PROVE Leaves(a)
  BY <1>1 DEF Leaves, Only
<1>. QED
  BY <1>2, LeavesImage DEF ImageInv

\* A step with one image, which has no other user.
LEMMA OneImage ==
    ASSUME TypeOK, ShapeInv, ImageInv, NEW k \in CLIs, Only(k), NEW a \in Images,
           cli[k].image \in {a, None}, cli'[k].image \in {a, None},
           \A b \in Images \ {a} : image'[b] = image[b],
           badImages \ {a} \subseteq badImages',
           a \notin badImages' =>
              /\ \A j \in CLIs \ {k} : cli[j].image # a
              /\ cli'[k].image = a => Filled(k)'
              /\ image'[a].present /\ (cli'[k].image = a => cli'[k].at \notin Filling)
                    => Whole(a)'
    PROVE  ImageInv'
<1>1. ASSUME NEW b \in Images \ {a}, b \notin badImages' PROVE ImageAt(b)'
  BY <1>1, LeavesOthers, LeavesImage
<1>2. ASSUME a \notin badImages' PROVE ImageAt(a)'
  BY <1>2 DEF ImageAt, Only
<1>. QED
  BY <1>1, <1>2 DEF ImageInv

\* Who works on an image that nothing has spoilt works on it alone.
LEMMA UserAlone ==
    ASSUME ImageInv, NEW k \in CLIs, cli[k].image \in Images \ badImages
    PROVE  /\ \A j \in CLIs \ {k} : cli[j].image # cli[k].image
           /\ Filled(k)
           /\ image[cli[k].image].present /\ cli[k].at \notin Filling => Whole(cli[k].image)
<1>. QED
  BY DEF ImageInv, ImageAt

LEMMA IdleAlone ==
    ASSUME ShapeInv, ImageInv, NEW k \in CLIs, cli[k].at = "idle",
           NEW a \in Images \ badImages, OnImage(k, a) = {}
    PROVE  /\ cli[k].image = None
           /\ \A j \in CLIs : cli[j].image # a
           /\ image[a].present => Whole(a)
<1>1. cli[k] = Idle /\ None \notin Images
  BY WhoIsWhere, StoreConstants DEF ShapeInv, None
<1>2. ASSUME NEW j \in CLIs, cli[j].image = a PROVE FALSE
  <2>1. j # k /\ cli[j] # Idle
    BY <1>1, <1>2, IdleIs
  <2>2. cli[j].at # "idle"
    BY <2>1, WhoIsWhere DEF ShapeInv
  <2>. QED
    BY <1>2, <2>1, <2>2 DEF OnImage, Busy
<1>. QED
  BY <1>1, <1>2, IdleIs DEF ImageInv, ImageAt

\* A command that is issued, or an image rm.
LEMMA IssuesKeepImages ==
    ASSUME TypeOK, ShapeInv, NothingThere, ImageInv, NEW k \in CLIs, Issue(k)
    PROVE  ImageInv'
<1>1. ASSUME NEW a \in Images, NEW where \in {"next", "start", "pack"}, Local(k),
             cli[k].at = "idle", cli'[k].at = where, cli'[k].image = a,
             image' = image,
             badImages' = badImages \cup (IF OnImage(k, a) = {} THEN {} ELSE {a})
      PROVE  ImageInv'
  <2>1. cli[k].image = None
    BY <1>1, WhoIsWhere, IdleIs DEF ShapeInv
  <2>2. ASSUME a \notin badImages'
        PROVE  /\ \A j \in CLIs \ {k} : cli[j].image # a
               /\ Filled(k)'
               /\ image'[a].present => Whole(a)'
    <3>1. a \notin badImages /\ OnImage(k, a) = {}
      BY <1>1, <2>2
    <3>2. Filled(k)'
      BY <1>1 DEF Filled
    <3>. QED
      BY <1>1, <3>1, <3>2, IdleAlone DEF Whole
  <2>. QED
    BY <1>1, <2>1, <2>2, OneImage DEF Local
<1>2. ASSUME NEW a \in Images, NEW step \in {"download", "override"}, IssuePull(k, a, step)
      PROVE  ImageInv'
  BY <1>1, <1>2, IssuePullDoes DEF IssuePull, Meets, store
<1>3. ASSUME NEW a \in Images, NEW l \in Layouts, IssueBuild(k, a, l)
      PROVE  ImageInv'
  BY <1>1, <1>3, IssueBuildDoes DEF IssueBuild, Meets, store
<1>4. ASSUME NEW a \in Images, NEW l \in Layouts, IssuePublish(k, a, l)
      PROVE  ImageInv'
  BY <1>1, <1>4, IssuePublishDoes DEF IssuePublish, Meets, store
<1>5. ASSUME NEW a \in Images, RmImage(k, a)
      PROVE  ImageInv'
  <2>1. /\ cli[k].at = "idle" /\ Only(k) /\ cli'[k] = cli[k]
        /\ image'[a] = NoImage /\ \A b \in Images \ {a} : image'[b] = image[b]
        /\ badImages' = badImages \cup (IF OnImage(k, a) = {} THEN {} ELSE {a})
    BY <1>5 DEF RmImage, Meets, TypeOK, Only
  <2>2. cli[k].image = None
    BY <2>1, WhoIsWhere, IdleIs DEF ShapeInv
  <2>3. ~image'[a].present /\ a # None
    BY <2>1, StoreConstants DEF NoImage, None
  <2>4. a \notin badImages' => \A j \in CLIs \ {k} : cli[j].image # a
    BY <2>1, IdleAlone
  <2>. QED
    BY <2>1, <2>2, <2>3, <2>4, OneImage
<1>6. ASSUME NEW a \in Images, RmImageHalf(k, a)
      PROVE  ImageInv'
  <2>1. /\ cli[k].at = "idle" /\ Only(k) /\ cli'[k] = cli[k]
        /\ \A b \in Images \ {a} : image'[b] = image[b]
        /\ badImages' = badImages \cup {a}
    BY <1>6 DEF RmImageHalf, TypeOK, Only
  <2>2. cli[k].image = None
    BY <2>1, WhoIsWhere, IdleIs DEF ShapeInv
  <2>. QED
    BY <2>1, <2>2, OneImage
<1>7. ASSUME NEW l \in Layouts \cup {None}, IssueRm(k, l)
      PROVE  ImageInv'
  <2>1. cli[k].at = "idle" /\ image' = image /\ badImages' = badImages
    BY <1>7 DEF IssueRm, store
  <2>. QED
    BY <1>7, <2>1, IssueRmDoes, QuietSteps DEF Local, Filling
<1>8. ASSUME NEW c \in Containers, NEW l \in Layouts, IssueRun(k, c, l)
      PROVE  ImageInv'
  <2>1. cli[k].at = "idle" /\ image' = image /\ badImages' = badImages
    BY <1>8 DEF IssueRun, store, history
  <2>. QED
    BY <1>8, <2>1, IssueRunDoes, QuietSteps DEF Local, Filling
<1>. QED
  BY <1>2, <1>3, <1>4, <1>5, <1>6, <1>7, <1>8 DEF Issue

\* The steps that change no image.
LEMMA QuietActions ==
    ASSUME TypeOK, ShapeInv, ImageInv, NEW k \in CLIs,
           \/ BuildStart(k) \/ From(k) \/ Unpack(k) \/ Copy(k) \/ Run(k) \/ MountOne(k)
           \/ Command(k) \/ UnmountOne(k) \/ Save(k) \/ Look(k) \/ RemoveLayout(k)
           \/ RemoveHalf(k) \/ RemoveAll(k) \/ MountOverlay(k) \/ SaveConfig(k)
    PROVE  ImageInv'
<1>1. image' = image /\ badImages' = badImages
  BY DEF BuildStart, From, Unpack, Copy, Run, MountOne, Command, UnmountOne, Save, Look,
         RemoveLayout, RemoveHalf, RemoveAll, MountOverlay, SaveConfig, store, history
<1>2. Only(k) /\ cli[k].at \notin Filling /\ cli'[k].at \notin Filling
      /\ cli'[k].image \in {cli[k].image, None}
  <2>1. CASE BuildStart(k) \/ MountOverlay(k)
    <3>1. \/ cli[k].at = "start" /\ Goes(k, "next")
          \/ cli[k].at = "check" /\ Goes(k, "config")
      BY <2>1 DEF BuildStart, MountOverlay
    <3>2. Local(k) /\ cli'[k].at \in {"next", "config"} /\ cli'[k].image = cli[k].image
      BY <3>1, GoesDoes
    <3>. QED
      BY <3>1, <3>2 DEF Filling, Local
  <2>6. CASE Copy(k)
    <3>1. cli[k].at = "next" /\ Shape(cli[k]) /\ cli[k] # Idle /\ Advances(k)
      BY <2>6, WhoIsWhere DEF ShapeInv, Copy, Does
    <3>. QED
      BY <3>1, AdvancesDoes, AdvancedAt DEF Filling, Local
  <2>2. CASE Save(k) \/ RemoveLayout(k) \/ RemoveHalf(k) \/ RemoveAll(k) \/ SaveConfig(k)
    BY <2>2, EndsDoes, IdleIs
    DEF Save, RemoveLayout, RemoveHalf, RemoveAll, SaveConfig, Does, Filling, Local
  <2>3. CASE From(k) \/ Unpack(k)
    BY <2>3, FromDoes, UnpackDoes DEF From, Unpack, Does, Filling, Local
  <2>4. CASE Run(k) \/ MountOne(k) \/ Command(k) \/ UnmountOne(k)
    BY <2>4, RunDoes, MountOneDoes, CommandDoes, UnmountOneDoes DEF Filling, Local
  <2>5. CASE Look(k)
    BY <2>5, LookDoes, IdleIs DEF Filling, Local
  <2>. QED
    BY <2>1, <2>2, <2>3, <2>4, <2>5, <2>6
<1>. QED
  BY <1>1, <1>2, QuietSteps

\* The steps that do, one by one.
LEMMA DownloadKeepsImages ==
    ASSUME TypeOK, ShapeInv, NothingThere, ImageInv, NEW k \in CLIs, Download(k)
    PROVE  ImageInv'
<1> DEFINE a == cli[k].image
<1>1. cli[k].at = "next" /\ a \in Images /\ cli[k] # Idle /\ Shape(cli[k])
  BY WhoIsWhere DEF Download, Does, ShapeInv, Pulls, Builds
<1>2. badImages' = badImages
  BY DEF Download, history
<1>3. CASE Advances(k) /\ image' = image
  BY <1>1, <1>2, <1>3, AdvancesDoes, AdvancedAt, QuietSteps DEF Local, Filling
<1>4. CASE Goes(k, "mkdir") /\ image' = [image EXCEPT ![a] = NoImage]
  <2>1. Only(k) /\ cli'[k].at = "mkdir" /\ cli'[k].image = a
    BY <1>1, <1>4, GoesDoes DEF Local
  <2>2. image'[a] = NoImage /\ \A b \in Images \ {a} : image'[b] = image[b]
    BY <1>1, <1>4 DEF TypeOK
  <2>3. ~image'[a].present
    BY <2>2 DEF NoImage
  <2>4. Filled(k)'
    BY <2>1, <2>3 DEF Filled
  <2>. QED
    BY <1>1, <1>2, <2>1, <2>2, <2>3, <2>4, UserAlone, OneImage
<1>. QED
  BY <1>3, <1>4 DEF Download

LEMMA MakeImageDirKeepsImages ==
    ASSUME TypeOK, ShapeInv, NothingThere, ImageInv, NEW k \in CLIs, MakeImageDir(k)
    PROVE  ImageInv'
<1> DEFINE a == cli[k].image
<1>1. cli[k].at = "mkdir" /\ a \in Images
  BY WhoIsWhere DEF MakeImageDir, ShapeInv, Pulls, Builds, Fetching
<1>2. Only(k) /\ cli'[k].at = "manifest" /\ cli'[k].image = a
  BY <1>1, GoesDoes DEF MakeImageDir, Local
<1>3. /\ image'[a] = [image[a] EXCEPT !.present = TRUE]
      /\ \A b \in Images \ {a} : image'[b] = image[b]
  BY <1>1 DEF MakeImageDir, TypeOK
<1>4. badImages \ {a} \subseteq badImages'
  BY DEF MakeImageDir
<1>5. ASSUME a \notin badImages'
      PROVE  (\A j \in CLIs \ {k} : cli[j].image # a) /\ Filled(k)'
  <2>1. ~image[a].present /\ OnImage(k, a) = {}
    <3>1. CASE a \in badImages
      BY <1>5, <3>1 DEF MakeImageDir
    <3>2. CASE a \notin badImages
      <4>1. Filled(k) /\ \A j \in CLIs \ {k} : cli[j].image # a
        BY <1>1, <3>2, UserAlone
      <4>. QED
        BY <1>1, <4>1 DEF Filled, OnImage, Busy
    <3>. QED
      BY <3>1, <3>2
  <2>2. \A j \in CLIs \ {k} : cli[j].image # a
    <3>1. ASSUME NEW j \in CLIs \ {k}, cli[j].image = a PROVE FALSE
      <4>1. cli[j].at # "idle"
        BY <1>1, <3>1, WhoIsWhere, IdleIs, StoreConstants DEF ShapeInv, None
      <4>. QED
        BY <2>1, <3>1, <4>1 DEF OnImage, Busy
    <3>. QED
      BY <3>1
  <2>3. image'[a].present /\ image'[a].config = None /\ image'[a].layers = NoImage.layers
    <3>1. image[a] \in ImageDirs /\ image[a] = NoImage
      BY <1>1, <2>1 DEF NothingThere, TypeOK
    <3>2. image[a].config = None /\ image[a].layers = NoImage.layers
      BY <3>1 DEF NoImage
    <3>. QED
      BY <1>3, <3>1, <3>2 DEF ImageDirs
  <2>4. Filled(k)'
    BY <1>2, <2>3 DEF Filled, Holds, NoImage
  <2>. QED
    BY <2>2, <2>4
<1>. QED
  BY <1>1, <1>2, <1>3, <1>4, <1>5, OneImage DEF Filling

LEMMA FetchManifestKeepsImages ==
    ASSUME TypeOK, ShapeInv, NothingThere, ImageInv, NEW k \in CLIs, FetchManifest(k)
    PROVE  ImageInv'
<1> DEFINE a == cli[k].image
<1>1. cli[k].at = "manifest" /\ a \in Images
  BY WhoIsWhere DEF FetchManifest, ShapeInv, Pulls, Builds, Fetching
<1>2. PICK v \in Versions :
          /\ cli'[k].at = "layer" /\ cli'[k].v = v /\ cli'[k].i = 1 /\ cli'[k].image = a
          /\ image' = [image EXCEPT ![a].config = v]
  BY FetchManifestDoes
<1>3. Only(k) /\ badImages' = badImages
  BY FetchManifestDoes DEF FetchManifest, history, Local
<1>4. /\ image[a] \in ImageDirs
      /\ image'[a] = [image[a] EXCEPT !.config = v]
      /\ \A b \in Images \ {a} : image'[b] = image[b]
  BY <1>1, <1>2 DEF TypeOK
<1>5. ASSUME a \notin badImages PROVE Filled(k)'
  <2>1. Holds(a, None, NoImage.layers)
    <3>1. Filled(k)
      BY <1>1, <1>5, UserAlone
    <3>. QED
      BY <1>1, <3>1 DEF Filled
  <2>2. image'[a].present /\ image'[a].config = v /\ image'[a].layers = NoImage.layers
    BY <1>4, <2>1 DEF Holds, ImageDirs
  <2>3. [n \in Numbers |-> IF n < 1 THEN v ELSE Absent] = NoImage.layers
    BY DEF NoImage, Numbers
  <2>. QED
    BY <1>2, <2>2, <2>3 DEF Filled, Holds
<1>. QED
  BY <1>1, <1>2, <1>3, <1>4, <1>5, UserAlone, OneImage DEF Filling

LEMMA CreateLayerKeepsImages ==
    ASSUME TypeOK, ShapeInv, NothingThere, ImageInv, NEW k \in CLIs, CreateLayer(k)
    PROVE  ImageInv'
<1> DEFINE a == cli[k].image
           v == cli[k].v
           i == cli[k].i
<1>1. cli[k].at = "layer" /\ a \in Images /\ v \in Versions /\ i \in 1..NumLayers[v]
  BY WhoIsWhere DEF CreateLayer, ShapeInv, Shape, Counts, Pulls, Builds, Fetching
<1>2. i \in Numbers /\ MaxLayers \in Nat
  BY <1>1, StoreConstants DEF Numbers
<1>3. /\ Only(k) /\ cli'[k].at = "blob" /\ cli'[k].image = a
      /\ cli'[k].v = v /\ cli'[k].i = i /\ badImages' = badImages
  BY <1>1, GoesDoes DEF CreateLayer, Local, history
<1>4. /\ image[a] \in ImageDirs
      /\ image' = [image EXCEPT ![a].layers[i] = Partial]
      /\ \A b \in Images \ {a} : image'[b] = image[b]
  BY <1>1 DEF CreateLayer, TypeOK
<1>5. /\ image'[a].present = image[a].present /\ image'[a].config = image[a].config
      /\ image'[a].layers = [image[a].layers EXCEPT ![i] = Partial]
  BY <1>1, <1>4 DEF TypeOK, ImageDirs
<1>6. ASSUME a \notin badImages PROVE Filled(k)'
  <2>1. Holds(a, v, [n \in Numbers |-> IF n < i THEN v ELSE Absent])
    <3>1. Filled(k)
      BY <1>1, <1>6, UserAlone
    <3>. QED
      BY <1>1, <3>1 DEF Filled
  <2>2. image'[a].layers = [n \in Numbers |-> IF n < i THEN v ELSE IF n = i THEN Partial
                                              ELSE Absent]
    BY <1>2, <1>5, <2>1 DEF Holds, Numbers
  <2>. QED
    BY <1>3, <1>5, <2>1, <2>2 DEF Filled, Holds
<1>. QED
  BY <1>1, <1>3, <1>4, <1>6, UserAlone, OneImage DEF Filling

LEMMA PullBlobKeepsImages ==
    ASSUME TypeOK, ShapeInv, NothingThere, ImageInv, NEW k \in CLIs, PullBlob(k)
    PROVE  ImageInv'
<1>a. PICK a \in Images : a = cli[k].image
  BY WhoIsWhere DEF PullBlob, ShapeInv, Pulls, Builds, Fetching
<1> DEFINE v == cli[k].v
           i == cli[k].i
           layers == image[a].layers
<1>1. /\ cli[k].at = "blob" /\ a = cli[k].image /\ v \in Versions /\ i \in 1..NumLayers[v]
      /\ Shape(cli[k]) /\ cli[k] # Idle
  BY <1>a, WhoIsWhere DEF PullBlob, ShapeInv, Shape, Counts, Fetching
<1>2. i \in Numbers /\ NumLayers[v] \in Nat /\ NumLayers[v] <= MaxLayers /\ MaxLayers \in Nat
  BY <1>1, StoreConstants DEF Numbers
<1>3. Only(k) /\ badImages' = badImages
  BY PullBlobDoes DEF PullBlob, Local, history
<1>4. /\ image[a] \in ImageDirs
      /\ image' = [image EXCEPT ![a].layers[i] = IF @ = Partial THEN v ELSE @]
      /\ \A b \in Images \ {a} : image'[b] = image[b]
  BY <1>1 DEF PullBlob, TypeOK
<1>5. /\ image'[a].present = image[a].present /\ image'[a].config = image[a].config
      /\ image'[a].layers = [layers EXCEPT ![i] = IF @ = Partial THEN v ELSE @]
  BY <1>1, <1>4 DEF TypeOK, ImageDirs
<1>6. ASSUME a \notin badImages
      PROVE  /\ image'[a].present /\ image'[a].config = v
             /\ image'[a].layers = [n \in Numbers |-> IF n < i + 1 THEN v ELSE Absent]
  <2>1. Holds(a, v, [n \in Numbers |-> IF n < i THEN v ELSE IF n = i THEN Partial ELSE Absent])
    <3>1. Filled(k)
      BY <1>1, <1>6, UserAlone
    <3>. QED
      BY <1>1, <3>1 DEF Filled
  <2>2. layers[i] = Partial
    BY <1>2, <2>1 DEF Holds, Numbers
  <2>3. image'[a].layers = [layers EXCEPT ![i] = v]
    BY <1>5, <2>2
  <2>4. image'[a].layers = [n \in Numbers |-> IF n < i + 1 THEN v ELSE Absent]
    BY <1>2, <2>1, <2>3, SMTT(30) DEF Holds, Numbers
  <2>. QED
    BY <1>5, <2>1, <2>4 DEF Holds
<1>7. CASE i = NumLayers[v] /\ cli'[k] = Advanced(cli[k])
  <2>1. cli'[k].at \notin Filling /\ cli'[k].image \in {a, None}
    BY <1>1, <1>7, AdvancedAt DEF Filling
  <2>2. ASSUME a \notin badImages PROVE Whole(a)'
    <3>1. v # Packed /\ v \in Origins
      BY <1>1, StoreConstants DEF Packed, Origins
    <3>2. Size(v) = NumLayers[v]
      BY <3>1 DEF Size
    <3>3. \A n \in Numbers : image'[a].layers[n] = IF n <= Size(v) THEN v ELSE Absent
      BY <1>2, <1>6, <1>7, <2>2, <3>2 DEF Numbers
    <3>4. image'[a].config = v
      BY <1>6, <2>2
    <3>. QED
      BY <3>1, <3>3, <3>4 DEF Whole
  <2>3. cli'[k].image = a => Filled(k)'
    BY <2>1 DEF Filled, Filling
  <2>. QED
    BY <1>1, <1>3, <1>4, <2>1, <2>2, <2>3, UserAlone, OneImage
<1>8. CASE /\ cli'[k].at = "layer" /\ cli'[k].v = v /\ cli'[k].i = i + 1 /\ cli'[k].image = a
  <2>1. ASSUME a \notin badImages PROVE Filled(k)'
    BY <1>6, <1>8, <2>1 DEF Filled, Holds
  <2>2. cli'[k].at \in Filling
    BY <1>8 DEF Filling
  <2>3. \A j \in CLIs \ {k} : a \notin badImages => cli[j].image # a
    BY <1>1, UserAlone
  <2>4. cli[k].image = a /\ cli'[k].image = a
    BY <1>1, <1>8
  <2>. QED
    BY <1>3, <1>4, <2>1, <2>2, <2>3, <2>4, OneImage
<1>. QED
  BY <1>1, <1>7, <1>8, PullBlobDoes

LEMMA PackKeepsImages ==
    ASSUME TypeOK, ShapeInv, NothingThere, ImageInv, NEW k \in CLIs, Pack(k)
    PROVE  ImageInv'
<1> DEFINE l == cli[k].layout
<1>1. /\ cli[k].at = "pack" /\ cli'[k].at = "publish" /\ cli'[k].image = cli[k].image
      /\ \A j \in CLIs \ {k} :
            /\ cli'[j].at = cli[j].at /\ cli'[j].image = cli[j].image
            /\ cli'[j].i = cli[j].i /\ cli'[j].v = cli[j].v
            /\ cli'[j].ok = IF j \in Publishing(k, l) THEN FALSE ELSE cli[j].ok
  <2>1. /\ cli[k].at = "pack" /\ cli'[k].at = "publish" /\ cli'[k].image = cli[k].image
    BY PackDoes
  <2>2. ASSUME NEW j \in CLIs \ {k}
        PROVE  /\ cli'[j].at = cli[j].at /\ cli'[j].image = cli[j].image
               /\ cli'[j].i = cli[j].i /\ cli'[j].v = cli[j].v
    BY PackDoes, ZenonT(30)
  <2>3. ASSUME NEW j \in CLIs \ {k}
        PROVE  cli'[j].ok = IF j \in Publishing(k, l) THEN FALSE ELSE cli[j].ok
    BY PackDoes, ZenonT(30)
  <2>. QED
    BY <2>1, <2>2, <2>3
<1>2. image' = image /\ badImages' = badImages \cup {cli[j].image : j \in Publishing(k, l)}
  BY DEF Pack
<1>3. ASSUME NEW a \in Images, a \notin badImages' PROVE Leaves(a)
  <2>1. \A j \in CLIs \ {k} : cli[j].image = a => cli'[j].ok = cli[j].ok
    BY <1>1, <1>2, <1>3
  <2>. QED
    BY <1>1, <1>2, <1>3, <2>1 DEF Leaves, Filling
<1>. QED
  BY <1>3, LeavesImage DEF ImageInv

LEMMA MakePublishedDirKeepsImages ==
    ASSUME TypeOK, ShapeInv, NothingThere, ImageInv, NEW k \in CLIs, MakePublishedDir(k)
    PROVE  ImageInv'
<1> DEFINE a == cli[k].image
<1>1. cli[k].at = "publish" /\ a \in Images
  BY WhoIsWhere DEF MakePublishedDir, ShapeInv, Publishes
<1>2. Only(k) /\ cli'[k].at = "move" /\ cli'[k].image = a /\ cli'[k].ok = cli[k].ok
  BY <1>1, GoesDoes DEF MakePublishedDir, Local
<1>3. /\ image'[a] = [image[a] EXCEPT !.present = TRUE]
      /\ \A b \in Images \ {a} : image'[b] = image[b]
  BY <1>1 DEF MakePublishedDir, TypeOK
<1>4. badImages \ {a} \subseteq badImages'
  BY DEF MakePublishedDir
<1>5. ASSUME a \notin badImages'
      PROVE  (\A j \in CLIs \ {k} : cli[j].image # a) /\ Filled(k)'
  <2>1. ~image[a].present /\ OnImage(k, a) = {} /\ cli[k].ok
    BY <1>5 DEF MakePublishedDir
  <2>2. ASSUME NEW j \in CLIs \ {k}, cli[j].image = a PROVE FALSE
    <3>1. cli[j].at # "idle"
      BY <1>1, <2>2, WhoIsWhere, IdleIs, StoreConstants DEF ShapeInv, None
    <3>. QED
      BY <2>1, <2>2, <3>1 DEF OnImage, Busy
  <2>3. image'[a].present /\ image'[a].config = None /\ image'[a].layers = NoImage.layers
    <3>1. image[a] \in ImageDirs /\ image[a] = NoImage
      BY <1>1, <2>1 DEF NothingThere, TypeOK
    <3>2. image[a].config = None /\ image[a].layers = NoImage.layers
      BY <3>1 DEF NoImage
    <3>. QED
      BY <1>3, <3>1, <3>2 DEF ImageDirs
  <2>4. Filled(k)'
    BY <1>2, <2>1, <2>3 DEF Filled, Holds, NoImage
  <2>. QED
    BY <2>2, <2>4
<1>. QED
  BY <1>1, <1>2, <1>3, <1>4, <1>5, OneImage DEF Filling

LEMMA MoveArchiveKeepsImages ==
    ASSUME TypeOK, ShapeInv, NothingThere, ImageInv, ArchiveInv, NEW k \in CLIs, MoveArchive(k)
    PROVE  ImageInv'
<1> DEFINE l == cli[k].layout
<1>1. PICK a \in Images : a = cli[k].image
  BY WhoIsWhere DEF MoveArchive, ShapeInv, Publishes
<1>2. cli[k].at = "move" /\ l \in Layouts /\ badImages' = badImages
  BY WhoIsWhere DEF MoveArchive, ShapeInv, Publishes, history
<1>3. CASE /\ layout[l].archive # Absent /\ Goes(k, "describe")
           /\ image' = [image EXCEPT ![a].layers[1] = layout[l].archive]
  <2>1. Only(k) /\ cli'[k].at = "describe" /\ cli'[k].image = a
    BY <1>1, <1>2, <1>3, GoesDoes DEF Local
  <2>2. \A b \in Images \ {a} : image'[b] = image[b]
    BY <1>3 DEF TypeOK
  <2>3. ASSUME a \notin badImages PROVE Filled(k)'
    <3>1. Filled(k)
      BY <1>1, <2>3, UserAlone
    <3>2. Holds(a, None, NoImage.layers) /\ cli[k].ok
      BY <1>1, <1>2, <3>1 DEF Filled
    <3>3. layout[l].archive = Packed
      BY <1>2, <1>3, <3>2 DEF ArchiveInv
    <3>4. image[a] \in ImageDirs
      BY DEF TypeOK
    <3>5. /\ image'[a].present /\ image'[a].config = None
          /\ image'[a].layers = [NoImage.layers EXCEPT ![1] = Packed]
      BY <1>3, <3>2, <3>3, <3>4 DEF Holds, ImageDirs, TypeOK
    <3>6. [NoImage.layers EXCEPT ![1] = Packed] =
              [n \in Numbers |-> IF n = 1 THEN Packed ELSE Absent]
      BY StoreConstants DEF NoImage, Numbers
    <3>. QED
      BY <2>1, <3>5, <3>6 DEF Filled, Holds
  <2>. QED
    BY <1>1, <1>2, <2>1, <2>2, <2>3, UserAlone, OneImage DEF Filling
<1>4. CASE Ends(k) /\ image' = [image EXCEPT ![a] = NoImage]
  <2>1. Only(k) /\ cli'[k].image = None /\ a # None
    BY <1>4, EndsDoes, IdleIs, StoreConstants DEF Local, None
  <2>2. ~image'[a].present /\ \A b \in Images \ {a} : image'[b] = image[b]
    BY <1>4 DEF TypeOK, NoImage
  <2>. QED
    BY <1>1, <1>2, <2>1, <2>2, UserAlone, OneImage
<1>. QED
  BY <1>1, <1>3, <1>4 DEF MoveArchive

LEMMA DescribeKeepsImages ==
    ASSUME TypeOK, ShapeInv, NothingThere, ImageInv, NEW k \in CLIs, Describe(k)
    PROVE  ImageInv'
<1>1. PICK a \in Images : a = cli[k].image
  BY WhoIsWhere DEF Describe, ShapeInv, Publishes
<1>2. /\ cli[k].at = "describe" /\ Ends(k) /\ badImages' = badImages
      /\ image' = [image EXCEPT ![a].config = Packed]
  BY <1>1 DEF Describe, history
<1>3. Only(k) /\ cli'[k].image = None /\ a # None
  BY <1>2, EndsDoes, IdleIs, StoreConstants DEF Local, None
<1>4. \A b \in Images \ {a} : image'[b] = image[b]
  BY <1>2 DEF TypeOK
<1>5. ASSUME a \notin badImages PROVE Whole(a)'
  <2>1. Filled(k)
    BY <1>1, <1>5, UserAlone
  <2>2. Holds(a, None, [n \in Numbers |-> IF n = 1 THEN Packed ELSE Absent])
    BY <1>1, <1>2, <2>1 DEF Filled
  <2>3. image[a] \in ImageDirs
    BY DEF TypeOK
  <2>4. /\ image'[a].config = Packed
        /\ image'[a].layers = [n \in Numbers |-> IF n = 1 THEN Packed ELSE Absent]
    BY <1>2, <2>2, <2>3 DEF Holds, ImageDirs, TypeOK
  <2>5. Size(Packed) = 1 /\ Packed \in Origins
    BY DEF Size, Origins
  <2>6. \A n \in Numbers : n = 1 <=> n <= 1
    BY StoreConstants DEF Numbers
  <2>. QED
    BY <2>4, <2>5, <2>6 DEF Whole
<1>. QED
  BY <1>1, <1>2, <1>3, <1>4, <1>5, UserAlone, OneImage

LEMMA BreaksOffKeepsImages ==
    ASSUME TypeOK, ShapeInv, NothingThere, ImageInv, NEW k \in CLIs, BreaksOff(k)
    PROVE  ImageInv'
<1>1. /\ Ends(k) /\ image' = image
      /\ badImages' = IF cli[k].at \in Filling THEN badImages \cup {cli[k].image} ELSE badImages
  BY DEF BreaksOff, store
<1>2. Only(k) /\ cli'[k].at \notin Filling /\ cli'[k].image = None
  BY <1>1, EndsDoes, IdleIs DEF Local, Filling
<1>3. CASE cli[k].at \notin Filling
  BY <1>1, <1>2, <1>3, QuietSteps
<1>4. CASE cli[k].at \in Filling
  <2>1. PICK a \in Images : a = cli[k].image
    BY <1>4, WhoIsWhere DEF ShapeInv, Publishes, Pulls, Builds, Filling, Fetching
  <2>. QED
    BY <1>1, <1>2, <1>4, <2>1, OneImage
<1>. QED
  BY <1>3, <1>4

\* Every step keeps what holds of images.
LEMMA ImageStep ==
    ASSUME TypeOK, ShapeInv, NothingThere, ImageInv, ArchiveInv, Next
    PROVE  ImageInv'
<1>1. ASSUME NEW k \in CLIs, Step(k) PROVE ImageInv'
  BY <1>1, QuietActions, DownloadKeepsImages, MakeImageDirKeepsImages, FetchManifestKeepsImages,
     CreateLayerKeepsImages, PullBlobKeepsImages, PackKeepsImages, MakePublishedDirKeepsImages,
     MoveArchiveKeepsImages, DescribeKeepsImages
  DEF Step
<1>2. ASSUME NEW c \in Containers, ContainerEnds(c) \/ RemoveContainer(c) \/ Rewrite(c) PROVE ImageInv'
  BY <1>2
  DEF ContainerEnds, RemoveContainer, Rewrite, store, history, ImageInv, ImageAt, Filled, Holds, Whole
<1>. QED
  BY <1>1, <1>2, IssuesKeepImages, BreaksOffKeepsImages DEF Next

-----------------------------------------------------------------------------
(* Layouts *)

\* Layout l keeps its mounts and stays.
Tame(l) ==
    /\ layout'[l].archive \in {layout[l].archive, Absent}
    /\ layout'[l].mounts = layout[l].mounts
    /\ layout[l].present => layout'[l].present
    /\ ~layout'[l].present => layout'[l] = NoLayout

LayoutsTame == layout' \in [Layouts -> LayoutDirs] /\ \A l \in Layouts : Tame(l)

\* A step that changes one layout, or none.
LEMMA OneLayout ==
    ASSUME TypeOK, NothingThere, NEW l \in Layouts, NEW e \in LayoutDirs, e.present,
           e.archive \in {layout[l].archive, Absent}, e.mounts = layout[l].mounts,
           layout' = [layout EXCEPT ![l] = e]
    PROVE  LayoutsTame
<1>1. layout'[l] = e /\ \A m \in Layouts \ {l} : layout'[m] = layout[m]
  BY DEF TypeOK
<1>2. layout' \in [Layouts -> LayoutDirs]
  BY DEF TypeOK
<1>. QED
  BY <1>1, <1>2 DEF LayoutsTame, Tame, NothingThere

LEMMA SameLayouts ==
    ASSUME TypeOK, NothingThere, layout' = layout
    PROVE  LayoutsTame
<1>. QED
  BY DEF LayoutsTame, Tame, NothingThere, TypeOK

\* Which steps keep the layouts and their mounts.
LEMMA BuildersAreTame ==
    ASSUME TypeOK, ShapeInv, NothingThere, NEW k \in CLIs,
           BuildStart(k) \/ From(k) \/ Unpack(k) \/ Copy(k) \/ Save(k)
    PROVE  LayoutsTame
<1> DEFINE l == cli[k].layout
           r == layout[l]
<1>1. l \in Layouts
  <2>1. CASE BuildStart(k) \/ Unpack(k)
    BY <2>1, WhoIsWhere DEF BuildStart, Unpack, ShapeInv, Builds
  <2>2. CASE From(k) \/ Copy(k) \/ Save(k)
    <3>1. cli[k].at = "next" /\ Head(cli[k].todo) \in {"from", "copy", "save"}
      BY <2>2 DEF From, Copy, Save, Does
    <3>2. ~Pulls(cli[k])
      BY <3>1, Head(<<"download">>) = "download", Head(<<"override">>) = "override" DEF Pulls
    <3>. QED
      BY <3>1, <3>2, WhoIsWhere DEF ShapeInv, Builds
  <2>. QED
    BY <2>1, <2>2
<1>2. r \in LayoutDirs
  BY <1>1 DEF TypeOK
<1>3. CASE BuildStart(k) \/ From(k)
  <2> DEFINE e == [r EXCEPT !.present = TRUE]
  <2>1. e \in LayoutDirs /\ e.present /\ e.archive = r.archive /\ e.mounts = r.mounts
    BY <1>2 DEF LayoutDirs
  <2>2. layout' = [layout EXCEPT ![l] = e]
    BY <1>3 DEF BuildStart, From
  <2>. QED
    BY <1>1, <2>1, <2>2, OneLayout
<1>4. CASE Copy(k)
  <2> DEFINE e == [r EXCEPT !.present = TRUE, !.rootfs = Append(@, Copied)]
  <2>1. Append(r.rootfs, Copied) \in Seq(((Origins \cup {Partial}) \X Numbers) \cup {Copied})
    BY <1>2 DEF LayoutDirs
  <2>2. e \in LayoutDirs /\ e.present /\ e.archive = r.archive /\ e.mounts = r.mounts
    BY <1>2, <2>1 DEF LayoutDirs
  <2>3. layout' = [layout EXCEPT ![l] = e]
    BY <1>4 DEF Copy
  <2>. QED
    BY <1>1, <2>2, <2>3, OneLayout
<1>5. CASE Unpack(k)
  <2>1. PICK i \in Numbers, v \in Origins \cup {Partial} :
            /\ r.present
            /\ layout' = [layout EXCEPT
                  ![l].rootfs = Append(@, Layer(v, i)),
                  ![l].config = IF image[cli[k].image].config = None THEN @ ELSE "image"]
    <3>1. PICK i \in Numbers :
              /\ r.present /\ image[cli[k].image].layers[i] \in Origins
              /\ \E v \in {image[cli[k].image].layers[i], Partial} :
                    layout' = [layout EXCEPT
                        ![l].rootfs = Append(@, Layer(v, i)),
                        ![l].config = IF image[cli[k].image].config = None THEN @ ELSE "image"]
      BY <1>5, ZenonT(30) DEF Unpack
    <3>2. PICK v \in {image[cli[k].image].layers[i], Partial} :
              layout' = [layout EXCEPT
                  ![l].rootfs = Append(@, Layer(v, i)),
                  ![l].config = IF image[cli[k].image].config = None THEN @ ELSE "image"]
      BY <3>1
    <3>3. v \in Origins \cup {Partial}
      BY <3>1, <3>2
    <3>. QED
      BY <3>1, <3>2, <3>3
  <2> DEFINE c == IF image[cli[k].image].config = None THEN r.config ELSE "image"
             f == Append(r.rootfs, Layer(v, i))
             e == [r EXCEPT !.rootfs = f, !.config = c]
  <2>2. f \in Seq(((Origins \cup {Partial}) \X Numbers) \cup {Copied})
    <3>1. Layer(v, i) \in ((Origins \cup {Partial}) \X Numbers) \cup {Copied}
      BY <2>1 DEF Layer
    <3>2. r.rootfs \in Seq(((Origins \cup {Partial}) \X Numbers) \cup {Copied})
      BY <1>2 DEF LayoutDirs
    <3>. QED
      BY <3>1, <3>2
  <2>3. c \in {None, "image", "spec"}
    BY <1>2 DEF LayoutDirs
  <2>4. layout' = [layout EXCEPT ![l] = e]
    BY <2>1
  <2>5. e \in LayoutDirs /\ e.present /\ e.archive = r.archive /\ e.mounts = r.mounts
    <3> HIDE DEF c, f
    <3>. QED
      BY <1>2, <2>1, <2>2, <2>3 DEF LayoutDirs
  <2>. QED
    BY <1>1, <2>4, <2>5, OneLayout
<1>6. CASE Save(k)
  <2>1. CASE r.present
    <3> DEFINE e == [r EXCEPT !.config = "spec"]
    <3>1. e \in LayoutDirs /\ e.present /\ e.archive = r.archive /\ e.mounts = r.mounts
      BY <1>2, <2>1 DEF LayoutDirs
    <3>2. layout' = [layout EXCEPT ![l] = e]
      BY <1>6, <2>1 DEF Save
    <3>. QED
      BY <1>1, <3>1, <3>2, OneLayout
  <2>2. CASE ~r.present
    <3>1. layout' = [layout EXCEPT ![l].config = layout[l].config]
      BY <1>6, <2>2 DEF Save
    <3>2. layout' = layout
      BY <1>1, <1>2, <3>1 DEF TypeOK, LayoutDirs
    <3>. QED
      BY <3>2, SameLayouts
  <2>. QED
    BY <2>1, <2>2
<1>. QED
  BY <1>3, <1>4, <1>5, <1>6

LEMMA RemoveHalfIsTame ==
    ASSUME TypeOK, ShapeInv, NothingThere, NEW k \in CLIs, RemoveHalf(k)
    PROVE  LayoutsTame
<1>1. PICK l \in Present : layout' = [layout EXCEPT ![l].rootfs = <<>>]
  BY DEF RemoveHalf
<1> DEFINE r == layout[l]
           e == [r EXCEPT !.rootfs = <<>>]
<1>2. l \in Layouts /\ r \in LayoutDirs /\ r.present
  BY DEF Present, TypeOK
<1>3. <<>> \in Seq(((Origins \cup {Partial}) \X Numbers) \cup {Copied})
  OBVIOUS
<1>4. e \in LayoutDirs /\ e.present /\ e.archive = r.archive /\ e.mounts = r.mounts
  BY <1>2, <1>3 DEF LayoutDirs
<1>. QED
  BY <1>1, <1>2, <1>4, OneLayout

LEMMA MoveArchiveIsTame ==
    ASSUME TypeOK, ShapeInv, NothingThere, NEW k \in CLIs, MoveArchive(k)
    PROVE  LayoutsTame
<1> DEFINE l == cli[k].layout
           r == layout[l]
           e == [r EXCEPT !.archive = Absent]
<1>1. l \in Layouts /\ r \in LayoutDirs
  BY WhoIsWhere DEF MoveArchive, ShapeInv, Publishes, TypeOK
<1>2. CASE r.archive # Absent /\ layout' = [layout EXCEPT ![l].archive = Absent]
  <2>1. r.present
    BY <1>1, <1>2 DEF NothingThere, NoLayout
  <2>2. e \in LayoutDirs /\ e.present /\ e.archive = Absent /\ e.mounts = r.mounts
    BY <1>1, <2>1 DEF LayoutDirs
  <2>. QED
    BY <1>1, <1>2, <2>2, OneLayout
<1>3. CASE layout' = layout
  BY <1>3, SameLayouts
<1>. QED
  BY <1>2, <1>3 DEF MoveArchive

\* What layout l of the command at work is after a step that changes one of its mounts.
Remounted(l, m, n) ==
    /\ layout' \in [Layouts -> LayoutDirs]
    /\ layout[l].present
    /\ \A d \in Layouts \ {l} : layout'[d] = layout[d]
    /\ layout'[l].present /\ layout'[l].archive = layout[l].archive
    /\ layout'[l].mounts[m] = n
    /\ \A o \in (1..NumMounts) \ {m} : layout'[l].mounts[o] = layout[l].mounts[o]

LEMMA OneMount ==
    ASSUME TypeOK, NEW l \in Layouts, NEW m \in 1..NumMounts, NEW n \in 0..MaxMounts,
           layout[l].present, layout' = [layout EXCEPT ![l].mounts[m] = n]
    PROVE  Remounted(l, m, n)
<1> DEFINE r == layout[l]
           f == [r.mounts EXCEPT ![m] = n]
           e == [r EXCEPT !.mounts = f]
<1>1. r \in LayoutDirs /\ r.mounts \in [1..NumMounts -> 0..MaxMounts]
  BY DEF TypeOK, LayoutDirs
<1>2. /\ f \in [1..NumMounts -> 0..MaxMounts] /\ f[m] = n
      /\ \A o \in (1..NumMounts) \ {m} : f[o] = r.mounts[o]
  BY <1>1
<1>3. layout' = [layout EXCEPT ![l] = e]
  OBVIOUS
<1> HIDE DEF f
<1>4. e \in LayoutDirs /\ e.present /\ e.archive = r.archive /\ e.mounts = f
  BY <1>1, <1>2 DEF LayoutDirs
<1> HIDE DEF e
<1>5. layout'[l] = e /\ layout' \in [Layouts -> LayoutDirs]
      /\ \A d \in Layouts \ {l} : layout'[d] = layout[d]
  BY <1>3, <1>4 DEF TypeOK
<1>. QED
  BY <1>2, <1>4, <1>5 DEF Remounted

\* RUN mounts and unmounts.
LEMMA MountOneMounts ==
    ASSUME TypeOK, ShapeInv, NothingThere, NEW k \in CLIs, MountOne(k)
    PROVE  LET l == cli[k].layout
               m == cli[k].i
           IN  /\ l \in Layouts /\ m \in 1..NumMounts /\ layout[l].mounts[m] \in Nat
               /\ Remounted(l, m, layout[l].mounts[m] + 1)
<1> DEFINE l == cli[k].layout
           m == cli[k].i
<1>1. l \in Layouts /\ m \in 1..NumMounts
  BY MountOneDoes DEF Builds
<1>2. /\ layout[l].rootfs # <<>> /\ layout[l].mounts[m] < MaxMounts
      /\ layout' = [layout EXCEPT ![l].mounts[m] = layout[l].mounts[m] + 1]
  BY DEF MountOne
<1>3. layout[l].present
  BY <1>1, <1>2 DEF NothingThere, NoLayout
<1>4. layout[l].mounts[m] \in 0..MaxMounts /\ MaxMounts \in Nat
  BY <1>1, StoreConstants DEF TypeOK, LayoutDirs
<1>5. layout[l].mounts[m] + 1 \in 0..MaxMounts /\ layout[l].mounts[m] \in Nat
  <2> DEFINE n == layout[l].mounts[m]
  <2>1. n \in 0..MaxMounts /\ MaxMounts \in Nat /\ n < MaxMounts
    BY <1>2, <1>4 <2> HIDE DEF n
  <2>2. n + 1 \in 0..MaxMounts /\ n \in Nat
    BY <2>1
  <2>. QED
    BY <2>2 DEF n
<1>. QED
  BY <1>1, <1>2, <1>3, <1>5, OneMount

LEMMA UnmountOneMounts ==
    ASSUME TypeOK, ShapeInv, NothingThere, NEW k \in CLIs, UnmountOne(k)
    PROVE  LET l == cli[k].layout
               m == cli[k].i
           IN  /\ l \in Layouts /\ m \in 1..NumMounts /\ layout[l].mounts[m] \in Nat \ {0}
               /\ Remounted(l, m, layout[l].mounts[m] - 1)
<1> DEFINE l == cli[k].layout
           m == cli[k].i
<1>1. l \in Layouts /\ m \in 1..NumMounts
  BY UnmountOneDoes DEF Builds
<1>2. /\ layout[l].mounts[m] > 0
      /\ layout' = [layout EXCEPT ![l].mounts[m] = layout[l].mounts[m] - 1]
  BY DEF UnmountOne
<1>3. layout[l].present
  <2>1. NoLayout.mounts[m] = 0
    BY <1>1 DEF NoLayout
  <2>2. layout[l] # NoLayout
    BY <1>2, <2>1
  <2>. QED
    BY <1>1, <2>2 DEF NothingThere
<1>4. layout[l].mounts[m] \in 0..MaxMounts /\ MaxMounts \in Nat
  BY <1>1, StoreConstants DEF TypeOK, LayoutDirs
<1>5. layout[l].mounts[m] - 1 \in 0..MaxMounts /\ layout[l].mounts[m] \in Nat \ {0}
  <2> DEFINE n == layout[l].mounts[m]
  <2>1. n \in 0..MaxMounts /\ MaxMounts \in Nat /\ n > 0
    BY <1>2, <1>4 <2> HIDE DEF n
  <2>2. n - 1 \in 0..MaxMounts /\ n \in Nat \ {0}
    BY <2>1
  <2>. QED
    BY <2>2 DEF n
<1>. QED
  BY <1>1, <1>2, <1>3, <1>5, OneMount

\* Layouts are removed, and the rest stays as it is.
Removed == \A l \in Layouts : layout'[l] = layout[l] \/ layout'[l] = NoLayout

LEMMA NoLayoutDir == NoLayout \in LayoutDirs /\ ~NoLayout.present /\ NoLayout.archive = Absent
<1>1. <<>> \in Seq(((Origins \cup {Partial}) \X Numbers) \cup {Copied})
  OBVIOUS
<1>2. [m \in 1..NumMounts |-> 0] \in [1..NumMounts -> 0..MaxMounts]
  BY StoreConstants
<1>. QED
  BY <1>1, <1>2 DEF NoLayout, LayoutDirs

LEMMA RemovesLayouts ==
    ASSUME TypeOK, NEW k \in CLIs, RemoveLayout(k) \/ RemoveAll(k)
    PROVE  layout' \in [Layouts -> LayoutDirs] /\ Removed
<1>1. CASE RemoveLayout(k)
  <2>1. layout' = [layout EXCEPT ![cli[k].layout] = NoLayout]
    BY <1>1 DEF RemoveLayout
  <2>. QED
    BY <2>1, NoLayoutDir DEF TypeOK, Removed
<1>2. CASE RemoveAll(k)
  <2>1. CASE layout' = layout
    BY <2>1 DEF TypeOK, Removed
  <2>2. ASSUME NEW gone,
               layout' = [l \in Layouts |-> IF l \in gone THEN NoLayout ELSE layout[l]]
        PROVE  layout' \in [Layouts -> LayoutDirs] /\ Removed
    BY <2>2, NoLayoutDir DEF TypeOK, Removed
  <2>. QED
    BY <1>2, <2>1, <2>2 DEF RemoveAll
<1>. QED
  BY <1>1, <1>2

\* A publish packs into layout l.
Packs(l) ==
    /\ layout' \in [Layouts -> LayoutDirs]
    /\ \A d \in Layouts \ {l} : layout'[d] = layout[d]
    /\ layout'[l].present = layout[l].present /\ layout'[l].mounts = layout[l].mounts
    /\ ~layout[l].present => layout'[l] = layout[l]

LEMMA PackPacks ==
    ASSUME TypeOK, ShapeInv, NothingThere, NEW k \in CLIs, Pack(k)
    PROVE  /\ cli[k].layout \in Layouts /\ Packs(cli[k].layout)
           /\ cli'[k].ok => layout'[cli[k].layout].archive \in {Absent, Packed}
<1> DEFINE l == cli[k].layout
           r == layout[l]
<1>1. l \in Layouts
  BY PackDoes DEF Publishes
<1>2. r \in LayoutDirs /\ r.present \in BOOLEAN
  BY <1>1 DEF TypeOK, LayoutDirs
<1>3. PICK file \in {Packed, Partial, r.archive} :
          /\ layout' = [layout EXCEPT ![l].archive = IF r.present THEN file ELSE @]
          /\ cli'[k].ok => file = Packed
  BY PackDoes
<1>4. CASE r.present
  <2> DEFINE e == [r EXCEPT !.archive = file]
  <2>1. e \in LayoutDirs /\ e.present = r.present /\ e.archive = file /\ e.mounts = r.mounts
    BY <1>2, <1>3 DEF LayoutDirs
  <2>2. layout' = [layout EXCEPT ![l] = e]
    BY <1>3, <1>4 <2> HIDE DEF e
  <2>3. layout'[l] = e /\ layout' \in [Layouts -> LayoutDirs]
        /\ \A d \in Layouts \ {l} : layout'[d] = layout[d]
    BY <1>1, <2>1, <2>2 DEF TypeOK
  <2>. QED
    BY <1>1, <1>3, <1>4, <2>1, <2>3 DEF Packs
<1>5. CASE ~r.present
  <2>1. layout' = [layout EXCEPT ![l].archive = r.archive]
    BY <1>3, <1>5
  <2>2. layout' = layout
    BY <1>1, <1>2, <2>1 DEF TypeOK, LayoutDirs
  <2>3. r.archive = Absent
    BY <1>1, <1>5, NoLayoutDir DEF NothingThere
  <2>. QED
    BY <1>1, <2>2, <2>3 DEF Packs, TypeOK
<1>. QED
  BY <1>4, <1>5

\* All but those that remove layouts, mount or pack.
LEMMA MostAreTame ==
    ASSUME TypeOK, ShapeInv, NothingThere, NEW k \in CLIs, Mine(k),
           ~(MountOne(k) \/ UnmountOne(k) \/ RemoveLayout(k) \/ RemoveAll(k))
    PROVE  LayoutsTame
<1>1. CASE Issue(k) \/ BreaksOff(k)
  BY <1>1, SameLayouts
  DEF Issue, IssuePull, IssueBuild, IssuePublish, IssueRm, IssueRun, RmImage, RmImageHalf,
      BreaksOff, store
<1>2. CASE Download(k) \/ MakeImageDir(k) \/ FetchManifest(k) \/ CreateLayer(k) \/ PullBlob(k)
           \/ Run(k) \/ Command(k) \/ MakePublishedDir(k) \/ Describe(k) \/ Look(k)
           \/ MountOverlay(k) \/ SaveConfig(k)
  BY <1>2, SameLayouts
  DEF Download, MakeImageDir, FetchManifest, CreateLayer, PullBlob, Run, Command,
      MakePublishedDir, Describe, Look, MountOverlay, SaveConfig, store
<1>3. CASE BuildStart(k) \/ From(k) \/ Unpack(k) \/ Copy(k) \/ Save(k) \/ RemoveHalf(k)
           \/ MoveArchive(k)
  BY <1>3, BuildersAreTame, RemoveHalfIsTame, MoveArchiveIsTame
<1>. QED
  BY <1>1, <1>2, <1>3 DEF Mine, Step

\* Every step leaves what is not there empty.
LEMMA NothingThereStep ==
    ASSUME TypeOK, ShapeInv, NothingThere, Next
    PROVE  NothingThere' /\ layout' \in [Layouts -> LayoutDirs]
<1>1. \A l \in Layouts : layout'[l] = layout[l] => (~layout'[l].present => layout'[l] = NoLayout)
  BY DEF NothingThere
<1>2. ASSUME LayoutsTame
      PROVE  /\ layout' \in [Layouts -> LayoutDirs]
             /\ \A l \in Layouts : ~layout'[l].present => layout'[l] = NoLayout
  BY <1>2 DEF LayoutsTame, Tame
<1>3. ASSUME NEW k \in CLIs, Issue(k) \/ Step(k) \/ BreaksOff(k)
      PROVE  /\ layout' \in [Layouts -> LayoutDirs]
             /\ \A l \in Layouts : ~layout'[l].present => layout'[l] = NoLayout
  <2>1. CASE Mine(k) /\ ~(MountOne(k) \/ UnmountOne(k) \/ RemoveLayout(k) \/ RemoveAll(k))
    BY <1>2, <2>1, MostAreTame
  <2>2. CASE MountOne(k)
    BY <1>1, <2>2, MountOneMounts DEF Remounted
  <2>3. CASE UnmountOne(k)
    BY <1>1, <2>3, UnmountOneMounts DEF Remounted
  <2>4. CASE RemoveLayout(k) \/ RemoveAll(k)
    BY <1>1, <2>4, RemovesLayouts DEF Removed
  <2>5. CASE Pack(k)
    BY <1>1, <2>5, PackPacks DEF Packs
  <2>. QED
    BY <1>3, <2>1, <2>2, <2>3, <2>4, <2>5 DEF Mine
<1>4. ASSUME NEW c \in Containers, ContainerEnds(c) \/ RemoveContainer(c) \/ Rewrite(c)
      PROVE  /\ layout' \in [Layouts -> LayoutDirs]
             /\ \A l \in Layouts : ~layout'[l].present => layout'[l] = NoLayout
  BY <1>2, <1>4, SameLayouts DEF ContainerEnds, RemoveContainer, Rewrite, store
<1>5. \A a \in Images : ~image'[a].present => image'[a] = NoImage
  <2>1. CASE UNCHANGED image
    BY <2>1 DEF NothingThere
  <2>2. ASSUME NEW k \in CLIs, NEW a \in Images, RmImage(k, a) \/ RmImageHalf(k, a)
        PROVE  \A b \in Images : ~image'[b].present => image'[b] = NoImage
    <3>1. CASE RmImage(k, a)
      BY <3>1 DEF RmImage, TypeOK, NothingThere
    <3>2. CASE RmImageHalf(k, a)
      <4>1. image[a] \in ImageDirs /\ image[a].present
        BY <3>2 DEF RmImageHalf, TypeOK
      <4>2. image'[a].present /\ \A b \in Images \ {a} : image'[b] = image[b]
        BY <3>2, <4>1 DEF RmImageHalf, TypeOK, ImageDirs
      <4>. QED
        BY <4>2 DEF NothingThere
    <3>. QED
      BY <2>2, <3>1, <3>2
  <2>3. ASSUME NEW k \in CLIs, Download(k) \/ MoveArchive(k)
        PROVE  \A b \in Images : ~image'[b].present => image'[b] = NoImage
    <3>1. PICK a \in Images : a = cli[k].image
      BY <2>3, WhoIsWhere DEF Download, MoveArchive, Does, ShapeInv, Pulls, Builds, Publishes
    <3>2. CASE image' = [image EXCEPT ![a] = NoImage]
      BY <3>2 DEF TypeOK, NothingThere
    <3>3. ASSUME NEW file, image[a].present, image' = [image EXCEPT ![a].layers[1] = file]
          PROVE  \A b \in Images : ~image'[b].present => image'[b] = NoImage
      <4>1. image[a] \in ImageDirs
        BY DEF TypeOK
      <4>2. image'[a].present /\ \A b \in Images \ {a} : image'[b] = image[b]
        BY <3>3, <4>1 DEF TypeOK, ImageDirs
      <4>. QED
        BY <4>2 DEF NothingThere
    <3>. QED
      BY <2>1, <2>3, <3>1, <3>2, <3>3 DEF Download, MoveArchive
  <2>4. ASSUME NEW k \in CLIs,
               \/ MakeImageDir(k) \/ FetchManifest(k) \/ CreateLayer(k)
               \/ MakePublishedDir(k) \/ Describe(k)
        PROVE  \A b \in Images : ~image'[b].present => image'[b] = NoImage
    <3>1. PICK a \in Images : a = cli[k].image
      BY <2>4, WhoIsWhere
      DEF MakeImageDir, FetchManifest, CreateLayer, MakePublishedDir, Describe, ShapeInv, Pulls,
          Builds, Publishes, Fetching
    <3>2. image[a] \in ImageDirs
      BY DEF TypeOK
    <3>3. image'[a].present /\ \A b \in Images \ {a} : image'[b] = image[b]
      <4>1. CASE MakeImageDir(k) \/ MakePublishedDir(k)
        BY <3>1, <3>2, <4>1 DEF MakeImageDir, MakePublishedDir, TypeOK, ImageDirs
      <4>2. CASE FetchManifest(k)
        <5>1. PICK v \in Versions : image' = [image EXCEPT ![a].config = v]
          BY <3>1, <4>2 DEF FetchManifest
        <5>. QED
          BY <3>1, <3>2, <4>2, <5>1 DEF FetchManifest, TypeOK, ImageDirs
      <4>3. CASE CreateLayer(k)
        BY <3>1, <3>2, <4>3 DEF CreateLayer, TypeOK, ImageDirs
      <4>4. CASE Describe(k)
        BY <3>1, <3>2, <4>4 DEF Describe, TypeOK, ImageDirs
      <4>. QED
        BY <2>4, <4>1, <4>2, <4>3, <4>4
    <3>. QED
      BY <3>3 DEF NothingThere
  <2>5. ASSUME NEW k \in CLIs, PullBlob(k)
        PROVE  \A b \in Images : ~image'[b].present => image'[b] = NoImage
    <3>1. PICK a \in Images : a = cli[k].image
      BY <2>5, WhoIsWhere
      DEF PullBlob, ShapeInv, Pulls, Builds, Fetching
    <3> DEFINE i == cli[k].i
               v == cli[k].v
    <3>2. image[a] \in ImageDirs
      BY DEF TypeOK
    <3>3. image' = [image EXCEPT ![a].layers[i] = IF @ = Partial THEN v ELSE @]
      BY <2>5, <3>1 DEF PullBlob
    <3>4. image'[a].present = image[a].present /\ \A b \in Images \ {a} : image'[b] = image[b]
      BY <3>2, <3>3 DEF TypeOK, ImageDirs
    <3>5. CASE ~image[a].present
      <4>1. i \in Numbers
        BY <2>5, WhoIsWhere, StoreConstants DEF PullBlob, ShapeInv, Shape, Counts, Numbers
      <4>2. image[a] = NoImage /\ NoImage.layers[i] = Absent
        BY <3>5, <4>1 DEF NothingThere, NoImage
      <4>3. image' = [image EXCEPT ![a].layers[i] = Absent]
        BY <3>3, <4>2 DEF Absent, Partial
      <4>4. image'[a] = image[a]
        BY <3>2, <4>1, <4>2, <4>3 DEF TypeOK, ImageDirs
      <4>. QED
        BY <3>4, <4>4 DEF NothingThere
    <3>. QED
      BY <3>4, <3>5 DEF NothingThere
  <2>6. ASSUME NEW k \in CLIs, Issue(k), ~UNCHANGED image
        PROVE  \E a \in Images : RmImage(k, a) \/ RmImageHalf(k, a)
    BY <2>6 DEF Issue, IssuePull, IssueBuild, IssuePublish, IssueRm, IssueRun, store
  <2>7. ASSUME NEW k \in CLIs,
               \/ BuildStart(k) \/ From(k) \/ Unpack(k) \/ Copy(k) \/ Run(k) \/ MountOne(k)
               \/ Command(k) \/ UnmountOne(k) \/ Save(k) \/ Pack(k) \/ Look(k)
               \/ RemoveLayout(k) \/ RemoveHalf(k) \/ RemoveAll(k)
               \/ MountOverlay(k) \/ SaveConfig(k) \/ BreaksOff(k)
        PROVE  UNCHANGED image
    BY <2>7
    DEF BuildStart, From, Unpack, Copy, Run, MountOne, Command, UnmountOne, Save, Pack, Look,
        RemoveLayout, RemoveHalf, RemoveAll, MountOverlay, SaveConfig, BreaksOff, store
  <2>8. ASSUME NEW c \in Containers, ContainerEnds(c) \/ RemoveContainer(c) \/ Rewrite(c)
        PROVE  UNCHANGED image
    BY <2>8 DEF ContainerEnds, RemoveContainer, Rewrite, store
  <2>9. ASSUME NEW k \in CLIs, Step(k)
        PROVE  \A b \in Images : ~image'[b].present => image'[b] = NoImage
    BY <2>1, <2>3, <2>4, <2>5, <2>7, <2>9 DEF Step
  <2>. QED
    BY <2>1, <2>2, <2>6, <2>7, <2>8, <2>9 DEF Next
<1>. QED
  BY <1>3, <1>4, <1>5 DEF Next, NothingThere

\* Every step keeps what holds of archives.
LEMMA ArchiveStep ==
    ASSUME TypeOK, ShapeInv, NothingThere, ArchiveInv, Next
    PROVE  ArchiveInv'
\* A command that is to move an archive was, and nobody has packed into it since.
<1> DEFINE Moves(j) == cli[j].at \in {"publish", "move"} /\ cli[j].ok
           Kept == \A l \in Layouts : layout'[l].archive \in {layout[l].archive, Absent}
           Mover(j) == cli'[j].at \in {"publish", "move"} /\ cli'[j].ok
                           => Moves(j) /\ cli'[j].layout = cli[j].layout
<1>1. \A j \in CLIs : Moves(j) => /\ cli[j].layout \in Layouts
                                  /\ layout[cli[j].layout].archive \in {Absent, Packed}
  BY WhoIsWhere DEF ArchiveInv, ShapeInv, Publishes
<1>2. ASSUME Kept, \A j \in CLIs : Mover(j) PROVE ArchiveInv'
  BY <1>1, <1>2 DEF ArchiveInv
<1>3. ASSUME NEW k \in CLIs, Only(k), Mover(k) PROVE \A j \in CLIs : Mover(j)
  BY <1>3 DEF Only
<1>4. ASSUME LayoutsTame \/ layout' = layout PROVE Kept
  BY <1>4 DEF LayoutsTame, Tame
<1>5. ASSUME Removed PROVE Kept
  BY <1>5, NoLayoutDir DEF Removed
<1>6. ASSUME NEW k \in CLIs, MountOne(k) PROVE Kept
  BY <1>6, MountOneMounts DEF Remounted
<1>7. ASSUME NEW k \in CLIs, UnmountOne(k) PROVE Kept
  BY <1>7, UnmountOneMounts DEF Remounted
<1>8. ASSUME NEW k \in CLIs, Mine(k) PROVE Kept /\ Mover(k)
  <2>1. Kept
    BY <1>4, <1>5, <1>6, <1>7, <1>8, MostAreTame, RemovesLayouts
  <2>2. CASE MakePublishedDir(k)
    <3>1. cli[k].at = "publish" /\ Goes(k, "move")
      BY <2>2 DEF MakePublishedDir
    <3>2. cli'[k].ok = cli[k].ok /\ cli'[k].layout = cli[k].layout
      BY <3>1, GoesDoes
    <3>. QED
      BY <2>1, <3>1, <3>2
  <2>3. CASE Look(k) \/ MountOverlay(k) \/ Run(k) \/ MountOne(k) \/ Command(k) \/ UnmountOne(k)
    <3>1. cli'[k].at \notin {"publish", "move"}
      BY <2>3, LookDoes, IdleIs, GoesTo, RunDoes, MountOneDoes, CommandDoes, UnmountOneDoes
      DEF MountOverlay
    <3>. QED
      BY <2>1, <3>1
  <2>. QED
    BY <1>8, <2>1, <2>2, <2>3, WhereTo DEF Special
<1>9. ASSUME NEW k \in CLIs, Pack(k) PROVE ArchiveInv'
  <2> DEFINE l == cli[k].layout
  <2>1. /\ l \in Layouts /\ Packs(l) /\ cli'[k].layout = l
        /\ cli'[k].ok => layout'[l].archive \in {Absent, Packed}
    BY <1>9, PackPacks, PackDoes
  <2>2. ASSUME NEW j \in CLIs \ {k}, cli'[j].at \in {"publish", "move"}, cli'[j].ok
        PROVE  layout'[cli'[j].layout].archive \in {Absent, Packed}
    <3>1. cli'[j].at = cli[j].at /\ cli'[j].layout = cli[j].layout
      BY <1>9, PackDoes
    <3>2. cli'[j].ok = IF j \in Publishing(k, l) THEN FALSE ELSE cli[j].ok
      BY <1>9, PackDoes, ZenonT(30)
    <3>3. j \notin Publishing(k, l) /\ Moves(j)
      BY <2>2, <3>1, <3>2
    <3>4. cli[j].cmd = "publish" /\ j \in Busy
      BY <2>2, <3>1, WhoIsWhere DEF ShapeInv, Publishes, Busy
    <3>5. cli[j].layout # l
      BY <3>3, <3>4 DEF Publishing
    <3>. QED
      BY <1>1, <2>1, <3>1, <3>3, <3>5 DEF Packs
  <2>. QED
    BY <2>1, <2>2 DEF ArchiveInv
<1>10. ASSUME NEW c \in Containers, ContainerEnds(c) \/ RemoveContainer(c) \/ Rewrite(c) PROVE ArchiveInv'
  BY <1>10 DEF ContainerEnds, RemoveContainer, Rewrite, store, ArchiveInv
<1>11. ASSUME NEW k \in CLIs, Mine(k) PROVE ArchiveInv'
  <2>1. Only(k)
    BY <1>11, MineDoes DEF Local
  <2>2. Kept /\ Mover(k)
    BY <1>8, <1>11
  <2>. QED
    BY <1>2, <1>3, <2>1, <2>2
<1>. QED
  BY <1>9, <1>10, <1>11 DEF Next, Mine

-----------------------------------------------------------------------------
(* Layouts that containers use *)

\* layout rm k is not past container c, or could not read its config, or
\* does not remove layout l.
Passes(k, c, l) == cli[k].layout = l /\ HasPassed(k, c) => c \in cli[k].skipped

(* The layout of a container stays while nobody that has read its config has *)
(* got past it.                                                            *)
UsedInv ==
    /\ \A c \in Containers \ raced : used[c] # None =>
          /\ layout[used[c]].present
          /\ \A k \in CLIs : Passes(k, c, used[c])
    /\ \A k \in CLIs : cli[k].at = "config" /\ cli[k].c \notin raced =>
          layout[cli[k].layout].present

\* No command comes to remove a layout, passes another container, or comes to
\* write a container's config.
NobodyNew ==
    \A j \in CLIs :
        \/ cli'[j].at \in {"removing", "config"}
        \/ cli'[j].at = "look" /\ cli'[j].seen # {}
        => /\ cli[j].at = cli'[j].at /\ cli[j].layout = cli'[j].layout /\ cli[j].c = cli'[j].c
           /\ cli[j].seen = cli'[j].seen /\ cli[j].skipped = cli'[j].skipped

Stay == \A l \in Layouts : layout[l].present => layout'[l].present

LEMMA UsedFrame ==
    ASSUME TypeOK, ShapeInv, UsedInv, Stay, NobodyNew, used' = used, raced \subseteq raced'
    PROVE  UsedInv'
<1>1. \A c \in Containers : used[c] \in Layouts \cup {None}
  BY DEF TypeOK
<1>2. \A k \in CLIs : cli[k].at = "config" => cli[k].layout \in Layouts
  BY WhoIsWhere DEF ShapeInv, Launches
<1>3. ASSUME NEW c \in Containers \ raced', used[c] # None
      PROVE  /\ layout'[used[c]].present
             /\ \A k \in CLIs : Passes(k, c, used[c])'
  <2>1. layout'[used[c]].present
    BY <1>1, <1>3 DEF UsedInv, Stay
  <2>2. ASSUME NEW k \in CLIs, cli'[k].layout = used[c], HasPassed(k, c)'
        PROVE  c \in cli'[k].skipped
    <3>1. /\ cli[k].at = cli'[k].at /\ cli[k].layout = cli'[k].layout
          /\ cli[k].seen = cli'[k].seen /\ cli[k].skipped = cli'[k].skipped
      BY <2>2 DEF HasPassed, NobodyNew
    <3>2. Passes(k, c, used[c])
      BY <1>3 DEF UsedInv
    <3>. QED
      BY <2>2, <3>1, <3>2 DEF Passes, HasPassed
  <2>. QED
    BY <2>1, <2>2 DEF Passes
<1>4. ASSUME NEW k \in CLIs, cli'[k].at = "config", cli'[k].c \notin raced'
      PROVE  layout'[cli'[k].layout].present
  BY <1>2, <1>4 DEF UsedInv, Stay, NobodyNew
<1>. QED
  BY <1>3, <1>4 DEF UsedInv

\* A step that ends its command passes no container.
LEMMA PassesFrame ==
    ASSUME UsedInv, NEW k \in CLIs, Only(k), cli'[k].at \notin {"removing", "look"},
           NEW c \in Containers \ raced, used[c] # None, NEW j \in CLIs
    PROVE  cli'[j].layout = used[c] /\ HasPassed(j, c)' => c \in cli'[j].skipped
<1>1. Passes(j, c, used[c])
  BY DEF UsedInv
<1>2. CASE j = k
  BY <1>2 DEF HasPassed
<1>3. CASE j # k
  BY <1>1, <1>3 DEF Only, Passes, HasPassed
<1>. QED
  BY <1>2, <1>3

\* Every step keeps the layouts that containers use.
LEMMA UsedStep ==
    ASSUME TypeOK, ShapeInv, NothingThere, UsedInv, Next
    PROVE  UsedInv'
<1>1. ASSUME NEW k \in CLIs, Only(k),
             \/ cli'[k].at \notin {"removing", "config"}
                /\ (cli'[k].at = "look" => cli'[k].seen = {})
             \/ cli'[k] = cli[k]
      PROVE  NobodyNew
  BY <1>1 DEF Only, NobodyNew
<1>2. ASSUME NEW k \in CLIs, Mine(k),
             ~(Look(k) \/ RemoveLayout(k) \/ RemoveAll(k) \/ MountOverlay(k) \/ SaveConfig(k))
      PROVE  UsedInv'
  <2>1. NobodyNew
    <3>1. CASE MakePublishedDir(k) \/ Run(k) \/ MountOne(k) \/ Command(k) \/ UnmountOne(k)
      <4>1. cli'[k].at \notin {"removing", "config", "look"}
        BY <3>1, GoesTo, RunDoes, MountOneDoes, CommandDoes, UnmountOneDoes DEF MakePublishedDir
      <4>. QED
        BY <1>1, <1>2, <4>1, MineDoes DEF Local
    <3>. QED
      BY <1>1, <1>2, <3>1, WhereTo, MineDoes DEF Local, Special
  <2>2. Stay
    BY <1>2, MostAreTame, MountOneMounts, UnmountOneMounts DEF LayoutsTame, Tame, Remounted, Stay
  <2>3. used' = used /\ raced' = raced
    <3>1. CASE Issue(k)
      BY <3>1
      DEF Issue, IssuePull, IssueBuild, IssuePublish, IssueRm, IssueRun, RmImage, RmImageHalf,
          Meets, runtime, history
    <3>2. CASE \/ Download(k) \/ MakeImageDir(k) \/ FetchManifest(k) \/ CreateLayer(k)
               \/ PullBlob(k) \/ BuildStart(k) \/ From(k) \/ Unpack(k) \/ Copy(k) \/ Run(k)
               \/ MountOne(k)
      BY <3>2
      DEF Download, MakeImageDir, FetchManifest, CreateLayer, PullBlob, BuildStart, From,
          Unpack, Copy, Run, MountOne, runtime, history
    <3>3. CASE \/ Command(k) \/ UnmountOne(k) \/ Save(k) \/ MakePublishedDir(k)
               \/ MoveArchive(k) \/ Describe(k) \/ RemoveHalf(k) \/ BreaksOff(k)
      BY <3>3
      DEF Command, UnmountOne, Save, MakePublishedDir, MoveArchive, Describe, RemoveHalf,
          BreaksOff, runtime, history
    <3>. QED
      BY <1>2, <3>1, <3>2, <3>3 DEF Mine, Step
  <2>. QED
    BY <2>1, <2>2, <2>3, UsedFrame
<1>3. ASSUME NEW k \in CLIs, Pack(k) PROVE UsedInv'
  <2>1. NobodyNew
    <3>1. ASSUME NEW j \in CLIs \ {k}, cli'[j].at \in {"removing", "config", "look"}
          PROVE  cli'[j] = cli[j]
      <4>1. cli[j].at = cli'[j].at /\ (cli[j].cmd # "publish" => cli'[j] = cli[j])
        BY <1>3, PackDoes, ZenonT(30)
      <4>2. cli[j].cmd # "publish"
        BY <3>1, <4>1, WhoIsWhere DEF ShapeInv, Removes, Launches
      <4>. QED
        BY <4>1, <4>2
    <3>2. cli'[k].at = "publish"
      BY <1>3, PackDoes
    <3>. QED
      BY <3>1, <3>2 DEF NobodyNew
  <2>2. Stay
    BY <1>3, PackPacks DEF Packs, Stay
  <2>. QED
    BY <1>3, <2>1, <2>2, UsedFrame DEF Pack, runtime
<1>4. ASSUME NEW k \in CLIs, Look(k) PROVE UsedInv'
  <2>1. /\ used' = used /\ raced' = raced /\ layout' = layout
    BY <1>4 DEF Look, runtime, store, history
  <2>2. Only(k) /\ cli'[k].at # "config"
    BY <1>4, LookDoes, IdleIs DEF Local
  <2>3. ASSUME NEW c \in Containers \ raced, used[c] # None, NEW j \in CLIs,
               cli'[j].layout = used[c], HasPassed(j, c)'
        PROVE  c \in cli'[j].skipped
    <3>1. Passes(j, c, used[c])
      BY <2>3 DEF UsedInv
    <3>2. CASE j # k
      BY <2>2, <2>3, <3>1, <3>2 DEF Only, Passes, HasPassed
    <3>3. CASE j = k
      <4>1. cli[k].at = "look" /\ cli[k].layout = used[c]
        BY <1>4, <2>3, <3>3, LookDoes, IdleIs DEF HasPassed
      <4>2. CASE c \in cli[k].seen
        <5>1. c \in cli[k].skipped
          BY <3>1, <3>3, <4>1, <4>2 DEF Passes, HasPassed
        <5>2. cli[k].skipped \subseteq cli'[k].skipped
          BY <1>4, <2>3, <3>3, LookDoes, IdleIs
        <5>. QED
          BY <3>3, <5>1, <5>2
      <4>3. CASE c \notin cli[k].seen
        BY <1>4, <2>3, <3>3, <4>1, <4>3, LookDoes, IdleIs DEF HasPassed
      <4>. QED
        BY <4>2, <4>3
    <3>. QED
      BY <3>2, <3>3
  <2>4. ASSUME NEW c \in Containers \ raced', used'[c] # None
        PROVE  /\ layout'[used'[c]].present
               /\ \A j \in CLIs : Passes(j, c, used[c])'
    BY <2>1, <2>3, <2>4 DEF UsedInv, Passes
  <2>5. ASSUME NEW j \in CLIs, cli'[j].at = "config", cli'[j].c \notin raced'
        PROVE  layout'[cli'[j].layout].present
    BY <2>1, <2>2, <2>5 DEF UsedInv, Only
  <2>. QED
    BY <2>4, <2>5 DEF UsedInv
<1>5. ASSUME NEW k \in CLIs, MountOverlay(k) PROVE UsedInv'
  <2> DEFINE l == cli[k].layout
  <2>1. /\ used' = used /\ raced' = raced /\ layout' = layout
        /\ cli[k].at = "check" /\ Goes(k, "config") /\ layout[l].config = "spec"
    BY <1>5 DEF MountOverlay, store, history
  <2>2. Only(k) /\ cli'[k].at = "config" /\ cli'[k].layout = l
    BY <2>1, GoesDoes DEF Local
  <2>3. l \in Layouts
    BY <2>1, WhoIsWhere DEF ShapeInv, Launches
  <2>4. layout[l].present
    BY <2>1, <2>3 DEF NothingThere, NoLayout, None
  <2>5. ASSUME NEW c \in Containers \ raced', used'[c] # None
        PROVE  /\ layout'[used'[c]].present
               /\ \A j \in CLIs : Passes(j, c, used[c])'
    <3>1. c \in Containers \ raced /\ used[c] # None
      BY <2>1, <2>5
    <3>2. layout'[used'[c]].present
      BY <2>1, <3>1 DEF UsedInv
    <3>. QED
      BY <2>1, <2>2, <3>1, <3>2, PassesFrame DEF Passes
  <2>6. ASSUME NEW j \in CLIs, cli'[j].at = "config", cli'[j].c \notin raced'
        PROVE  layout'[cli'[j].layout].present
    BY <2>1, <2>2, <2>4, <2>6 DEF UsedInv, Only
  <2>. QED
    BY <2>5, <2>6 DEF UsedInv
<1>6. ASSUME NEW k \in CLIs, SaveConfig(k) PROVE UsedInv'
  <2>3. PICK c \in Containers, l \in Layouts : c = cli[k].c /\ l = cli[k].layout
    BY <1>6, WhoIsWhere DEF SaveConfig, ShapeInv, Launches
  <2>1. /\ cli[k].at = "config" /\ Ends(k) /\ layout' = layout
        /\ used' = [used EXCEPT ![c] = l]
        /\ raced' = raced \cup (IF \E j \in OnLayout(k, l) : HasPassed(j, c) THEN {c} ELSE {})
    BY <1>6, <2>3 DEF SaveConfig, store
  <2>9. raced \subseteq raced'
    BY <2>1
  <2>2. Only(k) /\ cli'[k].at = "idle"
    BY <2>1, EndsDoes, IdleIs DEF Local
  <2>4. ASSUME c \notin raced'
        PROVE  layout[l].present /\ \A j \in CLIs : ~(cli'[j].layout = l /\ HasPassed(j, c)')
    <3>1. layout[l].present
      BY <2>1, <2>3, <2>4, <2>9 DEF UsedInv
    <3>2. ASSUME NEW j \in CLIs, HasPassed(j, c)', cli'[j].layout = l PROVE FALSE
      <4>1. j # k /\ HasPassed(j, c) /\ cli[j].layout = l
        BY <2>2, <3>2 DEF Only, HasPassed
      <4>2. cli[j].cmd = "rm" /\ cli[j].at # "idle"
        BY <4>1, WhoIsWhere DEF ShapeInv, Removes, HasPassed
      <4>3. j \in OnLayout(k, l)
        BY <4>1, <4>2 DEF OnLayout, Busy
      <4>. QED
        BY <2>1, <2>4, <4>1, <4>3
    <3>. QED
      BY <3>1, <3>2
  <2>5. ASSUME NEW d \in Containers \ {c}, d \notin raced', used[d] # None
        PROVE  /\ layout[used[d]].present
               /\ \A j \in CLIs :
                     cli'[j].layout = used[d] /\ HasPassed(j, d)' => d \in cli'[j].skipped
    <3>1. d \in Containers \ raced
      BY <2>1, <2>5
    <3>. QED
      BY <2>2, <2>5, <3>1, PassesFrame DEF UsedInv
  <2>6. \A d \in Containers : used'[d] = IF d = c THEN l ELSE used[d]
    BY <2>1, <2>3 DEF TypeOK
  <2>7. ASSUME NEW j \in CLIs, cli'[j].at = "config", cli'[j].c \notin raced'
        PROVE  layout[cli'[j].layout].present
    <3>1. j # k /\ cli[j] = cli'[j] /\ cli[j].c \notin raced
      BY <2>2, <2>7, <2>9 DEF Only
    <3>. QED
      BY <2>7, <3>1 DEF UsedInv
  <2>8. ASSUME NEW d \in Containers \ raced', used'[d] # None
        PROVE  /\ layout'[used'[d]].present
               /\ \A j \in CLIs :
                     cli'[j].layout = used'[d] /\ HasPassed(j, d)' => d \in cli'[j].skipped
    <3>1. CASE d = c
      BY <2>1, <2>4, <2>6, <2>8, <3>1
    <3>2. CASE d # c
      BY <2>1, <2>5, <2>6, <2>8, <3>2
    <3>. QED
      BY <3>1, <3>2
  <2>. QED
    BY <2>1, <2>7, <2>8 DEF UsedInv, Passes
<1>7. ASSUME NEW k \in CLIs, RemoveLayout(k) PROVE UsedInv'
  <2> DEFINE l == cli[k].layout
  <2>1. /\ cli[k].at = "removing" /\ l # None /\ Ends(k) /\ used' = used
        /\ layout' = [layout EXCEPT ![l] = NoLayout]
        /\ raced' = raced \cup Launching(l) \cup {c \in cli[k].skipped : used[c] = l}
    BY <1>7 DEF RemoveLayout, runtime
  <2>2. Only(k) /\ cli'[k].at = "idle"
    BY <2>1, EndsDoes, IdleIs DEF Local
  <2>3. \A d \in Layouts \ {l} : layout'[d] = layout[d]
    BY <2>1 DEF TypeOK
  <2>4. ASSUME NEW c \in Containers \ raced', used[c] # None
        PROVE  /\ layout'[used[c]].present
               /\ \A j \in CLIs :
                     cli'[j].layout = used[c] /\ HasPassed(j, c)' => c \in cli'[j].skipped
    <3>1. c \in Containers \ raced /\ used[c] \in Layouts /\ layout[used[c]].present
      BY <2>1, <2>4 DEF UsedInv, TypeOK
    <3>2. used[c] # l
      <4>1. Passes(k, c, used[c])
        BY <2>4, <3>1 DEF UsedInv
      <4>. QED
        BY <2>1, <2>4, <4>1 DEF Passes, HasPassed
    <3>. QED
      BY <2>2, <2>3, <2>4, <3>1, <3>2, PassesFrame
  <2>5. ASSUME NEW j \in CLIs, cli'[j].at = "config", cli'[j].c \notin raced'
        PROVE  layout'[cli'[j].layout].present
    <3>1. j # k /\ cli[j] = cli'[j] /\ cli[j].at = "config" /\ cli[j].c \notin raced
      BY <2>1, <2>2, <2>5 DEF Only
    <3>2. cli[j].cmd = "run" /\ cli[j].layout \in Layouts
      BY <3>1, WhoIsWhere DEF ShapeInv, Launches
    <3>3. cli[j].layout # l
      BY <2>1, <2>5, <3>1, <3>2 DEF Launching, Busy
    <3>. QED
      BY <2>3, <3>1, <3>2, <3>3 DEF UsedInv
  <2>. QED
    BY <2>1, <2>4, <2>5 DEF UsedInv, Passes
<1>8. ASSUME NEW k \in CLIs, RemoveAll(k) PROVE UsedInv'
  <2>9. ASSUME layout' = layout, raced' = raced PROVE UsedInv'
    BY <1>8, <2>9, EndsDoes, IdleIs, UsedFrame, <1>1 DEF RemoveAll, runtime, Local, Stay
  <2>1. ASSUME NEW gone \in SUBSET {l \in Present : ~Mounted(l)},
               layout' = [l \in Layouts |-> IF l \in gone THEN NoLayout ELSE layout[l]],
               raced' = raced \cup
                  {c \in Containers : used[c] \in gone \/ \E l \in gone : c \in Launching(l)}
        PROVE  UsedInv'
    <3>1. /\ raced \subseteq raced' /\ \A c \in Containers : used[c] \in gone => c \in raced'
          /\ \A l \in gone, c \in Containers : c \in Launching(l) => c \in raced'
      BY <2>1
    <3>2. used' = used /\ Only(k) /\ cli'[k].at = "idle"
      BY <1>8, EndsDoes, IdleIs DEF RemoveAll, runtime, Local
    <3>3. ASSUME NEW c \in Containers \ raced', used[c] # None
          PROVE  /\ layout'[used[c]].present
                 /\ \A j \in CLIs :
                       cli'[j].layout = used[c] /\ HasPassed(j, c)' => c \in cli'[j].skipped
      <4>1. c \in Containers \ raced /\ used[c] \in Layouts \ gone /\ layout[used[c]].present
        BY <3>1, <3>3 DEF UsedInv, TypeOK
      <4>. QED
        BY <2>1, <3>2, <3>3, <4>1, PassesFrame
    <3>4. ASSUME NEW j \in CLIs, cli'[j].at = "config", cli'[j].c \notin raced'
          PROVE  layout'[cli'[j].layout].present
      <4>1. j # k /\ cli[j] = cli'[j] /\ cli[j].at = "config" /\ cli[j].c \notin raced
        BY <3>1, <3>2, <3>4 DEF Only
      <4>2. cli[j].cmd = "run" /\ cli[j].layout \in Layouts /\ cli[j].c \in Containers
        BY <4>1, WhoIsWhere DEF ShapeInv, Launches
      <4>3. cli[j].layout \notin gone
        BY <3>1, <3>4, <4>1, <4>2 DEF Launching, Busy
      <4>. QED
        BY <2>1, <4>1, <4>2, <4>3 DEF UsedInv
    <3>. QED
      BY <3>2, <3>3, <3>4 DEF UsedInv, Passes
  <2>. QED
    BY <1>8, <2>9, <2>1 DEF RemoveAll
<1>9. ASSUME NEW c \in Containers, ContainerEnds(c) \/ Rewrite(c) PROVE UsedInv'
  BY <1>9 DEF ContainerEnds, Rewrite, store, history, UsedInv, Passes, HasPassed
<1>10. ASSUME NEW c \in Containers, RemoveContainer(c) PROVE UsedInv'
  <2>1. /\ layout' = layout /\ cli' = cli /\ raced' = raced \ {c}
        /\ used' = [used EXCEPT ![c] = None] /\ \A j \in Busy : cli[j].c # c
    BY <1>10 DEF RemoveContainer, store
  <2>2. \A d \in Containers : used'[d] = IF d = c THEN None ELSE used[d]
    BY <2>1 DEF TypeOK
  <2>3. \A j \in CLIs : cli[j].at = "config" => cli[j].c # c
    BY <2>1 DEF Busy
  <2>. QED
    BY <2>1, <2>2, <2>3 DEF UsedInv, Passes, HasPassed
<1>. QED
  BY <1>2, <1>3, <1>4, <1>5, <1>6, <1>7, <1>8, <1>9, <1>10 DEF Next, Mine

-----------------------------------------------------------------------------
(* Mounts of RUN *)

\* The RUNs that have mounted the m-th pseudo-filesystem in l, and not unmounted it.
Holders(l, m) ==
    {k \in CLIs :
        /\ cli[k].layout = l
        /\ \/ cli[k].at = "mounting" /\ m < cli[k].i
           \/ cli[k].at = "running"
           \/ cli[k].at = "unmounting" /\ cli[k].i <= m}

(* Every mount has a RUN that will unmount it.                             *)
MountInv ==
    \A l \in Layouts \ pinned, m \in 1..NumMounts :
        layout[l].mounts[m] <= Cardinality(Holders(l, m))

LEMMA HoldersFinite ==
    ASSUME NEW l, NEW m
    PROVE  /\ IsFiniteSet(Holders(l, m)) /\ Cardinality(Holders(l, m)) \in Nat
           /\ IsFiniteSet(Holders(l, m)') /\ Cardinality(Holders(l, m)') \in Nat
<1>1. Holders(l, m) \subseteq CLIs /\ Holders(l, m)' \subseteq CLIs
  BY DEF Holders
<1>. QED
  BY <1>1, StoreConstants, FS_Subset, FS_CardinalityType

\* No RUN lets go of a mount, and mounts only go.
LEMMA MountFrame ==
    ASSUME TypeOK, MountInv, NEW l \in Layouts, l \notin pinned, NEW m \in 1..NumMounts,
           layout'[l].mounts[m] = layout[l].mounts[m] \/ layout'[l].mounts[m] = 0,
           Holders(l, m) \subseteq Holders(l, m)'
    PROVE  layout'[l].mounts[m] <= Cardinality(Holders(l, m)')
<1>1. Cardinality(Holders(l, m)) <= Cardinality(Holders(l, m)')
  BY HoldersFinite, FS_Subset
<1>2. layout[l].mounts[m] <= Cardinality(Holders(l, m))
  BY DEF MountInv
<1>3. layout[l].mounts[m] \in Nat
  BY StoreConstants DEF TypeOK, LayoutDirs
<1>. QED
  BY <1>1, <1>2, <1>3, HoldersFinite

\* Steps of commands that hold no mount.
LEMMA HoldersOfOthers ==
    ASSUME NEW k \in CLIs, Only(k), NEW l, NEW m,
           cli[k].at \notin Running \/ cli[k].layout # l
    PROVE  Holders(l, m) \subseteq Holders(l, m)'
<1>. QED
  BY DEF Only, Holders, Running

\* Every step keeps a RUN for each mount.
LEMMA MountStep ==
    ASSUME TypeOK, ShapeInv, NothingThere, MountInv, Next
    PROVE  MountInv'
<1>1. ASSUME NEW k \in CLIs, Mine(k), ~(MountOne(k) \/ UnmountOne(k) \/ Command(k) \/ BreaksOff(k))
      PROVE  MountInv'
  <2>1. cli[k].at \notin Running
    <3>1. CASE Issue(k)
      BY <3>1
      DEF Issue, IssuePull, IssueBuild, IssuePublish, IssueRm, IssueRun, RmImage, RmImageHalf,
          Running
    <3>2. CASE Download(k) \/ MakeImageDir(k) \/ FetchManifest(k) \/ CreateLayer(k) \/ PullBlob(k)
               \/ BuildStart(k) \/ From(k) \/ Unpack(k) \/ Copy(k) \/ Run(k) \/ Save(k)
      BY <3>2
      DEF Download, MakeImageDir, FetchManifest, CreateLayer, PullBlob, BuildStart, From,
          Unpack, Copy, Run, Save, Does, Running
    <3>3. CASE MakePublishedDir(k) \/ MoveArchive(k) \/ Describe(k) \/ Look(k) \/ RemoveLayout(k)
               \/ RemoveHalf(k) \/ RemoveAll(k) \/ MountOverlay(k) \/ SaveConfig(k)
      BY <3>3
      DEF MakePublishedDir, MoveArchive, Describe, Look, RemoveLayout, RemoveHalf, RemoveAll,
          MountOverlay, SaveConfig, Running
    <3>. QED
      BY <1>1, <3>1, <3>2, <3>3 DEF Mine, Step
  <2>2. pinned' = pinned
    <3>1. CASE Issue(k)
      BY <3>1
      DEF Issue, IssuePull, IssueBuild, IssuePublish, IssueRm, IssueRun, RmImage, RmImageHalf,
          Meets, history
    <3>2. CASE Download(k) \/ MakeImageDir(k) \/ FetchManifest(k) \/ CreateLayer(k) \/ PullBlob(k)
               \/ BuildStart(k) \/ From(k) \/ Unpack(k) \/ Copy(k) \/ Run(k) \/ Save(k)
      BY <3>2
      DEF Download, MakeImageDir, FetchManifest, CreateLayer, PullBlob, BuildStart, From,
          Unpack, Copy, Run, Save, history
    <3>3. CASE MakePublishedDir(k) \/ MoveArchive(k) \/ Describe(k) \/ Look(k) \/ RemoveLayout(k)
               \/ RemoveHalf(k) \/ RemoveAll(k) \/ MountOverlay(k) \/ SaveConfig(k)
      BY <3>3
      DEF MakePublishedDir, MoveArchive, Describe, Look, RemoveLayout, RemoveHalf, RemoveAll,
          MountOverlay, SaveConfig, history
    <3>. QED
      BY <1>1, <3>1, <3>2, <3>3 DEF Mine, Step
  <2>3. ASSUME NEW l \in Layouts, NEW m \in 1..NumMounts
        PROVE  layout'[l].mounts[m] = layout[l].mounts[m] \/ layout'[l].mounts[m] = 0
    <3>1. NoLayout.mounts[m] = 0
      BY DEF NoLayout
    <3>2. CASE RemoveLayout(k) \/ RemoveAll(k)
      BY <3>1, <3>2, RemovesLayouts DEF Removed
    <3>3. CASE ~(RemoveLayout(k) \/ RemoveAll(k))
      BY <1>1, <3>3, MostAreTame DEF LayoutsTame, Tame
    <3>. QED
      BY <3>2, <3>3
  <2>4. ASSUME NEW l \in Layouts, NEW m \in 1..NumMounts
        PROVE  Holders(l, m) \subseteq Holders(l, m)'
    BY <1>1, <2>1, MineDoes, HoldersOfOthers DEF Local
  <2>. QED
    BY <2>2, <2>3, <2>4, MountFrame DEF MountInv
<1>2. ASSUME NEW k \in CLIs, Pack(k) PROVE MountInv'
  <2>1. ASSUME NEW l \in Layouts, NEW m \in 1..NumMounts
        PROVE  Holders(l, m) \subseteq Holders(l, m)'
    <3>1. ASSUME NEW j \in CLIs \ {k}
          PROVE  cli'[j].at = cli[j].at /\ cli'[j].layout = cli[j].layout /\ cli'[j].i = cli[j].i
      BY <1>2, PackDoes, ZenonT(30)
    <3>2. cli[k].at = "pack"
      BY <1>2, PackDoes
    <3>. QED
      BY <3>1, <3>2 DEF Holders
  <2>2. \A l \in Layouts : layout'[l].mounts = layout[l].mounts
    BY <1>2, PackPacks DEF Packs
  <2>3. pinned' = pinned
    BY <1>2 DEF Pack
  <2>. QED
    BY <2>1, <2>2, <2>3, MountFrame DEF MountInv
<1>3. ASSUME NEW k \in CLIs, Command(k) PROVE MountInv'
  <2>1. ASSUME NEW l \in Layouts, NEW m \in 1..NumMounts
        PROVE  Holders(l, m) \subseteq Holders(l, m)'
    <3>1. /\ Only(k) /\ cli[k].at = "running" /\ cli'[k].at = "unmounting" /\ cli'[k].i = 1
          /\ cli'[k].layout = cli[k].layout
      BY <1>3, CommandDoes DEF Local
    <3>. QED
      BY <3>1 DEF Holders, Only
  <2>2. layout' = layout /\ pinned' = pinned
    BY <1>3 DEF Command, store, history
  <2>. QED
    BY <2>1, <2>2, MountFrame DEF MountInv
<1>4. ASSUME NEW k \in CLIs, BreaksOff(k) PROVE MountInv'
  <2>1. Only(k) /\ layout' = layout
    BY <1>4, EndsDoes DEF BreaksOff, store, Local
  <2>2. pinned' = IF cli[k].at \in Running THEN pinned \cup {cli[k].layout} ELSE pinned
    BY <1>4 DEF BreaksOff
  <2>3. ASSUME NEW l \in Layouts \ pinned', NEW m \in 1..NumMounts
        PROVE  l \notin pinned /\ Holders(l, m) \subseteq Holders(l, m)'
    <3>1. l \notin pinned /\ (cli[k].at \notin Running \/ cli[k].layout # l)
      BY <2>2, <2>3
    <3>. QED
      BY <2>1, <3>1, HoldersOfOthers
  <2>. QED
    BY <2>1, <2>3, MountFrame DEF MountInv
<1>5. ASSUME NEW k \in CLIs, MountOne(k) PROVE MountInv'
  <2>1. PICK d \in Layouts, i \in 1..NumMounts : d = cli[k].layout /\ i = cli[k].i
    BY <1>5, MountOneDoes DEF Builds
  <2>2. layout[d].mounts[i] \in Nat /\ Remounted(d, i, layout[d].mounts[i] + 1)
    BY <1>5, <2>1, MountOneMounts
  <2>3. /\ Only(k) /\ cli[k].at = "mounting" /\ cli'[k].i = i + 1 /\ cli'[k].layout = d
        /\ cli'[k].at = IF i = NumMounts THEN "running" ELSE "mounting"
    BY <1>5, <2>1, MountOneDoes DEF Local
  <2>4. pinned' = pinned
    BY <1>5 DEF MountOne, history
  <2>5. ASSUME NEW l \in Layouts, NEW m \in 1..NumMounts
        PROVE  Holders(l, m) \subseteq Holders(l, m)'
    BY <2>1, <2>3 DEF Holders, Only
  <2>6. ASSUME NEW l \in Layouts, l \notin pinned, NEW m \in 1..NumMounts, l # d \/ m # i
        PROVE  layout'[l].mounts[m] <= Cardinality(Holders(l, m)')
    BY <2>2, <2>5, <2>6, MountFrame DEF Remounted
  <2>7. ASSUME d \notin pinned
        PROVE  layout'[d].mounts[i] <= Cardinality(Holders(d, i)')
    <3>1. k \in Holders(d, i)' /\ k \notin Holders(d, i)
      BY <2>1, <2>3 DEF Holders
    <3>2. Holders(d, i) \cup {k} \subseteq Holders(d, i)'
      BY <2>5, <3>1
    <3>3. Cardinality(Holders(d, i) \cup {k}) = Cardinality(Holders(d, i)) + 1
      BY <3>1, HoldersFinite, FS_AddElement
    <3>4. Cardinality(Holders(d, i)) + 1 <= Cardinality(Holders(d, i)')
      BY <3>2, <3>3, HoldersFinite, FS_Subset
    <3>5. layout[d].mounts[i] <= Cardinality(Holders(d, i))
      BY <2>7 DEF MountInv
    <3>6. layout'[d].mounts[i] = layout[d].mounts[i] + 1
      BY <2>2 DEF Remounted
    <3>. QED
      BY <2>2, <3>4, <3>5, <3>6, HoldersFinite
  <2>. QED
    BY <2>4, <2>6, <2>7 DEF MountInv
<1>6. ASSUME NEW k \in CLIs, UnmountOne(k) PROVE MountInv'
  <2>1. PICK d \in Layouts, i \in 1..NumMounts : d = cli[k].layout /\ i = cli[k].i
    BY <1>6, UnmountOneDoes DEF Builds
  <2>2. layout[d].mounts[i] \in Nat \ {0} /\ Remounted(d, i, layout[d].mounts[i] - 1)
    BY <1>6, <2>1, UnmountOneMounts
  <2>3. /\ Only(k) /\ cli[k].at = "unmounting"
        /\ \/ /\ cli'[k].at = "unmounting" /\ cli'[k].i = i + 1 /\ cli'[k].layout = d
           \/ i = NumMounts
    BY <1>6, <2>1, UnmountOneDoes DEF Local
  <2>4. pinned' = pinned
    BY <1>6 DEF UnmountOne, Advances, Ends
  <2>5. ASSUME NEW l \in Layouts, NEW m \in 1..NumMounts, l # d \/ m # i
        PROVE  Holders(l, m) \subseteq Holders(l, m)'
    <3>1. \A j \in CLIs \ {k} : j \in Holders(l, m) => j \in Holders(l, m)'
      BY <2>3 DEF Holders, Only
    <3>2. k \in Holders(l, m) => k \in Holders(l, m)'
      <4>1. CASE l # d
        BY <2>1, <4>1 DEF Holders
      <4>2. CASE l = d /\ m # i
        BY <2>1, <2>3, <4>2 DEF Holders
      <4>. QED
        BY <2>5, <4>1, <4>2
    <3>. QED
      BY <3>1, <3>2 DEF Holders
  <2>6. ASSUME NEW l \in Layouts, l \notin pinned, NEW m \in 1..NumMounts, l # d \/ m # i
        PROVE  layout'[l].mounts[m] <= Cardinality(Holders(l, m)')
    BY <2>2, <2>5, <2>6, MountFrame DEF Remounted
  <2>7. ASSUME d \notin pinned
        PROVE  layout'[d].mounts[i] <= Cardinality(Holders(d, i)')
    <3>1. k \in Holders(d, i)
      BY <2>1, <2>3 DEF Holders
    <3>2. Holders(d, i) \ {k} \subseteq Holders(d, i)'
      BY <2>3 DEF Holders, Only
    <3>3. Cardinality(Holders(d, i) \ {k}) = Cardinality(Holders(d, i)) - 1
          /\ IsFiniteSet(Holders(d, i) \ {k})
      BY <3>1, HoldersFinite, FS_RemoveElement
    <3>4. Cardinality(Holders(d, i)) - 1 <= Cardinality(Holders(d, i)')
      BY <3>2, <3>3, HoldersFinite, FS_Subset
    <3>5. layout[d].mounts[i] <= Cardinality(Holders(d, i))
      BY <2>7 DEF MountInv
    <3>6. layout'[d].mounts[i] = layout[d].mounts[i] - 1
      BY <2>2 DEF Remounted
    <3>. QED
      BY <2>2, <3>4, <3>5, <3>6, HoldersFinite
  <2>. QED
    BY <2>4, <2>6, <2>7 DEF MountInv
<1>7. ASSUME NEW c \in Containers, ContainerEnds(c) \/ RemoveContainer(c) \/ Rewrite(c) PROVE MountInv'
  BY <1>7 DEF ContainerEnds, RemoveContainer, Rewrite, store, history, MountInv, Holders
<1>. QED
  BY <1>1, <1>2, <1>3, <1>4, <1>5, <1>6, <1>7 DEF Next, Mine

-----------------------------------------------------------------------------
(* Types *)

\* Every step keeps the types, variable by variable.
LEMMA ImagesTyped ==
    ASSUME TypeOK, ShapeInv, Next
    PROVE  image' \in [Images -> ImageDirs]
<1>1. NoImage \in ImageDirs /\ NoImage.layers \in [Numbers -> {Absent, Partial} \cup Origins]
  BY DEF NoImage, ImageDirs
<1>2. ASSUME NEW a \in Images, NEW e \in ImageDirs, image' = [image EXCEPT ![a] = e]
      PROVE  image' \in [Images -> ImageDirs]
  BY <1>2 DEF TypeOK
<1>3. CASE UNCHANGED image
  BY <1>3 DEF TypeOK
<1>4. ASSUME NEW k \in CLIs, NEW a \in Images, RmImage(k, a) \/ RmImageHalf(k, a)
      PROVE  image' \in [Images -> ImageDirs]
  <2>1. CASE RmImage(k, a)
    BY <1>1, <1>2, <2>1 DEF RmImage
  <2>2. CASE RmImageHalf(k, a)
    <3> DEFINE e == [image[a] EXCEPT !.layers = NoImage.layers]
    <3>1. e \in ImageDirs
      BY <1>1 DEF ImageDirs, TypeOK
    <3>2. image' = [image EXCEPT ![a] = e]
      BY <2>2 DEF RmImageHalf
    <3>. QED
      BY <1>2, <3>1, <3>2
  <2>. QED
    BY <1>4, <2>1, <2>2
<1>5. ASSUME NEW k \in CLIs, Step(k) PROVE image' \in [Images -> ImageDirs]
  <2> DEFINE a == cli[k].image
             r == image[a]
  <2>1. ASSUME NEW v \in Origins, a \in Images, image' = [image EXCEPT ![a].config = v]
        PROVE  image' \in [Images -> ImageDirs]
    <3> DEFINE e == [r EXCEPT !.config = v]
    <3>1. e \in ImageDirs
      BY <2>1 DEF ImageDirs, TypeOK
    <3>2. image' = [image EXCEPT ![a] = e]
      BY <2>1
    <3>. QED
      BY <1>2, <2>1, <3>1, <3>2
  <2>2. ASSUME NEW i \in Numbers, NEW f \in {Absent, Partial} \cup Origins, a \in Images,
               image' = [image EXCEPT ![a].layers[i] = f]
        PROVE  image' \in [Images -> ImageDirs]
    <3> DEFINE g == [r.layers EXCEPT ![i] = f]
               e == [r EXCEPT !.layers = g]
    <3>1. r \in ImageDirs /\ g \in [Numbers -> {Absent, Partial} \cup Origins]
      BY <2>2 DEF ImageDirs, TypeOK
    <3>2. image' = [image EXCEPT ![a] = e]
      BY <2>2 <3> HIDE DEF g
    <3>3. e \in ImageDirs
      BY <3>1 DEF ImageDirs
    <3>. QED
      BY <1>2, <2>2, <3>2, <3>3
  <2>3. CASE Download(k) \/ MoveArchive(k)
    <3>1. a \in Images
      BY <2>3, WhoIsWhere DEF Download, MoveArchive, Does, ShapeInv, Pulls, Builds, Publishes
    <3>2. CASE image' = [image EXCEPT ![a] = NoImage]
      BY <1>1, <1>2, <3>1, <3>2
    <3>3. CASE MoveArchive(k) /\ image' = [image EXCEPT ![a].layers[1] =
                                              layout[cli[k].layout].archive]
      <4>1. layout[cli[k].layout].archive \in {Absent, Partial} \cup Origins
        BY <3>3, WhoIsWhere DEF MoveArchive, ShapeInv, Publishes, TypeOK, LayoutDirs, Origins
      <4>2. 1 \in Numbers
        BY StoreConstants DEF Numbers
      <4>. QED
        BY <2>2, <3>1, <3>3, <4>1, <4>2
    <3>. QED
      BY <1>3, <2>3, <3>2, <3>3 DEF Download, MoveArchive
  <2>4. CASE MakeImageDir(k) \/ MakePublishedDir(k)
    <3> DEFINE e == [r EXCEPT !.present = TRUE]
    <3>1. a \in Images
      BY <2>4, WhoIsWhere
      DEF MakeImageDir, MakePublishedDir, ShapeInv, Pulls, Builds, Publishes, Fetching
    <3>2. e \in ImageDirs
      BY <3>1 DEF ImageDirs, TypeOK
    <3>3. image' = [image EXCEPT ![a] = e]
      BY <2>4 DEF MakeImageDir, MakePublishedDir
    <3>. QED
      BY <1>2, <3>1, <3>2, <3>3
  <2>5. CASE FetchManifest(k)
    <3>1. PICK v \in Versions : image' = [image EXCEPT ![a].config = v]
      BY <2>5 DEF FetchManifest
    <3>2. a \in Images
      BY <2>5, WhoIsWhere DEF FetchManifest, ShapeInv, Pulls, Builds, Fetching
    <3>. QED
      BY <2>1, <3>1, <3>2 DEF Origins
  <2>6. CASE Describe(k)
    <3>1. a \in Images
      BY <2>6, WhoIsWhere DEF Describe, ShapeInv, Publishes
    <3>. QED
      BY <2>1, <2>6, <3>1 DEF Describe, Origins
  <2>7. CASE CreateLayer(k) \/ PullBlob(k)
    <3> DEFINE i == cli[k].i
               v == cli[k].v
    <3>1. a \in Images /\ i \in Numbers /\ v \in Versions
      <4>1. cli[k].at \in {"layer", "blob"} /\ Shape(cli[k])
        BY <2>7 DEF CreateLayer, PullBlob, ShapeInv
      <4>2. a \in Images
        BY <4>1, WhoIsWhere DEF Pulls, Builds, Fetching
      <4>3. v \in Versions /\ i \in 1..NumLayers[v]
        BY <4>1 DEF Shape, Counts
      <4>4. i \in Numbers
        <5>1. NumLayers[v] \in 1..MaxLayers /\ MaxLayers \in Nat
          BY <4>3, StoreConstants
        <5>. QED
          BY <4>3, <5>1 DEF Numbers
      <4>. QED
        BY <4>2, <4>3, <4>4
    <3>2. CASE CreateLayer(k)
      BY <2>2, <3>1, <3>2 DEF CreateLayer
    <3>3. CASE PullBlob(k)
      <4> DEFINE f == IF r.layers[i] = Partial THEN v ELSE r.layers[i]
      <4>1. f \in {Absent, Partial} \cup Origins
        BY <3>1 DEF TypeOK, ImageDirs, Origins
      <4>2. image' = [image EXCEPT ![a].layers[i] = f]
        BY <3>3 DEF PullBlob
      <4> HIDE DEF f
      <4>. QED
        BY <2>2, <3>1, <4>1, <4>2
    <3>. QED
      BY <2>7, <3>2, <3>3
  <2>8. CASE \/ BuildStart(k) \/ From(k) \/ Unpack(k) \/ Copy(k) \/ Run(k) \/ MountOne(k)
             \/ Command(k) \/ UnmountOne(k) \/ Save(k) \/ Pack(k) \/ Look(k)
             \/ RemoveLayout(k) \/ RemoveHalf(k) \/ RemoveAll(k)
             \/ MountOverlay(k) \/ SaveConfig(k)
    BY <1>3, <2>8
    DEF BuildStart, From, Unpack, Copy, Run, MountOne, Command, UnmountOne, Save, Pack, Look,
        RemoveLayout, RemoveHalf, RemoveAll, MountOverlay, SaveConfig, store
  <2>. QED
    BY <1>5, <2>3, <2>4, <2>5, <2>6, <2>7, <2>8 DEF Step
<1>6. ASSUME NEW k \in CLIs, Issue(k), ~UNCHANGED image
      PROVE  \E a \in Images : RmImage(k, a) \/ RmImageHalf(k, a)
  BY <1>6 DEF Issue, IssuePull, IssueBuild, IssuePublish, IssueRm, IssueRun, store
<1>7. ASSUME NEW k \in CLIs, BreaksOff(k) PROVE UNCHANGED image
  BY <1>7 DEF BreaksOff, store
<1>8. ASSUME NEW c \in Containers, ContainerEnds(c) \/ RemoveContainer(c) \/ Rewrite(c) PROVE UNCHANGED image
  BY <1>8 DEF ContainerEnds, RemoveContainer, Rewrite, store
<1>. QED
  BY <1>3, <1>4, <1>5, <1>6, <1>7, <1>8 DEF Next

LEMMA UsesTyped ==
    ASSUME TypeOK, ShapeInv, Next
    PROVE  {used', overlay'} \subseteq [Containers -> Layouts \cup {None}]
           /\ unreadable' \subseteq Containers
<1>1. CASE UNCHANGED runtime
  BY <1>1 DEF runtime, TypeOK
<1>2. ASSUME NEW k \in CLIs, Issue(k) \/ BreaksOff(k) PROVE UNCHANGED runtime
  BY <1>2
  DEF Issue, IssuePull, IssueBuild, IssuePublish, IssueRm, IssueRun, RmImage, RmImageHalf,
      BreaksOff
<1>3. ASSUME NEW k \in CLIs, Step(k), ~(MountOverlay(k) \/ SaveConfig(k)) PROVE UNCHANGED runtime
  BY <1>3
  DEF Step, Download, MakeImageDir, FetchManifest, CreateLayer, PullBlob, BuildStart, From,
      Unpack, Copy, Run, MountOne, Command, UnmountOne, Save, Pack, MakePublishedDir,
      MoveArchive, Describe, Look, RemoveLayout, RemoveHalf, RemoveAll
<1>4. ASSUME NEW k \in CLIs, MountOverlay(k) \/ SaveConfig(k)
      PROVE  {used', overlay'} \subseteq [Containers -> Layouts \cup {None}]
             /\ unreadable' \subseteq Containers
  <2>1. cli[k].layout \in Layouts
    BY <1>4, WhoIsWhere DEF MountOverlay, SaveConfig, ShapeInv, Launches
  <2>. QED
    BY <1>4, <2>1 DEF MountOverlay, SaveConfig, TypeOK
<1>5. ASSUME NEW c \in Containers, ContainerEnds(c) \/ RemoveContainer(c) \/ Rewrite(c)
      PROVE  {used', overlay'} \subseteq [Containers -> Layouts \cup {None}]
             /\ unreadable' \subseteq Containers
  BY <1>5 DEF ContainerEnds, RemoveContainer, Rewrite, TypeOK
<1>. QED
  BY <1>1, <1>2, <1>3, <1>4, <1>5 DEF Next

LEMMA HistoryTyped ==
    ASSUME TypeOK, ShapeInv, Next
    PROVE  badImages' \subseteq Images /\ badLayouts' \cup pinned' \subseteq Layouts
           /\ raced' \subseteq Containers
<1>1. \A k \in CLIs : cli[k].layout \in Layouts \cup {None}
  BY DEF TypeOK, AtWork
<1>2. \A l : Launching(l) \subseteq Containers
  <2>1. ASSUME NEW j \in CLIs, cli[j].cmd = "run" PROVE cli[j].c \in Containers
    <3>1. Launches(cli[j])
      BY <2>1 DEF ShapeInv, Shape, Idle, None, Pulls, Builds, Publishes, Removes
    <3>. QED
      BY <3>1 DEF Launches
  <2>. QED
    BY <2>1 DEF Launching, Busy
<1>3. CASE UNCHANGED history
  BY <1>3 DEF history, TypeOK
<1>4. ASSUME NEW k \in CLIs, NEW a \in Images, NEW l \in Layouts \cup {None}, Meets(k, a, l)
      PROVE  badImages' \subseteq Images /\ badLayouts' \cup pinned' \subseteq Layouts
             /\ raced' \subseteq Containers
  <2>1. badImages' \subseteq Images /\ pinned' = pinned /\ raced' = raced
    BY <1>4 DEF Meets, TypeOK
  <2> DEFINE met == OnImage(k, a) \cup OnLayout(k, l)
  <2>2. met \subseteq CLIs
    BY DEF OnImage, OnLayout, Busy
  <2>3. badLayouts' = badLayouts \cup
            (IF met = {} THEN {} ELSE ({l} \cup {cli[j].layout : j \in met}) \ {None})
    BY <1>4 DEF Meets
  <2>4. badLayouts' \subseteq Layouts
    <3> HIDE DEF met
    <3>. QED
      BY <1>1, <2>2, <2>3 DEF TypeOK
  <2>. QED
    BY <2>1, <2>4 DEF TypeOK
<1>5. ASSUME NEW k \in CLIs, Issue(k)
      PROVE  badImages' \subseteq Images /\ badLayouts' \cup pinned' \subseteq Layouts
             /\ raced' \subseteq Containers
  <2>1. ASSUME NEW a \in Images, RmImageHalf(k, a)
        PROVE  badImages' \subseteq Images /\ badLayouts' \cup pinned' \subseteq Layouts
               /\ raced' \subseteq Containers
    BY <1>1, <2>1 DEF RmImageHalf, OnImage, Busy, TypeOK
  <2>2. ASSUME NEW l \in Layouts \cup {None}, IssueRm(k, l)
        PROVE  badImages' \subseteq Images /\ badLayouts' \cup pinned' \subseteq Layouts
               /\ raced' \subseteq Containers
    BY <2>2 DEF IssueRm, TypeOK
  <2>. QED
    BY <1>3, <1>4, <1>5, <2>1, <2>2
    DEF Issue, IssuePull, IssueBuild, IssuePublish, IssueRun, RmImage
<1>6. ASSUME NEW k \in CLIs, Step(k) \/ BreaksOff(k)
      PROVE  badImages' \subseteq Images /\ badLayouts' \cup pinned' \subseteq Layouts
             /\ raced' \subseteq Containers
  <2>1. CASE UNCHANGED history
    BY <1>3, <2>1
  <2>2. CASE \/ Download(k) \/ FetchManifest(k) \/ CreateLayer(k) \/ PullBlob(k)
             \/ Copy(k) \/ Run(k) \/ MountOne(k) \/ Command(k) \/ Save(k) \/ MoveArchive(k)
             \/ Describe(k) \/ Look(k) \/ MountOverlay(k)
    BY <2>1, <2>2
    DEF Download, FetchManifest, CreateLayer, PullBlob, Copy, Run, MountOne, Command,
        Save, MoveArchive, Describe, Look, MountOverlay
  <2>3. CASE MakeImageDir(k) \/ MakePublishedDir(k)
    <3>1. cli[k].image \in Images
      BY <2>3, WhoIsWhere
      DEF MakeImageDir, MakePublishedDir, ShapeInv, Pulls, Builds, Publishes, Fetching
    <3>. QED
      BY <2>3, <3>1 DEF MakeImageDir, MakePublishedDir, TypeOK
  <2>4. CASE BuildStart(k) \/ From(k) \/ Unpack(k) \/ UnmountOne(k)
    <3>1. cli[k].layout \in Layouts
      <4>1. CASE From(k)
        BY <4>1, BuildsAre DEF From, Does
      <4>2. CASE BuildStart(k) \/ Unpack(k) \/ UnmountOne(k)
        BY <4>2, WhoIsWhere DEF BuildStart, Unpack, UnmountOne, ShapeInv, Builds, Running
      <4>. QED
        BY <2>4, <4>1, <4>2
    <3>2. CASE BuildStart(k)
      BY <3>1, <3>2 DEF BuildStart, TypeOK
    <3>3. CASE From(k)
      BY <3>1, <3>3 DEF From, TypeOK
    <3>4. CASE UnmountOne(k)
      BY <3>1, <3>4 DEF UnmountOne, TypeOK
    <3>5. CASE Unpack(k)
      <4>1. PICK l \in Layouts : l = cli[k].layout
        BY <3>1
      <4>2. badLayouts' \in {badLayouts, badLayouts \cup {l}}
        BY <3>5, <4>1 DEF Unpack
      <4>3. badImages' = badImages /\ pinned' = pinned /\ raced' = raced
        BY <3>5 DEF Unpack
      <4>. QED
        BY <4>2, <4>3 DEF TypeOK
    <3>. QED
      BY <2>4, <3>2, <3>3, <3>4, <3>5
  <2>5. CASE Pack(k)
    <3>1. ASSUME NEW j \in Publishing(k, cli[k].layout) PROVE cli[j].image \in Images
      <4>1. j \in CLIs /\ cli[j].cmd = "publish"
        BY DEF Publishing, Busy
      <4>2. Publishes(cli[j])
        BY <4>1 DEF ShapeInv, Shape, Idle, None, Pulls, Builds, Removes, Launches
      <4>. QED
        BY <4>2 DEF Publishes
    <3>2. badImages' = badImages \cup {cli[j].image : j \in Publishing(k, cli[k].layout)}
      BY <2>5 DEF Pack
    <3>3. badImages' \subseteq Images
      BY <3>1, <3>2 DEF TypeOK
    <3>4. badLayouts' = badLayouts /\ pinned' = pinned /\ raced' = raced
      BY <2>5 DEF Pack
    <3>. QED
      BY <3>3, <3>4 DEF TypeOK
  <2>6. CASE RemoveHalf(k)
    BY <2>6 DEF RemoveHalf, Present, TypeOK
  <2>7. CASE RemoveLayout(k)
    <3>1. cli[k].skipped \subseteq Containers
      BY DEF TypeOK, AtWork
    <3>. QED
      BY <1>2, <2>7, <3>1 DEF RemoveLayout, TypeOK
  <2>8. CASE RemoveAll(k)
    <3>1. raced' \subseteq Containers
      BY <2>8 DEF RemoveAll, TypeOK
    <3>. QED
      BY <2>8, <3>1 DEF RemoveAll, TypeOK
  <2>9. CASE SaveConfig(k)
    <3>1. cli[k].c \in Containers
      BY <2>9, WhoIsWhere DEF SaveConfig, ShapeInv, Launches
    <3>. QED
      BY <2>9, <3>1 DEF SaveConfig, TypeOK
  <2>10. CASE BreaksOff(k)
    <3>1. cli[k].at \in Filling => cli[k].image \in Images
      BY WhoIsWhere DEF ShapeInv, Publishes, Pulls, Builds, Filling, Fetching
    <3>2. cli[k].cmd = "build" \/ cli[k].at \in Running => cli[k].layout \in Layouts
      <4>1. cli[k].at \in Running => Builds(cli[k])
        BY WhoIsWhere DEF ShapeInv
      <4>2. cli[k].cmd = "build" => Builds(cli[k])
        BY DEF ShapeInv, Shape, Idle, None, Pulls, Publishes, Removes, Launches
      <4>. QED
        BY <4>1, <4>2 DEF Builds
    <3>. QED
      BY <2>10, <3>1, <3>2 DEF BreaksOff, TypeOK
  <2>. QED
    BY <1>6, <2>2, <2>3, <2>4, <2>5, <2>6, <2>7, <2>8, <2>9, <2>10 DEF Step
<1>7. ASSUME NEW c \in Containers, ContainerEnds(c) \/ RemoveContainer(c) \/ Rewrite(c)
      PROVE  badImages' \subseteq Images /\ badLayouts' \cup pinned' \subseteq Layouts
             /\ raced' \subseteq Containers
  BY <1>7 DEF ContainerEnds, RemoveContainer, Rewrite, history, TypeOK
<1>. QED
  BY <1>5, <1>6, <1>7 DEF Next

LEMMA TypeStep ==
    ASSUME TypeOK, ShapeInv, NothingThere, Next
    PROVE  TypeOK' /\ ShapeInv'
<1>1. cli' \in [CLIs -> AtWork] /\ ShapeInv'
  <2>1. ASSUME NEW c \in Containers, ContainerEnds(c) \/ RemoveContainer(c) \/ Rewrite(c) PROVE cli' = cli
    BY <2>1 DEF ContainerEnds, RemoveContainer, Rewrite
  <2>2. cli' = cli => cli' \in [CLIs -> AtWork] /\ ShapeInv'
    BY DEF TypeOK, ShapeInv
  <2>3. ASSUME NEW k \in CLIs, Issue(k) \/ Step(k) \/ BreaksOff(k)
        PROVE  cli' \in [CLIs -> AtWork] /\ ShapeInv'
    BY <2>3, PackDoes, MineDoes DEF Mine, Local
  <2>. QED
    BY <2>1, <2>2, <2>3 DEF Next
<1>2. role' \in Roles
  BY DEF TypeOK, Next
<1>. QED
  BY <1>1, <1>2, ImagesTyped, UsesTyped, HistoryTyped, NothingThereStep DEF TypeOK

-----------------------------------------------------------------------------
(* Root filesystems *)

Elements == (Origins \X Numbers) \cup {Copied}

(* r is what the first n instructions make.                                *)
Stages(part, n) ==
    /\ part \in [0..n -> Seq(Elements)]
    /\ part[0] = <<>>
    /\ \A s \in 1..n : \E v \in Origins : part[s] = part[s - 1] \o Adds(Script[s], v)

Made(r, n) == \E part : Stages(part, n) /\ part[n] = r

LEMMA AppendOne ==
    ASSUME NEW S, NEW s \in Seq(S), NEW e \in S
    PROVE  Append(s, e) = s \o <<e>>
<1> DEFINE x == Append(s, e)
           y == s \o <<e>>
<1>1. <<e>> \in Seq(S) /\ Len(<<e>>) = 1 /\ Len(s) \in Nat
  OBVIOUS
<1>2. x \in Seq(S) /\ y \in Seq(S) /\ Len(x) = Len(s) + 1 /\ Len(y) = Len(s) + 1
  BY <1>1
<1>3. ASSUME NEW i \in 1..(Len(s) + 1) PROVE x[i] = y[i]
  <2>1. CASE i <= Len(s)
    BY <1>1, <2>1
  <2>2. CASE i = Len(s) + 1
    <3>1. y[i] = <<e>>[i - Len(s)] /\ i - Len(s) = 1
      BY <1>1, <2>2
    <3>2. x[i] = e
      BY <1>1, <2>2
    <3>. QED
      BY <3>1, <3>2
  <2>. QED
    BY <1>1, <2>1, <2>2
<1> HIDE DEF x, y
<1>4. x = y
  BY <1>2, <1>3
<1>. QED
  BY <1>4 DEF x, y

LEMMA SizeOfImage == \A v \in Origins : Size(v) \in Numbers /\ Size(v) \in Nat \ {0}
<1>1. 1 \in Numbers /\ \A n \in Numbers : n \in Nat \ {0}
  BY StoreConstants DEF Numbers
<1>2. \A v \in Versions : NumLayers[v] \in Numbers
  BY StoreConstants DEF Numbers
<1>. QED
  BY <1>1, <1>2 DEF Origins, Size

\* What one instruction adds, and what the first n make.
LEMMA AddsSome ==
    ASSUME NEW v \in Origins, NEW step
    PROVE  Adds(step, v) \in Seq(Elements)
<1>1. Size(v) \in Nat /\ \A i \in 1..Size(v) : i \in Numbers
  BY SizeOfImage, StoreConstants DEF Numbers
<1>2. CASE step = "from"
  <2>1. \A i \in 1..Size(v) : Layer(v, i) \in Elements
    BY <1>1 DEF Layer, Elements
  <2>2. [i \in 1..Size(v) |-> Layer(v, i)] \in Seq(Elements)
    BY <1>1, <2>1
  <2>. QED
    BY <1>2, <2>2 DEF Adds
<1>3. CASE step # "from"
  <2>1. Copied \in Elements
    BY DEF Elements
  <2>2. <<Copied>> \in Seq(Elements) /\ <<>> \in Seq(Elements)
    BY <2>1
  <2>. QED
    BY <1>3, <2>2 DEF Adds
<1>. QED
  BY <1>2, <1>3

LEMMA MadeIsSeq ==
    ASSUME NEW n \in Nat, NEW r, Made(r, n)
    PROVE  r \in Seq(Elements)
<1>. QED
  BY DEF Made, Stages

LEMMA MadeNothing == Made(<<>>, 0)
<1> DEFINE part == [s \in 0..0 |-> <<>>]
<1>1. part \in [0..0 -> Seq(Elements)] /\ part[0] = <<>>
  OBVIOUS
<1>2. Stages(part, 0)
  BY <1>1 DEF Stages
<1>. QED
  BY <1>1, <1>2 DEF Made

LEMMA MadeMore ==
    ASSUME NEW n \in Nat, NEW r, Made(r, n), NEW v \in Origins
    PROVE  Made(r \o Adds(Script[n + 1], v), n + 1)
<1>1. PICK part : Stages(part, n) /\ part[n] = r
  BY DEF Made
<1> DEFINE q == r \o Adds(Script[n + 1], v)
           all == [s \in 0..(n + 1) |-> IF s = n + 1 THEN q ELSE part[s]]
<1>2. q \in Seq(Elements)
  BY MadeIsSeq, AddsSome
<1>3. all \in [0..(n + 1) -> Seq(Elements)]
  BY <1>1, <1>2 DEF Stages
<1>4. all[0] = <<>> /\ all[n + 1] = q /\ all[n] = r
  BY <1>1 DEF Stages
<1>5. ASSUME NEW s \in 1..(n + 1)
      PROVE  \E w \in Origins : all[s] = all[s - 1] \o Adds(Script[s], w)
  <2>1. CASE s = n + 1
    <3>1. s - 1 = n
      BY <2>1 <3> HIDE DEF all
    <3>. QED
      BY <1>4, <2>1, <3>1
  <2>2. CASE s # n + 1
    <3>1. s \in 1..n /\ all[s] = part[s] /\ all[s - 1] = part[s - 1]
      BY <2>2
    <3>. QED
      BY <1>1, <3>1 DEF Stages
  <2>. QED
    BY <2>1, <2>2
<1>6. Stages(all, n + 1)
  BY <1>3, <1>4, <1>5 DEF Stages
<1>. QED
  BY <1>4, <1>6 DEF Made

\* An instruction that is neither FROM nor COPY.
LEMMA MadeNoMore ==
    ASSUME NEW n \in Nat, NEW r, Made(r, n), Script[n + 1] \notin {"from", "copy"}
    PROVE  Made(r, n + 1)
<1>1. Packed \in Origins
  BY DEF Origins
<1>2. Adds(Script[n + 1], Packed) = <<>>
  BY DEF Adds
<1>3. r \o <<>> = r
  BY MadeIsSeq
<1>. QED
  BY <1>1, <1>2, <1>3, MadeMore

\* Induction over the natural numbers: a set of them has a least one.
LEMMA NatOrder ==
    \E R : IsWellFoundedOn(R, Nat) /\ \A x, y \in Nat : x < y => <<x, y>> \in R
<1>1. \A x, y \in Nat : x < y => <<x, y>> \in OpToRel(<, Nat)
  BY Zenon DEF OpToRel
<1>. QED
  BY <1>1, NatLessThanWellFounded, Zenon

\* A set of natural numbers has a least element, which carries the inductions.
LEMMA LeastNat ==
    ASSUME NEW T, T \subseteq Nat, T # {}
    PROVE  \E x \in T : \A y \in T : x <= y
<1>1. PICK R : IsWellFoundedOn(R, Nat) /\ \A x, y \in Nat : x < y => <<x, y>> \in R
  BY NatOrder
<1>2. PICK x \in T : \A y \in T : ~(<<y, x>> \in R)
  <2>1. ASSUME NEW Q, NEW S, IsWellFoundedOn(Q, S), NEW U, U \subseteq S, U # {}
        PROVE  \E x \in U : \A y \in U : ~ (<<y, x>> \in Q)
    BY <2>1, WFMin, Zenon
  <2>2. \A Q, S, U : IsWellFoundedOn(Q, S) /\ U \subseteq S /\ U # {}
                        => \E x \in U : \A y \in U : ~ (<<y, x>> \in Q)
    BY <2>1
  <2>3. IsWellFoundedOn(R, Nat) /\ T \subseteq Nat /\ T # {}
    BY <1>1
  <2>. QED
    BY <2>2, <2>3
<1>3. \A y \in T : y \in Nat /\ x \in Nat /\ ~(y < x)
  BY <1>1, <1>2
<1>. QED
  BY <1>3

\* What FlattenSeq computes, given what its stages are.
LEMMA FlattenStages ==
    ASSUME NEW S, NEW n \in Nat \ {0}, NEW seqs \in [1..n -> Seq(S)],
           NEW part \in [0..n -> Seq(S)], part[0] = <<>>,
           \A s \in 1..n : part[s] = part[s - 1] \o seqs[s]
    PROVE  FlattenSeq(seqs) = part[n]
<1> DEFINE Rec(f) == f = [i \in 1..n |-> IF i = 1 THEN seqs[i] ELSE f[i - 1] \o seqs[i]]
           flatten == CHOOSE f : Rec(f)
<1>1. Len(seqs) = n
  OBVIOUS
<1>2. FlattenSeq(seqs) = flatten[n]
  BY <1>1 DEF FlattenSeq
<1>3. part[1] = seqs[1]
  <2>1. 1 \in 1..n /\ 1 - 1 = 0
    OBVIOUS
  <2>2. seqs[1] \in Seq(S) /\ part[1] = part[0] \o seqs[1]
    BY <2>1
  <2>. QED
    BY <2>2
<1>4. Rec([i \in 1..n |-> part[i]])
  <2> DEFINE f == [i \in 1..n |-> part[i]]
  <2>1. ASSUME NEW i \in 1..n, i # 1 PROVE part[i] = f[i - 1] \o seqs[i]
    <3>1. i - 1 \in 1..n /\ f[i - 1] = part[i - 1]
      BY <2>1
    <3>. QED
      BY <3>1
  <2>2. \A i \in 1..n : part[i] = IF i = 1 THEN seqs[i] ELSE f[i - 1] \o seqs[i]
    BY <1>3, <2>1
  <2>. QED
    BY <2>2
<1>5. Rec(flatten)
  BY <1>4
<1> HIDE DEF flatten
<1>6. \A i \in 1..n : flatten[i] = IF i = 1 THEN seqs[i] ELSE flatten[i - 1] \o seqs[i]
  BY <1>5
<1>7. \A i \in 1..n : flatten[i] = part[i]
  <2> DEFINE T == {i \in 1..n : flatten[i] # part[i]}
  <2>1. T \subseteq Nat
    OBVIOUS
  <2>2. ASSUME NEW x \in T, \A y \in T : x <= y
        PROVE  FALSE
    <3>1. x \in 1..n /\ flatten[x] # part[x]
      OBVIOUS
    <3>2. CASE x = 1
      BY <1>3, <1>6, <3>1, <3>2
    <3>3. CASE x # 1
      <4>1. x - 1 \in 1..n /\ x - 1 \notin T
        BY <2>2, <3>1, <3>3
      <4>2. flatten[x - 1] = part[x - 1]
        BY <4>1
      <4>. QED
        BY <1>6, <3>1, <3>3, <4>2
    <3>. QED
      BY <3>2, <3>3
  <2>3. T = {}
    <3> HIDE DEF T
    <3>. QED
      BY <2>1, <2>2, LeastNat
  <2>. QED
    BY <2>3
<1>8. flatten[n] = part[n]
  <2>1. n \in 1..n
    OBVIOUS
  <2>. QED
    BY <1>7, <2>1
<1>. QED
  BY <1>2, <1>8

\* What all instructions make is what LayoutIsWhole asks for.
LEMMA MadeContent ==
    ASSUME NEW r, Made(r, Len(Script))
    PROVE  \E versions \in [Froms -> Origins] : r = Content(versions)
<1> DEFINE n == Len(Script)
<1>1. n \in Nat /\ DOMAIN Script = 1..n
  BY StoreConstants
<1>2. PICK part : Stages(part, n) /\ part[n] = r
  BY DEF Made
<1> DEFINE Version(s) == CHOOSE v \in Origins : part[s] = part[s - 1] \o Adds(Script[s], v)
           versions == [s \in Froms |-> Version(s)]
           seqs == [s \in 1..n |-> Adds(Script[s], versions[s])]
<1>3. \A s \in 1..n : Version(s) \in Origins /\ part[s] = part[s - 1] \o Adds(Script[s], Version(s))
  BY <1>2 DEF Stages
<1>4. versions \in [Froms -> Origins]
  BY <1>1, <1>3 DEF Froms
<1>5. \A s \in 1..n : seqs[s] = Adds(Script[s], Version(s))
  <2>1. ASSUME NEW s \in 1..n, Script[s] = "from" PROVE versions[s] = Version(s)
    BY <1>1, <2>1 DEF Froms
  <2>2. \A step, v, w : step # "from" => Adds(step, v) = Adds(step, w)
    BY DEF Adds
  <2>3. \A s \in 1..n : seqs[s] = Adds(Script[s], versions[s])
    OBVIOUS
  <2> HIDE DEF versions, seqs, Version
  <2>. QED
    BY <2>1, <2>2, <2>3
<1>6. seqs \in [1..n -> Seq(Elements)]
  <2> HIDE DEF Version
  <2>1. \A s \in 1..n : Adds(Script[s], Version(s)) \in Seq(Elements)
    BY <1>3, AddsSome
  <2>2. seqs = [s \in 1..n |-> Adds(Script[s], Version(s))]
    BY <1>5
  <2>. QED
    BY <2>1, <2>2
<1>7. Content(versions) = FlattenSeq(seqs)
  BY <1>1 DEF Content
<1>8. part[n] = FlattenSeq(seqs)
  <2> HIDE DEF versions, Version, seqs
  <2>1. CASE n = 0
    <3>1. seqs = <<>>
      BY <1>6, <2>1
    <3>. QED
      BY <1>2, <2>1, <3>1 DEF FlattenSeq, Stages
  <2>2. CASE n # 0
    <3>1. \A s \in 1..n : part[s] = part[s - 1] \o seqs[s]
      BY <1>3, <1>5
    <3>. QED
      BY <1>1, <1>2, <1>6, <2>2, <3>1, FlattenStages DEF Stages
  <2>. QED
    BY <2>1, <2>2
<1>. QED
  BY <1>2, <1>4, <1>7, <1>8

-----------------------------------------------------------------------------
(* The course of a build *)

Instruction(s) == IF s <= Len(Script) THEN Script[s] ELSE "save"

Done(d) == Len(Script) + 1 - Len(d.todo)

(* What build d has before it are the instructions from the next one on.   *)
Todo(d) ==
    /\ Len(d.todo) \in 1..(Len(Script) + 1)
    /\ \A s \in 1..Len(d.todo) : d.todo[s] = Instruction(Done(d) + s)
    /\ d.at = "start" => Done(d) = 0
    /\ d.at \in Fetching => Head(d.todo) \in {"download", "override"}
    /\ d.at \in Running => Head(d.todo) = "run"
    /\ d.at = "unpack" => Head(d.todo) = "from"

TodoInv == \A k \in CLIs : cli[k].cmd = "build" => Todo(cli[k])

\* What stays the same when command k steps within an instruction.
Kept(k) ==
    /\ cli'[k].cmd = cli[k].cmd /\ cli'[k].image = cli[k].image
    /\ cli'[k].layout = cli[k].layout /\ cli'[k].todo = cli[k].todo

\* Where a step within an instruction leads.
Within(k) ==
    /\ cli'[k].at # "start"
    /\ cli'[k].at = "next" => cli[k].at = "start"
    /\ cli'[k].at \in Fetching => cli[k].at \in Fetching \/ Does(k, {"download", "override"})
    /\ cli'[k].at \in Running => cli[k].at \in Running \/ Does(k, {"run"})
    /\ cli'[k].at = "unpack" => cli[k].at = "unpack" \/ Does(k, {"from"})

\* Command k has carried out an instruction.
Completes(k) ==
    /\ Advances(k)
    /\ \/ cli[k].at \in {"blob", "unpack", "unmounting"}
       \/ Does(k, {"download", "override", "copy"})

LEMMA GoesKeeps ==
    ASSUME TypeOK, NEW k \in CLIs, NEW where, Goes(k, where)
    PROVE  Kept(k) /\ cli'[k].at = where
<1>. QED
  BY DEF Goes, Kept, TypeOK, AtWork

\* A step ends the command, comes to the next instruction, or stays in this one.
LEMMA Courses ==
    ASSUME TypeOK, ShapeInv, NEW k \in CLIs, Step(k) \/ BreaksOff(k)
    PROVE  \/ cli'[k] = Idle
           \/ Completes(k)
           \/ Kept(k) /\ Within(k)
<1>1. CASE Download(k)
  BY <1>1, GoesKeeps DEF Download, Does, Completes, Within, Fetching, Running
<1>2. CASE MakeImageDir(k) \/ CreateLayer(k) \/ BuildStart(k)
  BY <1>2, GoesKeeps DEF MakeImageDir, CreateLayer, BuildStart, Within, Fetching, Running
<1>3. CASE FetchManifest(k)
  <2>1. PICK v \in Versions : cli' = [cli EXCEPT ![k].at = "layer", ![k].v = v, ![k].i = 1]
    BY <1>3 DEF FetchManifest
  <2>2. Kept(k) /\ cli'[k].at = "layer" /\ cli[k].at = "manifest"
    BY <1>3, <2>1 DEF FetchManifest, Kept, TypeOK, AtWork
  <2>. QED
    BY <2>2 DEF Within, Fetching, Running
<1>4. CASE PullBlob(k)
  <2>1. CASE Advances(k)
    BY <1>4, <2>1 DEF PullBlob, Completes
  <2>2. CASE cli' = [cli EXCEPT ![k].at = "layer", ![k].i = cli[k].i + 1]
    <3>1. Kept(k) /\ cli'[k].at = "layer" /\ cli[k].at = "blob"
      BY <1>4, <2>2 DEF PullBlob, Kept, TypeOK, AtWork
    <3>. QED
      BY <3>1 DEF Within, Fetching, Running
  <2>. QED
    BY <1>4, <2>1, <2>2 DEF PullBlob
<1>5. CASE From(k)
  <2>1. cli' = [cli EXCEPT ![k].at = "unpack", ![k].files = Files(cli[k].image)]
    BY <1>5 DEF From
  <2>2. Kept(k) /\ cli'[k].at = "unpack"
    BY <2>1 DEF Kept, TypeOK, AtWork
  <2>. QED
    BY <1>5, <2>2 DEF From, Within, Fetching, Running
<1>6. CASE Unpack(k)
  <2>1. PICK i \in Numbers :
            IF cli[k].files = {i} THEN Advances(k)
            ELSE cli' = [cli EXCEPT ![k].files = @ \ {i}]
    BY <1>6 DEF Unpack
  <2>2. cli[k].at = "unpack"
    BY <1>6 DEF Unpack
  <2>3. CASE cli' = [cli EXCEPT ![k].files = @ \ {i}]
    <3>1. Kept(k) /\ cli'[k].at = "unpack"
      BY <2>2, <2>3 DEF Kept, TypeOK, AtWork
    <3>. QED
      BY <2>2, <3>1 DEF Within, Fetching, Running
  <2>. QED
    BY <2>1, <2>2, <2>3 DEF Completes
<1>7. CASE Copy(k)
  BY <1>7 DEF Copy, Does, Completes
<1>8. CASE Run(k)
  <2>1. cli' = [cli EXCEPT ![k].at = "mounting", ![k].i = 1]
    BY <1>8 DEF Run
  <2>2. Kept(k) /\ cli'[k].at = "mounting"
    BY <2>1 DEF Kept, TypeOK, AtWork
  <2>. QED
    BY <1>8, <2>2 DEF Run, Within, Fetching, Running
<1>9. CASE MountOne(k)
  <2> DEFINE where == IF cli[k].i = NumMounts THEN "running" ELSE "mounting"
  <2>1. cli[k].at = "mounting" /\ cli' = [cli EXCEPT ![k].at = where, ![k].i = cli[k].i + 1]
    BY <1>9 DEF MountOne
  <2>2. Kept(k) /\ cli'[k].at = where
    BY <2>1 DEF Kept, TypeOK, AtWork
  <2>. QED
    BY <2>1, <2>2 DEF Within, Fetching, Running
<1>10. CASE Command(k)
  <2>1. PICK success \in BOOLEAN :
            cli' = [cli EXCEPT ![k].at = "unmounting", ![k].i = 1, ![k].ok = success]
    BY <1>10 DEF Command
  <2>2. Kept(k) /\ cli'[k].at = "unmounting" /\ cli[k].at = "running"
    BY <1>10, <2>1 DEF Command, Kept, TypeOK, AtWork
  <2>. QED
    BY <2>2 DEF Within, Fetching, Running
<1>11. CASE UnmountOne(k)
  <2>1. cli[k].at = "unmounting"
    BY <1>11 DEF UnmountOne
  <2>2. CASE cli' = [cli EXCEPT ![k].i = cli[k].i + 1]
    <3>1. Kept(k) /\ cli'[k].at = "unmounting"
      BY <2>1, <2>2 DEF Kept, TypeOK, AtWork
    <3>. QED
      BY <2>1, <3>1 DEF Within, Fetching, Running
  <2>3. CASE Advances(k)
    BY <2>1, <2>3 DEF Completes
  <2>4. CASE Ends(k)
    BY <2>4, EndsDoes
  <2>. QED
    BY <1>11, <2>2, <2>3, <2>4 DEF UnmountOne
<1>12. CASE Pack(k)
  BY <1>12, PackDoes DEF Kept, Within, Fetching, Running
<1>13. CASE MakePublishedDir(k) \/ MoveArchive(k) \/ MountOverlay(k)
  BY <1>13, GoesKeeps, EndsDoes
  DEF MakePublishedDir, MoveArchive, MountOverlay, Within, Fetching, Running
<1>14. CASE Look(k)
  <2>1. cli[k].at = "look"
    BY <1>14 DEF Look
  <2>2. CASE Ends(k) \/ Goes(k, "removing")
    BY <2>2, GoesKeeps, EndsDoes DEF Within, Fetching, Running
  <2>3. ASSUME NEW c \in Containers, LookAt(k, c), ~Ends(k)
        PROVE  Kept(k) /\ Within(k)
    <3>1. \/ cli' = [cli EXCEPT ![k].seen = @ \cup {c}, ![k].skipped = @ \cup {c}]
          \/ cli' = [cli EXCEPT ![k].seen = @ \cup {c}, ![k].keep = @ \cup {used[c]}]
      BY <2>3 DEF LookAt
    <3>2. CASE cli' = [cli EXCEPT ![k].seen = @ \cup {c}, ![k].skipped = @ \cup {c}]
      <4>1. Kept(k) /\ cli'[k].at = cli[k].at
        BY <3>2 DEF Kept, TypeOK, AtWork
      <4>. QED
        BY <2>1, <4>1 DEF Within, Fetching, Running
    <3>3. CASE cli' = [cli EXCEPT ![k].seen = @ \cup {c}, ![k].keep = @ \cup {used[c]}]
      <4>1. Kept(k) /\ cli'[k].at = cli[k].at
        BY <3>3 DEF Kept, TypeOK, AtWork
      <4>. QED
        BY <2>1, <4>1 DEF Within, Fetching, Running
    <3>. QED
      BY <3>1, <3>2, <3>3
  <2>. QED
    BY <1>14, <2>2, <2>3 DEF Look
<1>15. CASE Save(k) \/ Describe(k) \/ RemoveLayout(k) \/ RemoveHalf(k) \/ RemoveAll(k)
            \/ SaveConfig(k) \/ BreaksOff(k)
  BY <1>15, EndsDoes
  DEF Save, Describe, RemoveLayout, RemoveHalf, RemoveAll, SaveConfig, BreaksOff
<1>. QED
  BY <1>1, <1>2, <1>3, <1>4, <1>5, <1>6, <1>7, <1>8, <1>9, <1>10, <1>11, <1>12, <1>13, <1>14,
     <1>15
  DEF Step

\* The instruction a build is at, and the next.
LEMMA TodoHead ==
    ASSUME NEW d \in AtWork, Todo(d)
    PROVE  /\ Done(d) \in 0..Len(Script) /\ Head(d.todo) = Instruction(Done(d) + 1)
           /\ Len(d.todo) \in Nat \ {0} /\ Len(Script) \in Nat
           /\ Head(d.todo) # "save" => /\ Done(d) + 1 \in 1..Len(Script)
                                       /\ Script[Done(d) + 1] = Head(d.todo)
           /\ Head(d.todo) = "save" => Done(d) = Len(Script)
<1>1. Len(Script) \in Nat /\ \A s \in 1..Len(Script) : Script[s] # "save"
  BY StoreConstants DEF Instructions
<1>2. d.todo \in Seq(Instructions \cup {"save"}) /\ Len(d.todo) \in 1..(Len(Script) + 1)
  BY DEF AtWork, Todo
<1>3. Done(d) \in 0..Len(Script)
  BY <1>1, <1>2 DEF Done
<1>4. Head(d.todo) = d.todo[1] /\ 1 \in 1..Len(d.todo)
  BY <1>2
<1>5. d.todo[1] = Instruction(Done(d) + 1)
  BY <1>4 DEF Todo
<1>. QED
  BY <1>1, <1>2, <1>3, <1>4, <1>5 DEF Instruction

LEMMA TodoAdvanced ==
    ASSUME NEW d \in AtWork, Todo(d), Head(d.todo) # "save"
    PROVE  LET e == Advanced(d)
           IN  /\ e.at = "next" /\ e.cmd = d.cmd /\ e.image = d.image /\ e.layout = d.layout
               /\ e.todo = Tail(d.todo) /\ Done(e) = Done(d) + 1 /\ Todo(e)
<1> DEFINE e == [d EXCEPT !.at = "next", !.todo = Tail(d.todo), !.i = 0, !.v = None]
<1>1. d.todo \in Seq(Instructions \cup {"save"}) /\ Len(d.todo) \in 1..(Len(Script) + 1)
  BY DEF AtWork, Todo
<1>9. Len(Script) \in Nat /\ Len(d.todo) \in Nat
  BY <1>1, StoreConstants
<1>2. Done(d) + Len(d.todo) = Len(Script) + 1 /\ Len(d.todo) # 1
  <2>1. Head(d.todo) = Instruction(Done(d) + 1)
    BY TodoHead
  <2>2. ASSUME Len(d.todo) = 1 PROVE FALSE
    <3>1. Done(d) = Len(Script)
      BY <1>9, <2>2 DEF Done
    <3>2. Instruction(Done(d) + 1) = "save"
      BY <1>9, <3>1 DEF Instruction
    <3>. QED
      BY <2>1, <3>2
  <2>. QED
    BY <1>9, <2>2 DEF Done
<1>3. Advanced(d) = e
  BY <1>2 DEF Advanced
<1>4. /\ e.at = "next" /\ e.cmd = d.cmd /\ e.image = d.image /\ e.layout = d.layout
      /\ e.todo = Tail(d.todo)
  BY DEF AtWork
<1>5. /\ Len(e.todo) = Len(d.todo) - 1 /\ Len(e.todo) \in 1..(Len(Script) + 1)
      /\ \A s \in 1..Len(e.todo) : s + 1 \in 1..Len(d.todo) /\ e.todo[s] = d.todo[s + 1]
  <2> DEFINE t == d.todo
  <2>1. t \in Seq(Instructions \cup {"save"}) /\ t # <<>>
    BY <1>9, <1>1 <2> HIDE DEF t
  <2>2. Len(Tail(t)) = Len(t) - 1 /\ \A s \in 1..Len(Tail(t)) : Tail(t)[s] = t[s + 1]
    BY <2>1
  <2>3. e.todo = Tail(t)
    BY <1>4 DEF t
  <2> HIDE DEF e
  <2>4. Len(t) = Len(d.todo) /\ Len(t) \in Nat /\ Len(t) # 1 /\ Len(t) \in 1..(Len(Script) + 1)
    BY <1>9, <1>1, <1>2 DEF t
  <2>5. Len(e.todo) = Len(t) - 1
    BY <2>2, <2>3
  <2>6. ASSUME NEW s \in 1..Len(e.todo)
        PROVE  s + 1 \in 1..Len(t) /\ e.todo[s] = t[s + 1]
    <3>1. s \in 1..Len(Tail(t)) /\ e.todo[s] = Tail(t)[s]
      BY <2>3
    <3>2. s \in Nat \ {0} /\ s <= Len(t) - 1
      BY <2>4, <2>5
    <3>3. Tail(t)[s] = t[s + 1]
      BY <2>2, <3>1
    <3>4. s + 1 \in 1..Len(t)
      BY <2>4, <3>2
    <3>. QED
      BY <3>1, <3>3, <3>4
  <2>7. Len(e.todo) \in 1..(Len(Script) + 1)
    <3>1. \A x, y \in Nat : x # 1 /\ x \in 1..(y + 1) => x - 1 \in 1..(y + 1)
      OBVIOUS
    <3>2. Len(t) - 1 \in 1..(Len(Script) + 1)
      BY <1>9, <2>4, <3>1
    <3>. QED
      BY <2>5, <3>2
  <2>. QED
    BY <2>4, <2>5, <2>6, <2>7 DEF t
<1>6. Done(e) = Done(d) + 1
  <2> HIDE DEF e
  <2>. QED
    BY <1>9, <1>5 DEF Done
<1>7. \A s \in 1..Len(e.todo) : e.todo[s] = Instruction(Done(e) + s)
  <2>1. TAKE s \in 1..Len(e.todo)
  <2>2. e.todo[s] = Instruction(Done(d) + (s + 1))
    BY <1>5 DEF Todo
  <2>3. Done(d) + (s + 1) = Done(e) + s
    BY <1>6, TodoHead
  <2>. QED
    BY <2>2, <2>3
<1> HIDE DEF e
<1>8. Todo(e)
  BY <1>4, <1>5, <1>7 DEF Todo, Fetching, Running
<1>. QED
  BY <1>3, <1>4, <1>6, <1>8

\* The instruction that has been carried out was not the last.
LEMMA CompletesSome ==
    ASSUME TypeOK, ShapeInv, TodoInv, NEW k \in CLIs, Completes(k), cli[k].cmd = "build"
    PROVE  /\ cli'[k] = Advanced(cli[k])
           /\ cli[k] \in AtWork /\ Todo(cli[k]) /\ Head(cli[k].todo) # "save"
<1>1. cli[k] \in AtWork /\ Todo(cli[k])
  BY DEF TypeOK, TodoInv
<1>2. cli'[k] = Advanced(cli[k])
  BY DEF Completes, Advances, TypeOK
<1>. QED
  BY <1>1, <1>2 DEF Completes, Does, Todo, Fetching, Running

\* What a command looks like when it is issued.
LEMMA Issued ==
    ASSUME TypeOK, ShapeInv, NEW k \in CLIs, Issue(k)
    PROVE  LET e == cli'[k]
           IN  /\ cli[k] = Idle /\ Only(k) /\ layout' = layout
               /\ \/ \E a \in Images : (RmImage(k, a) \/ RmImageHalf(k, a)) /\ cli' = cli
                  \/ \E a \in Images :
                        /\ e.cmd \in {"pull", "publish"} /\ e.image = a /\ Meets(k, a, None)
                        /\ image' = image
                  \/ \E a \in Images, l \in Layouts :
                        /\ e.cmd = "build" /\ e.image = a /\ e.layout = l /\ e.at = "start"
                        /\ e.todo = Script \o <<"save">> /\ Meets(k, a, l) /\ image' = image
                  \/ \E l \in Layouts \cup {None} :
                        /\ e.cmd = "rm" /\ e.image = None /\ e.layout = l /\ IssueRm(k, l)
                        /\ image' = image
                  \/ /\ e.cmd = "run" /\ e.image = None /\ badLayouts' = badLayouts
                     /\ image' = image
<1>1. cli[k].at = "idle" /\ cli[k] = Idle /\ layout' = layout
  <2>1. cli[k].at = "idle" /\ layout' = layout
    BY DEF Issue, IssuePull, IssueBuild, IssuePublish, IssueRm, IssueRun, RmImage, RmImageHalf,
           store
  <2>. QED
    BY <2>1, WhoIsWhere DEF ShapeInv
<1>2. Only(k)
  BY MineDoes, <1>1 DEF Mine, Local, Pack
<1>3. ASSUME NEW a \in Images, NEW step \in {"download", "override"}, IssuePull(k, a, step)
      PROVE  /\ cli'[k].cmd = "pull" /\ cli'[k].image = a /\ Meets(k, a, None) /\ image' = image
  <2> DEFINE e == [Idle EXCEPT !.at = "next", !.cmd = "pull", !.image = a, !.todo = <<step>>]
  <2>1. cli'[k] = e
    BY <1>3 DEF IssuePull, TypeOK
  <2>2. e.cmd = "pull" /\ e.image = a
    BY DEF Idle
  <2>. QED
    BY <1>3, <2>1, <2>2 DEF IssuePull, store
<1>4. ASSUME NEW a \in Images, NEW l \in Layouts, IssuePublish(k, a, l)
      PROVE  /\ cli'[k].cmd = "publish" /\ cli'[k].image = a /\ Meets(k, a, None)
             /\ image' = image
  <2> DEFINE e == [Idle EXCEPT !.at = "pack", !.cmd = "publish", !.image = a, !.layout = l]
  <2>1. cli'[k] = e
    BY <1>4 DEF IssuePublish, TypeOK
  <2>2. e.cmd = "publish" /\ e.image = a
    BY DEF Idle
  <2>. QED
    BY <1>4, <2>1, <2>2 DEF IssuePublish, store
<1>5. ASSUME NEW a \in Images, NEW l \in Layouts, IssueBuild(k, a, l)
      PROVE  /\ cli'[k].cmd = "build" /\ cli'[k].image = a /\ cli'[k].layout = l
             /\ cli'[k].at = "start" /\ cli'[k].todo = Script \o <<"save">>
             /\ Meets(k, a, l) /\ image' = image
  <2> DEFINE todo == Script \o <<"save">>
             e == [Idle EXCEPT !.at = "start", !.cmd = "build", !.image = a, !.layout = l,
                               !.todo = todo]
  <2>1. cli'[k] = e
    BY <1>5 DEF IssueBuild, TypeOK
  <2> HIDE DEF todo
  <2>2. e.cmd = "build" /\ e.image = a /\ e.layout = l /\ e.at = "start" /\ e.todo = todo
    BY DEF Idle
  <2>. QED
    BY <1>5, <2>1, <2>2 DEF IssueBuild, store, todo
<1>6. ASSUME NEW l \in Layouts \cup {None}, IssueRm(k, l)
      PROVE  /\ cli'[k].cmd = "rm" /\ cli'[k].image = None /\ cli'[k].layout = l
             /\ image' = image
  <2> DEFINE e == [Idle EXCEPT !.at = "look", !.cmd = "rm", !.layout = l]
  <2>1. cli'[k] = e
    BY <1>6 DEF IssueRm, TypeOK
  <2>2. e.cmd = "rm" /\ e.image = None /\ e.layout = l
    BY DEF Idle
  <2>. QED
    BY <1>6, <2>1, <2>2 DEF IssueRm, store
<1>7. ASSUME NEW c \in Containers, NEW l \in Layouts, IssueRun(k, c, l)
      PROVE  /\ cli'[k].cmd = "run" /\ cli'[k].image = None /\ badLayouts' = badLayouts
             /\ image' = image
  <2> DEFINE e == [Idle EXCEPT !.at = "check", !.cmd = "run", !.layout = l, !.c = c]
  <2>1. cli'[k] = e
    BY <1>7 DEF IssueRun, TypeOK
  <2>2. e.cmd = "run" /\ e.image = None
    BY DEF Idle
  <2>. QED
    BY <1>7, <2>1, <2>2 DEF IssueRun, store, history
<1>8. ASSUME NEW a \in Images, RmImage(k, a) \/ RmImageHalf(k, a) PROVE cli' = cli
  BY <1>8 DEF RmImage, RmImageHalf
<1>. QED
  BY <1>1, <1>2, <1>3, <1>4, <1>5, <1>6, <1>7, <1>8 DEF Issue

\* A build begins with all instructions.
LEMMA WholeTodo ==
    ASSUME NEW d, d.todo = Script \o <<"save">>, d.at = "start"
    PROVE  Todo(d)
<1> DEFINE t == Script \o <<"save">>
           S == Instructions \cup {"save"}
<1>1. Len(Script) \in Nat /\ Script \in Seq(S) /\ <<"save">> \in Seq(S) /\ Len(<<"save">>) = 1
  BY StoreConstants
<1>2. /\ Len(t) = Len(Script) + 1
      /\ \A s \in 1..(Len(Script) + 1) : t[s] = Instruction(s)
  <2> HIDE DEF S
  <2>1. /\ Len(t) = Len(Script) + 1
        /\ \A s \in 1..(Len(Script) + 1) :
              t[s] = IF s <= Len(Script) THEN Script[s] ELSE <<"save">>[s - Len(Script)]
    BY <1>1
  <2>2. ASSUME NEW s \in 1..(Len(Script) + 1), ~(s <= Len(Script))
        PROVE  <<"save">>[s - Len(Script)] = "save"
    <3>1. s - Len(Script) = 1
      BY <1>1, <2>2
    <3>. QED
      BY <3>1
  <2>. QED
    BY <2>1, <2>2 DEF Instruction
<1> HIDE DEF t
<1>3. d.todo = t
  BY DEF t
<1>4. Done(d) = 0
  BY <1>1, <1>2, <1>3 DEF Done
<1>5. \A s \in 1..Len(d.todo) : d.todo[s] = Instruction(Done(d) + s)
  BY <1>1, <1>2, <1>3, <1>4
<1>6. Len(d.todo) \in 1..(Len(Script) + 1)
  BY <1>1, <1>2, <1>3
<1>. QED
  BY <1>4, <1>5, <1>6 DEF Todo, Fetching, Running

LEMMA BuildsOn ==
    ASSUME TypeOK, ShapeInv, NEW k \in CLIs, Step(k) \/ BreaksOff(k)
    PROVE  \/ cli'[k] = Idle
           \/ /\ cli'[k].cmd = cli[k].cmd /\ cli'[k].image = cli[k].image
              /\ cli'[k].layout = cli[k].layout
<1>1. CASE Completes(k)
  <2>1. cli'[k] = Advanced(cli[k]) /\ cli[k] \in AtWork
    BY <1>1 DEF Completes, Advances, TypeOK
  <2>. QED
    BY <2>1 DEF Advanced, AtWork
<1>. QED
  BY <1>1, Courses DEF Kept

\* Every step keeps the instructions a build has before it in step with the script.
LEMMA TodoStep ==
    ASSUME TypeOK, ShapeInv, TodoInv, Next
    PROVE  TodoInv'
<1>1. ASSUME NEW k \in CLIs, Issue(k), cli'[k].cmd = "build"
      PROVE  Todo(cli'[k])
  <2>1. cli[k].cmd # "build"
    BY <1>1, Issued, IdleIs DEF None
  <2>. QED
    BY <1>1, <2>1, Issued, WholeTodo
<1>2. ASSUME NEW k \in CLIs, Step(k) \/ BreaksOff(k), cli'[k].cmd = "build"
      PROVE  Todo(cli'[k])
  <2>1. cli'[k] # Idle
    BY <1>2, IdleIs DEF None
  <2>2. cli[k].cmd = "build" /\ Todo(cli[k])
    BY <1>2, <2>1, BuildsOn DEF TodoInv
  <2>3. CASE Completes(k)
    BY <2>2, <2>3, CompletesSome, TodoAdvanced
  <2>4. CASE Kept(k) /\ Within(k)
    BY <2>2, <2>4 DEF Kept, Within, Todo, Done, Does
  <2>5. Completes(k) \/ (Kept(k) /\ Within(k))
    <3>1. Step(k) \/ BreaksOff(k)
      BY <1>2
    <3>. QED
      BY <2>1, <3>1, Courses
  <2>. QED
    BY <2>3, <2>4, <2>5
<1>3. ASSUME NEW k \in CLIs, Issue(k) \/ Step(k) \/ BreaksOff(k),
             NEW j \in CLIs \ {k}, cli'[j].cmd = "build"
      PROVE  cli'[j] = cli[j]
  <2>1. CASE Pack(k)
    <3>1. \/ cli'[j] = cli[j]
          \/ cli[j].cmd = "publish" /\ cli'[j].cmd = cli[j].cmd
      BY <2>1, PackDoes, ZenonT(30)
    <3>. QED
      BY <1>3, <3>1
  <2>2. CASE ~Pack(k)
    BY <1>3, <2>2, MineDoes DEF Mine, Local, Only
  <2>. QED
    BY <2>1, <2>2
<1>4. ASSUME NEW c \in Containers, ContainerEnds(c) \/ RemoveContainer(c) \/ Rewrite(c) PROVE TodoInv'
  BY <1>4 DEF ContainerEnds, RemoveContainer, Rewrite, TodoInv
<1>. QED
  BY <1>1, <1>2, <1>3, <1>4 DEF Next, TodoInv

\* Command e works neither on the image nor on the layout of build d.
Apart(e, d) ==
    /\ e.image # d.image
    /\ e.cmd \in {"build", "rm"} => e.layout # d.layout
    /\ e.cmd = "rm" => e.layout # None

(* A build whose layout is not spoilt is the only command on its layout    *)
(* and on its image.                                                       *)
AloneInv ==
    \A k \in CLIs : cli[k].cmd = "build" /\ cli[k].layout \notin badLayouts =>
        \A j \in CLIs \ {k} : Apart(cli[j], cli[k])

LEMMA BusyBuild ==
    ASSUME ShapeInv, NEW k \in CLIs, cli[k].cmd = "build"
    PROVE  Builds(cli[k]) /\ k \in Busy
<1>1. Builds(cli[k])
  BY DEF ShapeInv, Shape, Idle, None, Pulls, Publishes, Removes, Launches
<1>. QED
  BY <1>1 DEF Builds, Busy, Fetching, Running

LEMMA IdleApart ==
    ASSUME ShapeInv, NEW k \in CLIs, cli[k].cmd = "build"
    PROVE  Apart(Idle, cli[k])
<1>. QED
  BY BusyBuild, IdleIs, StoreConstants DEF Apart, Builds, None

\* Who is met spoils, and is spoilt.
LEMMA MetApart ==
    ASSUME TypeOK, ShapeInv, NEW i \in CLIs, NEW a \in Images, NEW l \in Layouts \cup {None},
           Meets(i, a, l)
    PROVE  /\ \A k \in CLIs \ {i} : cli[k].cmd = "build" /\ cli[k].layout \notin badLayouts' =>
                  cli[k].image # a /\ cli[k].layout # l
           /\ l # None /\ l \notin badLayouts' => OnImage(i, a) = {} /\ OnLayout(i, l) = {}
           /\ badLayouts \subseteq badLayouts'
<1> DEFINE met == OnImage(i, a) \cup OnLayout(i, l)
<1>1. badLayouts' = badLayouts \cup
          (IF met = {} THEN {} ELSE ({l} \cup {cli[j].layout : j \in met}) \ {None})
  BY DEF Meets
<1>2. ASSUME NEW k \in CLIs \ {i}, cli[k].cmd = "build", cli[k].layout \notin badLayouts'
      PROVE  cli[k].image # a /\ cli[k].layout # l
  <2>1. k \in Busy /\ cli[k].layout # None
    BY <1>2, BusyBuild, StoreConstants DEF Builds, None
  <2>2. k \notin met
    <3> HIDE DEF met
    <3>. QED
      BY <1>1, <1>2, <2>1
  <2>. QED
    BY <1>2, <2>1, <2>2 DEF OnImage, OnLayout
<1>3. ASSUME l # None, l \notin badLayouts' PROVE met = {}
  <2> HIDE DEF met
  <2>. QED
    BY <1>1, <1>3
<1>4. badLayouts \subseteq badLayouts'
  BY <1>1
<1>. QED
  BY <1>2, <1>3, <1>4

\* A layout is cleared by nothing but a build that begins alone on a new one.
Fresh(k) ==
    /\ BuildStart(k)
    /\ badLayouts' = badLayouts \ {cli[k].layout}
    /\ ~layout[cli[k].layout].present
    /\ OnLayout(k, cli[k].layout) = {} /\ OnImage(k, cli[k].image) = {}

LEMMA BadGrows ==
    ASSUME NEW k \in CLIs, Step(k) \/ BreaksOff(k)
    PROVE  badLayouts \subseteq badLayouts' \/ Fresh(k)
<1>1. CASE BuildStart(k)
  BY <1>1 DEF BuildStart, Fresh
<1>2. CASE From(k) \/ Unpack(k) \/ UnmountOne(k) \/ RemoveHalf(k) \/ BreaksOff(k)
  BY <1>2 DEF From, Unpack, UnmountOne, RemoveHalf, BreaksOff
<1>3. CASE Step(k) /\ ~(BuildStart(k) \/ From(k) \/ Unpack(k) \/ UnmountOne(k) \/ RemoveHalf(k))
  BY <1>3
  DEF Step, Download, MakeImageDir, FetchManifest, CreateLayer, PullBlob, Copy, Run,
      MountOne, Command, Save, Pack, MakePublishedDir, MoveArchive, Describe, Look,
      RemoveLayout, RemoveAll, MountOverlay, SaveConfig, history
<1>. QED
  BY <1>1, <1>2, <1>3

\* Every command ends or goes on with what it is about.
LEMMA EachGoesOn ==
    ASSUME TypeOK, ShapeInv, NEW i \in CLIs, Step(i) \/ BreaksOff(i), NEW j \in CLIs
    PROVE  \/ cli'[j] = Idle
           \/ /\ cli'[j].cmd = cli[j].cmd /\ cli'[j].image = cli[j].image
              /\ cli'[j].layout = cli[j].layout
<1>. QED
  BY BuildsOn, PackDoes, MineDoes DEF Mine, Local, Only

\* Who is issued meets the builds that are at work.
LEMMA AloneIssued ==
    ASSUME TypeOK, ShapeInv, AloneInv, NEW i \in CLIs, Issue(i)
    PROVE  AloneInv'
<1>1. /\ \A j \in CLIs \ {i} : cli'[j] = cli[j]
      /\ cli[i] = Idle
  BY Issued DEF Only
<1>2. ASSUME badLayouts \subseteq badLayouts', cli'[i].cmd # "build",
             \A k \in CLIs \ {i} : cli[k].cmd = "build" /\ cli[k].layout \notin badLayouts' =>
                Apart(cli'[i], cli[k])
      PROVE  AloneInv'
  BY <1>1, <1>2 DEF AloneInv
<1>3. CASE \E a \in Images : (RmImage(i, a) \/ RmImageHalf(i, a)) /\ cli' = cli
  <2>1. badLayouts \subseteq badLayouts'
    BY <1>3 DEF RmImage, RmImageHalf, Meets
  <2>. QED
    BY <1>3, <2>1 DEF AloneInv
<1>4. ASSUME NEW a \in Images, cli'[i].cmd \in {"pull", "publish"}, cli'[i].image = a,
             Meets(i, a, None)
      PROVE  AloneInv'
  <2>1. \A k \in CLIs \ {i} : cli[k].cmd = "build" /\ cli[k].layout \notin badLayouts' =>
            Apart(cli'[i], cli[k])
    BY <1>4, MetApart DEF Apart
  <2>2. badLayouts \subseteq badLayouts'
    BY <1>4, MetApart
  <2>. QED
    BY <1>2, <1>4, <2>1, <2>2
<1>5. ASSUME NEW a \in Images, NEW l \in Layouts, cli'[i].cmd = "build", cli'[i].image = a,
             cli'[i].layout = l, Meets(i, a, l)
      PROVE  AloneInv'
  <2>1. /\ \A k \in CLIs \ {i} : cli[k].cmd = "build" /\ cli[k].layout \notin badLayouts' =>
              cli[k].image # a /\ cli[k].layout # l
        /\ badLayouts \subseteq badLayouts'
    BY <1>5, MetApart
  <2>2. \A k \in CLIs \ {i} : cli[k].cmd = "build" /\ cli[k].layout \notin badLayouts' =>
            Apart(cli'[i], cli[k])
    BY <1>5, <2>1 DEF Apart
  <2>3. ASSUME l \notin badLayouts', NEW j \in CLIs \ {i} PROVE Apart(cli[j], cli'[i])
    <3>1. l # None /\ a # None
      BY StoreConstants DEF None
    <3>2. OnImage(i, a) = {} /\ OnLayout(i, l) = {}
      BY <1>5, <2>3, <3>1, MetApart
    <3>3. CASE j \in Busy
      BY <1>5, <3>2, <3>3 DEF OnImage, OnLayout, Apart
    <3>4. CASE j \notin Busy
      <4>1. cli[j] = Idle
        BY <3>4, WhoIsWhere DEF ShapeInv, Busy
      <4>. QED
        BY <1>5, <3>1, <4>1, IdleIs DEF Apart, None
    <3>. QED
      BY <3>3, <3>4
  <2>. QED
    BY <1>1, <1>5, <2>1, <2>2, <2>3 DEF AloneInv
<1>6. ASSUME NEW l \in Layouts \cup {None}, cli'[i].cmd = "rm", cli'[i].image = None,
             cli'[i].layout = l, IssueRm(i, l)
      PROVE  AloneInv'
  <2>1. badLayouts' = badLayouts \cup {d \in Layouts : l \in {d, None} /\ OnLayout(i, d) # {}}
    BY <1>6 DEF IssueRm
  <2>2. ASSUME NEW k \in CLIs \ {i}, cli[k].cmd = "build", cli[k].layout \notin badLayouts'
        PROVE  Apart(cli'[i], cli[k])
    <3>1. k \in Busy /\ cli[k].layout \in Layouts /\ cli[k].image \in Images
      BY <2>2, BusyBuild DEF Builds
    <3>2. k \in OnLayout(i, cli[k].layout)
      BY <2>2, <3>1 DEF OnLayout
    <3>3. l \notin {cli[k].layout, None}
      BY <2>1, <2>2, <3>1, <3>2
    <3>. QED
      BY <1>6, <3>1, <3>3, StoreConstants DEF Apart, None
  <2>. QED
    BY <1>2, <1>6, <2>1, <2>2
<1>7. CASE cli'[i].cmd = "run" /\ cli'[i].image = None /\ badLayouts' = badLayouts
  <2>1. ASSUME NEW k \in CLIs, cli[k].cmd = "build" PROVE Apart(cli'[i], cli[k])
    <3>1. cli[k].image \in Images
      BY <2>1, BusyBuild DEF Builds
    <3>. QED
      BY <1>7, <3>1, StoreConstants DEF Apart, None
  <2>. QED
    BY <1>2, <1>7, <2>1
<1>. QED
  BY <1>3, <1>4, <1>5, <1>6, <1>7, Issued

\* Every step keeps the builds of unspoilt layouts alone.
LEMMA AloneStep ==
    ASSUME TypeOK, ShapeInv, AloneInv, Next
    PROVE  AloneInv'
<1>1. ASSUME NEW i \in CLIs, Step(i) \/ BreaksOff(i)
      PROVE  AloneInv'
  <2>1. ASSUME NEW k \in CLIs, cli'[k].cmd = "build", cli'[k].layout \notin badLayouts',
               NEW j \in CLIs \ {k}
        PROVE  Apart(cli'[j], cli'[k])
    <3>1. /\ cli[k].cmd = "build" /\ cli'[k].image = cli[k].image
          /\ cli'[k].layout = cli[k].layout
      BY <1>1, <2>1, EachGoesOn, IdleIs DEF None
    <3>2. Apart(cli[j], cli[k])
      <4>1. CASE cli[k].layout \notin badLayouts
        BY <3>1, <4>1 DEF AloneInv
      <4>2. CASE cli[k].layout \in badLayouts
        <5>1. Fresh(i) /\ cli[k].layout = cli[i].layout
          BY <1>1, <2>1, <3>1, <4>2, BadGrows DEF Fresh
        <5>2. k = i
          BY <3>1, <5>1, BusyBuild DEF Fresh, OnLayout
        <5>3. CASE j \in Busy
          BY <5>1, <5>2, <5>3, <3>1 DEF Fresh, OnLayout, OnImage, Apart
        <5>4. CASE j \notin Busy
          <6>1. cli[j] = Idle
            BY <5>4, WhoIsWhere DEF ShapeInv, Busy
          <6>. QED
            BY <3>1, <6>1, IdleApart
        <5>. QED
          BY <5>3, <5>4
      <4>. QED
        BY <4>1, <4>2
    <3>3. CASE cli'[j] = Idle
      <4>1. Apart(Idle, cli[k])
        BY <3>1, IdleApart
      <4>. QED
        BY <3>1, <3>3, <4>1 DEF Apart
    <3>4. CASE /\ cli'[j].cmd = cli[j].cmd /\ cli'[j].image = cli[j].image
               /\ cli'[j].layout = cli[j].layout
      BY <3>1, <3>2, <3>4 DEF Apart
    <3>. QED
      BY <1>1, <3>3, <3>4, EachGoesOn
  <2>. QED
    BY <2>1 DEF AloneInv
<1>2. ASSUME NEW c \in Containers, ContainerEnds(c) \/ RemoveContainer(c) \/ Rewrite(c) PROVE AloneInv'
  BY <1>2 DEF ContainerEnds, RemoveContainer, Rewrite, history, AloneInv
<1>. QED
  BY <1>1, <1>2, AloneIssued DEF Next

-----------------------------------------------------------------------------
(* What a build has made *)

\* Of the layers of version v, some are unpacked on top of what there was.
Unpacked(r, d, v) ==
    \E m \in 0..(Size(v) - 1), base \in Seq(Elements) :
        /\ Made(base, Done(d))
        /\ d.files = (m + 1)..Size(v)
        /\ r = base \o [i \in 1..m |-> Layer(v, i)]

Progress(k) ==
    LET d == cli[k]
        a == cli[k].image
        r == layout[cli[k].layout].rootfs
    IN  /\ d.at \in {"next"} \cup Fetching \cup Running => Made(r, Done(d))
        /\ d.at = "unpack" => Whole(a) /\ Unpacked(r, d, image[a].config)

Finished(l) ==
    layout[l].present => layout[l].config = "spec" /\ Made(layout[l].rootfs, Len(Script))

(* A layout that is not spoilt holds what its build has made so far.       *)
ContentInv ==
    /\ \A k \in CLIs : cli[k].cmd = "build" /\ cli[k].layout \notin badLayouts => Progress(k)
    /\ \A l \in Layouts \ badLayouts :
          (\A k \in CLIs : cli[k].cmd = "build" => cli[k].layout # l) => Finished(l)

\* The files of a whole image are its layers, and FROM takes them in order.
LEMMA FilesOfWhole ==
    ASSUME NEW a \in Images, Whole(a)
    PROVE  Files(a) = 1..Size(image[a].config)
<1>1. image[a].config \in Origins /\ Absent \notin Origins
  BY StoreConstants DEF Whole, Origins, Absent, Packed
<1>2. /\ Size(image[a].config) \in Nat
      /\ \A i \in 1..Size(image[a].config) : i \in Numbers
  BY <1>1, SizeOfImage, StoreConstants DEF Numbers
<1>3. \A i \in Numbers : image[a].layers[i] # Absent <=> i <= Size(image[a].config)
  BY <1>1 DEF Whole
<1>4. \A i \in Numbers : i \in Nat \ {0}
  BY StoreConstants DEF Numbers
<1>. QED
  BY <1>2, <1>3, <1>4 DEF Files

LEMMA UnpackFirst ==
    ASSUME NEW v \in Origins, NEW d, Done(d) \in Nat, NEW r, Made(r, Done(d)),
           d.files = 1..Size(v)
    PROVE  Unpacked(r, d, v)
<1>1. 0 \in 0..(Size(v) - 1) /\ r \in Seq(Elements)
  BY SizeOfImage, MadeIsSeq
<1>2. [i \in 1..0 |-> Layer(v, i)] = <<>>
  OBVIOUS
<1>3. r \o <<>> = r
  BY <1>1
<1>4. d.files = (0 + 1)..Size(v)
  OBVIOUS
<1>. QED
  BY <1>1, <1>2, <1>3, <1>4 DEF Unpacked

\* One more layer.
LEMMA UnpackMore ==
    ASSUME NEW v \in Origins, NEW m \in 0..(Size(v) - 1), NEW base \in Seq(Elements)
    PROVE  Append(base \o [i \in 1..m |-> Layer(v, i)], Layer(v, m + 1))
              = base \o [i \in 1..(m + 1) |-> Layer(v, i)]
<1> DEFINE s == [i \in 1..m |-> Layer(v, i)]
           t == [i \in 1..(m + 1) |-> Layer(v, i)]
           e == Layer(v, m + 1)
<1>1. Size(v) \in Nat /\ m \in Nat /\ \A i \in 1..Size(v) : i \in Numbers
  BY SizeOfImage, StoreConstants DEF Numbers
<1>2. \A i \in 1..Size(v) : Layer(v, i) \in Elements
  BY <1>1 DEF Layer, Elements
<1>3. s \in Seq(Elements) /\ t \in Seq(Elements) /\ e \in Elements
  BY <1>1, <1>2
<1>4. Len(s) = m /\ Len(t) = m + 1 /\ Append(s, e) = t
  <2>1. Len(s) = m /\ Len(t) = m + 1
    BY <1>1
  <2>2. \A i \in 1..(m + 1) : Append(s, e)[i] = t[i]
    BY <1>1, <1>3, <2>1
  <2>3. Append(s, e) \in Seq(Elements) /\ Len(Append(s, e)) = m + 1
    BY <1>3, <2>1 <2> HIDE DEF s, t, e
  <2>. QED
    BY <1>3, <2>1, <2>2, <2>3
<1> HIDE DEF s, t, e
<1>5. Append(base \o s, e) = base \o Append(s, e)
  <2> DEFINE x == Append(base \o s, e)
             y == base \o Append(s, e)
  <2>1. /\ x \in Seq(Elements) /\ Len(x) = Len(base) + Len(s) + 1
        /\ y \in Seq(Elements) /\ Len(y) = Len(base) + Len(s) + 1
    BY <1>3
  <2>2. \A i \in 1..(Len(base) + Len(s) + 1) : x[i] = y[i]
    BY <1>3 <2> HIDE DEF x, y
  <2>3. x = y
    BY <2>1, <2>2
  <2>. QED
    BY <2>3 DEF x, y
<1>. QED
  BY <1>4, <1>5 DEF s, t, e

LEMMA UnpackLast ==
    ASSUME NEW v \in Origins, NEW n \in Nat, NEW base, Made(base, n), Script[n + 1] = "from"
    PROVE  Made(base \o [i \in 1..Size(v) |-> Layer(v, i)], n + 1)
<1>1. Adds(Script[n + 1], v) = [i \in 1..Size(v) |-> Layer(v, i)]
  BY DEF Adds
<1>. QED
  BY <1>1, MadeMore

\* A build stays in an instruction that adds nothing, or nothing yet.
LEMMA ProgressKept ==
    ASSUME TypeOK, NEW k \in CLIs, Progress(k), Kept(k),
           cli[k].at \in {"next"} \cup Fetching \cup Running, cli'[k].at # "unpack",
           layout'[cli[k].layout].rootfs = layout[cli[k].layout].rootfs
    PROVE  Progress(k)'
<1>1. Done(cli'[k]) = Done(cli[k]) /\ cli'[k].layout = cli[k].layout
  BY DEF Done, Kept
<1>2. Made(layout[cli[k].layout].rootfs, Done(cli[k]))
  BY DEF Progress
<1>. QED
  BY <1>1, <1>2 DEF Progress

\* A build has carried out an instruction.
LEMMA ProgressMade ==
    ASSUME TypeOK, ShapeInv, TodoInv, NEW k \in CLIs, cli[k].cmd = "build", Completes(k),
           Made(layout'[cli[k].layout].rootfs, Done(cli[k]) + 1)
    PROVE  Progress(k)' /\ cli'[k].cmd = "build"
<1> DEFINE d == cli[k]
           e == Advanced(cli[k])
<1>1. /\ cli'[k] = e
      /\ e.at = "next" /\ e.cmd = d.cmd /\ e.layout = d.layout /\ Done(e) = Done(d) + 1
  BY CompletesSome, TodoAdvanced
<1> HIDE DEF d, e
<1>2. Made(layout'[cli'[k].layout].rootfs, Done(cli'[k])) /\ cli'[k].at = "next"
  BY <1>1 DEF d
<1>3. cli'[k].cmd = "build"
  BY <1>1 DEF d
<1>. QED
  BY <1>2, <1>3 DEF Progress

\* Instructions that leave the root filesystem alone.
LEMMA ProgressNoMore ==
    ASSUME TypeOK, ShapeInv, TodoInv, NEW k \in CLIs, cli[k].cmd = "build", Completes(k),
           Progress(k), cli[k].at \in {"next"} \cup Fetching \cup Running,
           Head(cli[k].todo) \notin {"from", "copy"},
           layout'[cli[k].layout].rootfs = layout[cli[k].layout].rootfs
    PROVE  Progress(k)' /\ cli'[k].cmd = "build"
<1> DEFINE d == cli[k]
           r == layout[cli[k].layout].rootfs
<1>1. Made(r, Done(d))
  BY DEF Progress
<1>2. Done(d) \in Nat /\ Script[Done(d) + 1] \notin {"from", "copy"}
  BY CompletesSome, TodoHead
<1>3. Made(r, Done(d) + 1)
  BY <1>1, <1>2, MadeNoMore
<1>. QED
  BY <1>3, ProgressMade

\* COPY.
LEMMA ProgressCopy ==
    ASSUME TypeOK, ShapeInv, TodoInv, NEW k \in CLIs, cli[k].cmd = "build", Copy(k), Progress(k)
    PROVE  Progress(k)' /\ cli'[k].cmd = "build"
<1> DEFINE d == cli[k]
           r == layout[cli[k].layout].rootfs
<1>1. d.layout \in Layouts /\ d.at = "next" /\ Head(d.todo) = "copy"
  BY BusyBuild DEF Copy, Does, Builds
<1>2. Made(r, Done(d))
  BY <1>1 DEF Progress
<1>3. Completes(k)
  BY DEF Copy, Completes, Does
<1>4. Done(d) \in Nat /\ Script[Done(d) + 1] = "copy"
  BY <1>1, <1>3, CompletesSome, TodoHead
<1>5. layout'[d.layout].rootfs = Append(r, Copied)
  <2>1. layout' = [layout EXCEPT ![d.layout].present = TRUE, ![d.layout].rootfs = Append(r, Copied)]
    BY DEF Copy
  <2>2. layout[d.layout] \in LayoutDirs /\ layout \in [Layouts -> LayoutDirs]
    BY <1>1 DEF TypeOK
  <2>. QED
    BY <1>1, <2>1, <2>2 DEF LayoutDirs
<1>6. Append(r, Copied) = r \o <<Copied>>
  <2>1. r \in Seq(Elements) /\ Copied \in Elements
    BY <1>2, <1>4, MadeIsSeq DEF Elements
  <2>. QED
    BY <2>1, AppendOne
<1>7. Packed \in Origins /\ Adds("copy", Packed) = <<Copied>>
  BY DEF Origins, Adds
<1>8. Made(r \o <<Copied>>, Done(d) + 1)
  BY <1>2, <1>4, <1>7, MadeMore
<1>. QED
  BY <1>3, <1>5, <1>6, <1>8, ProgressMade

\* FROM begins on an image that is whole.
LEMMA ProgressFrom ==
    ASSUME TypeOK, ShapeInv, NothingThere, ImageInv, TodoInv, AloneInv, NEW k \in CLIs,
           cli[k].cmd = "build", From(k), Progress(k),
           cli[k].layout \notin badLayouts \cup badLayouts'
    PROVE  Progress(k)' /\ cli'[k].cmd = "build"
<1> DEFINE d == cli[k]
           r == layout[cli[k].layout].rootfs
<1>1. d.layout \in Layouts /\ d.image \in Images /\ d.at = "next"
  BY BusyBuild DEF From, Does, Builds
<1>2. PICK a \in Images : a = d.image
  BY <1>1
<1>3. /\ image[a].present /\ image' = image
      /\ layout' = [layout EXCEPT ![d.layout].present = TRUE]
      /\ cli' = [cli EXCEPT ![k].at = "unpack", ![k].files = Files(a)]
      /\ a \notin badImages
  BY <1>2 DEF From
<1>4. Whole(a)
  <2>1. \A j \in CLIs : cli[j].image = a => j = k
    BY <1>2 DEF AloneInv, Apart
  <2>2. \A j \in CLIs : cli[j].image = a => cli[j].at \notin Filling
    BY <1>1, <2>1 DEF Filling
  <2>. QED
    BY <1>3, <2>2 DEF ImageInv, ImageAt
<1>5. /\ cli'[k].at = "unpack" /\ cli'[k].cmd = "build" /\ cli'[k].image = a
      /\ cli'[k].layout = d.layout /\ cli'[k].todo = d.todo /\ cli'[k].files = Files(a)
  BY <1>2, <1>3 DEF TypeOK, AtWork
<1>6. layout'[d.layout].rootfs = r
  BY <1>1, <1>3 DEF TypeOK, LayoutDirs
<1>7. Done(cli'[k]) = Done(d) /\ Done(d) \in Nat
  <2>1. d \in AtWork /\ Todo(d)
    BY DEF TypeOK, TodoInv
  <2>2. Done(d) \in Nat
    BY <2>1, TodoHead
  <2>. QED
    BY <1>5, <2>2 DEF Done
<1>8. Made(r, Done(d))
  BY <1>1 DEF Progress
<1>9. Unpacked(r, cli'[k], image[a].config)
  BY <1>4, <1>5, <1>7, <1>8, FilesOfWhole, UnpackFirst DEF Whole
<1>10. Whole(a)'
  BY <1>3, <1>4 DEF Whole
<1>. QED
  BY <1>3, <1>5, <1>6, <1>9, <1>10 DEF Progress, Fetching, Running

\* FROM unpacks one layer more.
LEMMA ProgressUnpack ==
    ASSUME TypeOK, ShapeInv, TodoInv, NEW k \in CLIs, cli[k].cmd = "build", Unpack(k), Progress(k),
           cli[k].layout \notin badLayouts'
    PROVE  Progress(k)' /\ cli'[k].cmd = "build"
<1> DEFINE d == cli[k]
<1>1. d.layout \in Layouts /\ d.image \in Images /\ d.at = "unpack" /\ d \in AtWork
  BY BusyBuild DEF Unpack, Builds, TypeOK
<1>2. PICK a \in Images : a = d.image
  BY <1>1
<1>3. PICK l \in Layouts : l = d.layout
  BY <1>1
<1>4. PICK v \in Origins : v = image[a].config
  BY <1>1, <1>2 DEF Progress, Whole
<1>5. PICK m \in 0..(Size(v) - 1), base \in Seq(Elements) :
          /\ Made(base, Done(d))
          /\ d.files = (m + 1)..Size(v)
          /\ layout[l].rootfs = base \o [n \in 1..m |-> Layer(v, n)]
  BY <1>1, <1>2, <1>3, <1>4 DEF Progress, Unpacked
<1>6. m \in Nat /\ Size(v) \in Nat /\ m + 1 <= Size(v) /\ \A n \in 1..Size(v) : n \in Numbers
  BY SizeOfImage, StoreConstants DEF Numbers
<1>7. PICK i \in Numbers :
          /\ NextFile(i, d.files)
          /\ layout' = [layout EXCEPT
                ![l].rootfs = Append(@, Layer(image[a].layers[i], i)),
                ![l].config = IF image[a].config = None THEN @ ELSE "image"]
          /\ IF d.files = {i} THEN Advances(k) ELSE cli' = [cli EXCEPT ![k].files = @ \ {i}]
          /\ image' = image
  <2>1. PICK i \in Numbers :
            /\ NextFile(i, d.files)
            /\ \E unpacked \in {image[a].layers[i], Partial} :
                  /\ layout' = [layout EXCEPT
                        ![l].rootfs = Append(@, Layer(unpacked, i)),
                        ![l].config = IF image[a].config = None THEN @ ELSE "image"]
                  /\ badLayouts' = badLayouts \cup (IF unpacked = Partial THEN {l} ELSE {})
            /\ IF d.files = {i} THEN Advances(k) ELSE cli' = [cli EXCEPT ![k].files = @ \ {i}]
            /\ image' = image
    BY <1>2, <1>3 DEF Unpack
  <2>2. l \notin badLayouts'
    BY <1>3
  <2>. QED
    BY <2>1, <2>2
<1>8. i = m + 1
  BY <1>5, <1>6, <1>7 DEF NextFile
<1>9. image[a].layers[i] = v
  <2>1. Whole(a)
    BY <1>1, <1>2 DEF Progress
  <2>. QED
    BY <1>4, <1>6, <1>8, <2>1 DEF Whole
<1>10. layout'[l].rootfs = base \o [n \in 1..(m + 1) |-> Layer(v, n)]
  <2>1. layout'[l].rootfs = Append(layout[l].rootfs, Layer(v, m + 1))
    <3>1. layout[l] \in LayoutDirs /\ layout \in [Layouts -> LayoutDirs]
      BY DEF TypeOK
    <3>2. layout'[l].rootfs = Append(layout[l].rootfs, Layer(image[a].layers[i], i))
      BY <1>7, <3>1 DEF LayoutDirs
    <3>. QED
      BY <1>8, <1>9, <3>2
  <2>. QED
    BY <1>5, <2>1, UnpackMore
<1>11. Todo(d) /\ Head(d.todo) = "from" /\ Done(d) \in Nat /\ Script[Done(d) + 1] = "from"
  <2>1. Todo(d) /\ Head(d.todo) = "from"
    BY <1>1 DEF TodoInv, Todo
  <2>. QED
    BY <1>1, <2>1, TodoHead
<1>12. CASE d.files = {i}
  <2>1. Size(v) = m + 1
    <3>1. Size(v) \in d.files
      BY <1>5, <1>6
    <3>. QED
      BY <1>8, <1>12, <3>1
  <2>2. Made(layout'[l].rootfs, Done(d) + 1)
    BY <1>5, <1>10, <1>11, <2>1, UnpackLast
  <2>3. Completes(k)
    BY <1>1, <1>7, <1>12 DEF Completes
  <2>. QED
    BY <1>3, <2>2, <2>3, ProgressMade
<1>13. CASE d.files # {i}
  <2>1. /\ cli'[k].at = "unpack" /\ cli'[k].cmd = "build" /\ cli'[k].image = a
        /\ cli'[k].layout = l /\ cli'[k].todo = d.todo /\ cli'[k].files = d.files \ {i}
    BY <1>1, <1>2, <1>3, <1>7, <1>13 DEF TypeOK, AtWork
  <2>2. m + 1 \in 0..(Size(v) - 1) /\ d.files \ {i} = ((m + 1) + 1)..Size(v)
    <3>1. m + 1 # Size(v)
      BY <1>5, <1>6, <1>8, <1>13
    <3>. QED
      BY <1>5, <1>6, <1>8, <3>1
  <2>3. Done(cli'[k]) = Done(d)
    BY <2>1 DEF Done
  <2>4. Unpacked(layout'[l].rootfs, cli'[k], v)
    BY <1>5, <1>10, <2>1, <2>2, <2>3 DEF Unpacked
  <2>5. Whole(a)' /\ image'[a].config = v
    BY <1>1, <1>2, <1>4, <1>7 DEF Progress, Whole
  <2>. QED
    BY <2>1, <2>4, <2>5 DEF Progress, Fetching, Running
<1>. QED
  BY <1>12, <1>13

\* A build of an unspoilt layout makes progress, or is through.
LEMMA OwnStep ==
    ASSUME TypeOK, ShapeInv, NothingThere, ImageInv, TodoInv, AloneInv, ContentInv,
           NEW k \in CLIs, cli[k].cmd = "build", Step(k) \/ BreaksOff(k),
           NEW l \in Layouts, l = cli[k].layout, l \notin badLayouts'
    PROVE  /\ cli'[k].cmd = "build" => Progress(k)'
           /\ cli'[k].cmd # "build" => Finished(l)'
<1>1. Builds(cli[k]) /\ cli[k].layout = l /\ l # None
  BY BusyBuild, StoreConstants DEF None
<1>2. CASE BreaksOff(k)
  BY <1>1, <1>2 DEF BreaksOff
<1>3. CASE BuildStart(k)
  <2>1. ~layout[l].present /\ layout' = [layout EXCEPT ![l].present = TRUE]
    BY <1>1, <1>3 DEF BuildStart
  <2>2. layout'[l].rootfs = <<>>
    <3>1. layout[l] = NoLayout
      BY <2>1 DEF NothingThere
    <3>2. layout[l].rootfs = <<>>
      BY <3>1 DEF NoLayout
    <3>. QED
      BY <2>1, <3>2 DEF TypeOK, LayoutDirs
  <2>3. Kept(k) /\ cli'[k].at = "next"
    BY <1>3, GoesKeeps DEF BuildStart
  <2>4. Done(cli'[k]) = 0
    BY <1>3, <2>3 DEF BuildStart, Kept, Done, TodoInv, Todo
  <2>5. Progress(k)'
    BY <1>1, <2>2, <2>3, <2>4, MadeNothing DEF Progress, Kept
  <2>. QED
    BY <2>3, <2>5 DEF Kept
<1>4. CASE Step(k) /\ ~BuildStart(k)
  <2>1. l \notin badLayouts
    BY <1>4, BadGrows DEF Fresh
  <2>2. Progress(k)
    BY <1>1, <2>1 DEF ContentInv
  <2>3. CASE \/ Download(k) \/ MakeImageDir(k) \/ FetchManifest(k) \/ CreateLayer(k)
             \/ PullBlob(k) \/ Run(k) \/ MountOne(k) \/ Command(k) \/ UnmountOne(k)
    <3>1. cli[k].at \in {"next"} \cup Fetching \cup Running
      BY <2>3
      DEF Download, MakeImageDir, FetchManifest, CreateLayer, PullBlob, Run, MountOne, Command,
          UnmountOne, Does, Fetching, Running
    <3>2. layout'[l].rootfs = layout[l].rootfs
      <4>1. CASE MountOne(k) \/ UnmountOne(k)
        <5> DEFINE m == cli[k].i
                   n == layout[l].mounts[m]
        <5>1. \/ layout' = [layout EXCEPT ![l].mounts[m] = n + 1]
              \/ layout' = [layout EXCEPT ![l].mounts[m] = n - 1]
          BY <1>1, <4>1 DEF MountOne, UnmountOne
        <5> HIDE DEF m, n
        <5>. QED
          BY <5>1 DEF TypeOK, LayoutDirs
      <4>2. CASE ~(MountOne(k) \/ UnmountOne(k))
        BY <2>3, <4>2
        DEF Download, MakeImageDir, FetchManifest, CreateLayer, PullBlob, Run, Command, store
      <4>. QED
        BY <4>1, <4>2
    <3>3. Todo(cli[k])
      BY DEF TodoInv
    <3>4. CASE cli'[k] = Idle
      <4>1. Download(k) \/ PullBlob(k) => Completes(k) \/ cli'[k] # Idle
        <5>1. CASE Download(k)
          <6>1. CASE Advances(k)
            BY <5>1, <6>1 DEF Download, Does, Completes
          <6>2. CASE Goes(k, "mkdir")
            BY <6>2, GoesTo, IdleIs
          <6>. QED
            BY <5>1, <6>1, <6>2 DEF Download
        <5>2. CASE PullBlob(k)
          <6>1. CASE Advances(k)
            BY <5>2, <6>1 DEF PullBlob, Completes
          <6>2. CASE ~Advances(k)
            <7>1. cli' = [cli EXCEPT ![k].at = "layer", ![k].i = cli[k].i + 1]
              BY <5>2, <6>2 DEF PullBlob
            <7>2. cli'[k].at = "layer"
              BY <7>1 DEF TypeOK, AtWork
            <7>. QED
              BY <7>2, IdleIs
          <6>. QED
            BY <6>1, <6>2
        <5>. QED
          BY <5>1, <5>2
      <4>2. UnmountOne(k) => Completes(k) \/ cli'[k] # Idle
        <5>1. ASSUME UnmountOne(k), Ends(k), badLayouts' = badLayouts \cup {cli[k].layout}
              PROVE  FALSE
          BY <1>1, <5>1
        <5>2. ASSUME UnmountOne(k), cli' = [cli EXCEPT ![k].i = cli[k].i + 1]
              PROVE  cli'[k].at = "unmounting"
          BY <5>2 DEF UnmountOne, TypeOK, AtWork
        <5>. QED
          BY <5>1, <5>2, IdleIs DEF UnmountOne, Completes
      <4>3. ~(MakeImageDir(k) \/ FetchManifest(k) \/ CreateLayer(k) \/ Run(k) \/ MountOne(k)
              \/ Command(k))
        <5>1. CASE MakeImageDir(k) \/ CreateLayer(k)
          BY <3>4, <5>1, GoesTo, IdleIs DEF MakeImageDir, CreateLayer
        <5>2. CASE FetchManifest(k) \/ Run(k) \/ MountOne(k) \/ Command(k)
          BY <3>4, <5>2, FetchManifestDoes, RunDoes, MountOneDoes, CommandDoes, IdleIs
        <5>. QED
          BY <5>1, <5>2
      <4>4. Completes(k)
        BY <2>3, <3>4, <4>1, <4>2, <4>3
      <4>5. cli'[k].at = "next"
        BY <4>4, CompletesSome, TodoAdvanced
      <4>. QED
        BY <3>4, <4>5, IdleIs
    <3>5. CASE Completes(k)
      <4>1. Head(cli[k].todo) \notin {"from", "copy"}
        BY <2>3, <3>1, <3>3
        DEF Todo, Download, Run, Does, MakeImageDir, FetchManifest, CreateLayer, PullBlob,
            MountOne, Command, UnmountOne, Fetching, Running
      <4>. QED
        BY <1>1, <2>2, <3>1, <3>2, <3>5, <4>1, ProgressNoMore
    <3>6. CASE Kept(k) /\ Within(k)
      <4>1. cli'[k].at # "unpack"
        <5>1. ~Does(k, {"from"}) \/ Head(cli[k].todo) = "from"
          BY DEF Does
        <5>2. cli'[k].at = "unpack" => Does(k, {"from"})
          BY <3>1, <3>6 DEF Within, Fetching, Running
        <5>3. CASE cli[k].at = "next"
          BY <2>3, <5>2, <5>3, GoesTo, AdvancesTo, RunDoes, <5>1
          DEF Download, MakeImageDir, FetchManifest, CreateLayer, PullBlob, Run, MountOne,
              Command, UnmountOne, Does
        <5>. QED
          BY <5>2, <5>3 DEF Does
      <4>. QED
        BY <1>1, <2>2, <3>1, <3>2, <3>6, <4>1, ProgressKept DEF Kept
    <3>. QED
      BY <1>4, <3>4, <3>5, <3>6, Courses
  <2>4. CASE From(k)
    BY <1>1, <2>1, <2>2, <2>4, ProgressFrom
  <2>5. CASE Unpack(k)
    BY <2>2, <2>5, ProgressUnpack
  <2>6. CASE Copy(k)
    BY <2>2, <2>6, ProgressCopy
  <2>7. CASE Save(k)
    <3>1. /\ cli[k].at = "next" /\ Head(cli[k].todo) = "save"
          /\ layout' = [layout EXCEPT ![l].config = IF layout[l].present THEN "spec" ELSE @]
      BY <1>1, <2>7 DEF Save, Does
    <3>2. Done(cli[k]) = Len(Script)
      BY <3>1, TodoHead DEF TypeOK, TodoInv
    <3>3. Made(layout[l].rootfs, Len(Script))
      BY <1>1, <2>2, <3>1, <3>2 DEF Progress
    <3>4. /\ layout'[l].rootfs = layout[l].rootfs /\ layout'[l].present = layout[l].present
          /\ layout[l].present => layout'[l].config = "spec"
      BY <3>1 DEF TypeOK, LayoutDirs
    <3>5. cli'[k].cmd # "build"
      BY <2>7, EndsDoes, IdleIs DEF Save, None
    <3>. QED
      BY <3>3, <3>4, <3>5 DEF Finished
  <2>8. ~(Pack(k) \/ MakePublishedDir(k) \/ MoveArchive(k) \/ Describe(k) \/ Look(k)
          \/ RemoveLayout(k) \/ RemoveHalf(k) \/ RemoveAll(k) \/ MountOverlay(k) \/ SaveConfig(k))
    BY <1>1
    DEF Builds, Fetching, Running, Pack, MakePublishedDir, MoveArchive, Describe, Look,
        RemoveLayout, RemoveHalf, RemoveAll, MountOverlay, SaveConfig
  <2>. QED
    BY <1>4, <2>3, <2>4, <2>5, <2>6, <2>7, <2>8 DEF Step
<1>. QED
  BY <1>2, <1>3, <1>4

\* What a command does to the layouts that it does not build.
LEMMA OthersLeave ==
    ASSUME TypeOK, ShapeInv, NEW i \in CLIs, Issue(i) \/ Step(i) \/ BreaksOff(i),
           NEW l \in Layouts, l \notin badLayouts',
           ~(cli[i].cmd = "build" /\ cli[i].layout = l)
    PROVE  \/ /\ layout'[l].rootfs = layout[l].rootfs /\ layout'[l].config = layout[l].config
              /\ layout'[l].present = layout[l].present
           \/ cli[i].cmd = "rm" /\ cli[i].layout \in {l, None} /\ ~layout'[l].present
<1> DEFINE d == cli[i]
<1>1. CASE Issue(i)
  BY <1>1, Issued
<1>2. CASE d.cmd = "build" /\ d.layout # l /\ (Step(i) \/ BreaksOff(i))
  <2>1. Builds(d)
    BY <1>2, BusyBuild
  <2>2. CASE BuildStart(i) \/ From(i) \/ Unpack(i) \/ Copy(i) \/ MountOne(i) \/ UnmountOne(i)
             \/ Save(i)
    BY <1>2, <2>2 DEF BuildStart, From, Unpack, Copy, MountOne, UnmountOne, Save, TypeOK
  <2>3. CASE \/ Download(i) \/ MakeImageDir(i) \/ FetchManifest(i) \/ CreateLayer(i)
             \/ PullBlob(i) \/ Run(i) \/ Command(i) \/ BreaksOff(i)
    BY <2>3
    DEF Download, MakeImageDir, FetchManifest, CreateLayer, PullBlob, Run, Command, BreaksOff,
        store
  <2>4. ~(Pack(i) \/ MakePublishedDir(i) \/ MoveArchive(i) \/ Describe(i) \/ Look(i)
          \/ RemoveLayout(i) \/ RemoveHalf(i) \/ RemoveAll(i) \/ MountOverlay(i) \/ SaveConfig(i))
    BY <2>1
    DEF Builds, Fetching, Running, Pack, MakePublishedDir, MoveArchive, Describe, Look,
        RemoveLayout, RemoveHalf, RemoveAll, MountOverlay, SaveConfig
  <2>. QED
    BY <1>2, <2>2, <2>3, <2>4 DEF Step
<1>3. CASE d.cmd # "build" /\ (Step(i) \/ BreaksOff(i))
  <2>1. ~Builds(d)
    BY <1>3 DEF Builds
  <2>2. ~(BuildStart(i) \/ From(i) \/ Unpack(i) \/ Copy(i) \/ Run(i) \/ MountOne(i) \/ Command(i)
          \/ UnmountOne(i) \/ Save(i))
    <3>1. ~(BuildStart(i) \/ Unpack(i) \/ MountOne(i) \/ Command(i) \/ UnmountOne(i))
      BY <2>1, WhoIsWhere DEF ShapeInv, BuildStart, Unpack, MountOne, Command, UnmountOne, Running
    <3>2. ~(From(i) \/ Copy(i) \/ Run(i) \/ Save(i))
      BY <2>1, BuildsAre DEF From, Copy, Run, Save, Does
    <3>. QED
      BY <3>1, <3>2
  <2>3. CASE \/ Download(i) \/ MakeImageDir(i) \/ FetchManifest(i) \/ CreateLayer(i)
             \/ PullBlob(i) \/ BreaksOff(i) \/ MakePublishedDir(i) \/ Describe(i) \/ Look(i)
             \/ MountOverlay(i) \/ SaveConfig(i)
    BY <2>3
    DEF Download, MakeImageDir, FetchManifest, CreateLayer, PullBlob, BreaksOff,
        MakePublishedDir, Describe, Look, MountOverlay, SaveConfig, store
  <2>4. CASE Pack(i) \/ MoveArchive(i)
    <3>1. d.layout \in Layouts
      BY <2>4, WhoIsWhere DEF Pack, MoveArchive, ShapeInv, Publishes
    <3>2. CASE Pack(i)
      <4>1. PICK file : layout' = [layout EXCEPT ![d.layout].archive = file]
        BY <3>2 DEF Pack
      <4>. QED
        BY <3>1, <4>1 DEF TypeOK, LayoutDirs
    <3>3. CASE MoveArchive(i)
      BY <3>1, <3>3, SMTT(30) DEF MoveArchive, TypeOK, LayoutDirs
    <3>. QED
      BY <2>4, <3>2, <3>3
  <2>5. CASE RemoveHalf(i)
    BY <2>5 DEF RemoveHalf, Present, TypeOK
  <2>6. CASE RemoveLayout(i) \/ RemoveAll(i)
    <3>1. d.cmd = "rm"
      BY <2>6, WhoIsWhere DEF RemoveLayout, RemoveAll, ShapeInv, Removes
    <3>2. ~NoLayout.present
      BY NoLayoutDir
    <3>3. CASE RemoveLayout(i)
      BY <3>1, <3>2, <3>3 DEF RemoveLayout, TypeOK
    <3>4. CASE RemoveAll(i)
      BY <3>1, <3>2, <3>4 DEF RemoveAll, TypeOK
    <3>. QED
      BY <2>6, <3>3, <3>4
  <2>. QED
    BY <1>3, <2>2, <2>3, <2>4, <2>5, <2>6 DEF Step
<1>. QED
  BY <1>1, <1>2, <1>3

\* What others do to the image and the layout of a build spoils its layout.
LEMMA ImageElsewhere ==
    ASSUME TypeOK, ShapeInv, NEW i \in CLIs, Step(i) \/ BreaksOff(i),
           NEW a \in Images, a # cli[i].image
    PROVE  image'[a] = image[a]
<1>1. CASE \/ Download(i) \/ MakeImageDir(i) \/ FetchManifest(i) \/ CreateLayer(i)
           \/ PullBlob(i) \/ MakePublishedDir(i) \/ MoveArchive(i) \/ Describe(i)
  BY <1>1
  DEF Download, MakeImageDir, FetchManifest, CreateLayer, PullBlob, MakePublishedDir,
      MoveArchive, Describe, TypeOK
<1>2. CASE (Step(i) \/ BreaksOff(i))
           /\ ~(\/ Download(i) \/ MakeImageDir(i) \/ FetchManifest(i) \/ CreateLayer(i)
                \/ PullBlob(i) \/ MakePublishedDir(i) \/ MoveArchive(i) \/ Describe(i))
  BY <1>2
  DEF Step, BuildStart, From, Unpack, Copy, Run, MountOne, Command, UnmountOne, Save, Pack,
      Look, RemoveLayout, RemoveHalf, RemoveAll, MountOverlay, SaveConfig, BreaksOff, store
<1>. QED
  BY <1>1, <1>2

LEMMA IssueSpoils ==
    ASSUME TypeOK, ShapeInv, NEW i \in CLIs, Issue(i)
    PROVE  badLayouts \subseteq badLayouts'
<1>1. ASSUME NEW a \in Images, RmImage(i, a) \/ RmImageHalf(i, a)
      PROVE  badLayouts \subseteq badLayouts'
  BY <1>1 DEF RmImage, RmImageHalf, Meets
<1>2. ASSUME NEW l \in Layouts \cup {None}, IssueRm(i, l)
      PROVE  badLayouts \subseteq badLayouts'
  BY <1>2 DEF IssueRm
<1>. QED
  BY <1>1, <1>2, Issued, MetApart

\* A build that another command does not disturb.
LEMMA ProgressOfOthers ==
    ASSUME TypeOK, ShapeInv, AloneInv, ContentInv, NEW i \in CLIs,
           Issue(i) \/ Step(i) \/ BreaksOff(i), NEW k \in CLIs \ {i},
           cli[k].cmd = "build", cli[k].layout \notin badLayouts'
    PROVE  cli'[k] = cli[k] /\ Progress(k)'
<1> DEFINE d == cli[k]
<1>1. PICK l \in Layouts, a \in Images : l = d.layout /\ a = d.image
  BY BusyBuild DEF Builds
<1>2. k \in Busy /\ l # None /\ a # None
  BY BusyBuild, StoreConstants DEF None
<1>3. cli'[k] = d
  <2>1. CASE Pack(i)
    BY <2>1, PackDoes, ZenonT(30)
  <2>2. CASE ~Pack(i)
    BY <2>2, MineDoes DEF Mine, Local, Only
  <2>. QED
    BY <2>1, <2>2
<1>4. l \notin badLayouts
  <2>1. CASE Issue(i)
    BY <1>1, <2>1, IssueSpoils
  <2>2. CASE Step(i) \/ BreaksOff(i)
    <3>1. ~(Fresh(i) /\ cli[i].layout = l)
      BY <1>1, <1>2 DEF Fresh, OnLayout
    <3>. QED
      BY <1>1, <2>2, <3>1, BadGrows DEF Fresh
  <2>. QED
    BY <2>1, <2>2
<1>5. Progress(k) /\ Apart(cli[i], d)
  BY <1>1, <1>4 DEF ContentInv, AloneInv
<1>6. layout'[l].rootfs = layout[l].rootfs
  BY <1>1, <1>5, OthersLeave DEF Apart
<1>7. image'[a] = image[a]
  <2>1. CASE Issue(i)
    <3>1. ASSUME NEW b \in Images, RmImage(i, b) \/ RmImageHalf(i, b) PROVE image'[a] = image[a]
      <4>1. k \in OnImage(i, b) => l \in badLayouts'
        <5>1. CASE RmImage(i, b)
          BY <1>1, <5>1, MetApart DEF RmImage, OnImage
        <5>2. CASE RmImageHalf(i, b)
          BY <1>1, <1>2, <5>2 DEF RmImageHalf
        <5>. QED
          BY <3>1, <5>1, <5>2
      <4>2. a # b
        BY <1>1, <1>2, <4>1 DEF OnImage
      <4>. QED
        BY <3>1, <4>2 DEF RmImage, RmImageHalf, TypeOK
    <3>. QED
      BY <2>1, <3>1, Issued
  <2>2. CASE Step(i) \/ BreaksOff(i)
    BY <1>1, <1>5, <2>2, ImageElsewhere DEF Apart
  <2>. QED
    BY <2>1, <2>2
<1>8. Whole(a) => Whole(a)'
  BY <1>7 DEF Whole
<1>. QED
  BY <1>1, <1>3, <1>5, <1>6, <1>7, <1>8 DEF Progress

\* Every step keeps the content of unspoilt layouts.
LEMMA ContentStep ==
    ASSUME TypeOK, ShapeInv, NothingThere, ImageInv, TodoInv, AloneInv, ContentInv, Next
    PROVE  ContentInv'
<1>1. ASSUME NEW i \in CLIs, Issue(i) \/ Step(i) \/ BreaksOff(i)
      PROVE  ContentInv'
  <2>1. ASSUME NEW k \in CLIs, cli'[k].cmd = "build", cli'[k].layout \notin badLayouts'
        PROVE  Progress(k)'
    <3>1. CASE k # i
      <4>1. cli'[k] = cli[k] \/ (cli[k].cmd = cli'[k].cmd /\ cli[k].layout = cli'[k].layout)
        BY <1>1, <3>1, PackDoes, MineDoes DEF Mine, Local, Only
      <4>. QED
        BY <1>1, <2>1, <3>1, <4>1, ProgressOfOthers
    <3>2. CASE k = i /\ Issue(i)
      <4>1. cli[i].cmd # "build" /\ cli[i] = Idle
        BY <3>2, Issued, IdleIs DEF None
      <4>2. cli'[k].at = "start"
        BY <2>1, <3>2, <4>1, Issued
      <4>. QED
        BY <4>2 DEF Progress, Fetching, Running
    <3>3. CASE k = i /\ (Step(i) \/ BreaksOff(i))
      <4>1. cli[k].cmd = "build" /\ cli'[k].layout = cli[k].layout
        BY <2>1, <3>3, BuildsOn, IdleIs DEF None
      <4>2. cli[k].layout \in Layouts
        BY <4>1, BusyBuild DEF Builds
      <4>. QED
        BY <2>1, <3>3, <4>1, <4>2, OwnStep
    <3>. QED
      BY <1>1, <3>1, <3>2, <3>3
  <2>2. ASSUME NEW l \in Layouts, l \notin badLayouts',
               \A k \in CLIs : cli'[k].cmd = "build" => cli'[k].layout # l
        PROVE  Finished(l)'
    <3>1. CASE \E k \in CLIs : cli[k].cmd = "build" /\ cli[k].layout = l
      <4>1. PICK k \in CLIs : cli[k].cmd = "build" /\ cli[k].layout = l
        BY <3>1
      <4>2. k = i
        BY <1>1, <2>2, <4>1, ProgressOfOthers
      <4>3. Step(i) \/ BreaksOff(i)
        BY <1>1, <4>1, <4>2, Issued, IdleIs DEF None
      <4>4. cli'[k].cmd # "build"
        BY <2>2, <4>1, <4>2, <4>3, BuildsOn, IdleIs DEF None
      <4>. QED
        BY <2>2, <4>1, <4>2, <4>3, <4>4, OwnStep
    <3>2. CASE \A k \in CLIs : cli[k].cmd = "build" => cli[k].layout # l
      <4>1. l \notin badLayouts
        <5>1. CASE Issue(i)
          BY <2>2, <5>1, IssueSpoils
        <5>2. CASE Step(i) \/ BreaksOff(i)
          <6>1. BuildStart(i) => cli[i].layout # l
            BY <3>2, WhoIsWhere DEF ShapeInv, BuildStart, Builds
          <6>. QED
            BY <2>2, <5>2, <6>1, BadGrows DEF Fresh
        <5>. QED
          BY <1>1, <5>1, <5>2
      <4>2. Finished(l)
        BY <3>2, <4>1 DEF ContentInv
      <4>. QED
        BY <1>1, <2>2, <3>2, <4>2, OthersLeave DEF Finished
    <3>. QED
      BY <3>1, <3>2
  <2>. QED
    BY <2>1, <2>2 DEF ContentInv
<1>2. ASSUME NEW c \in Containers, ContainerEnds(c) \/ RemoveContainer(c) \/ Rewrite(c) PROVE ContentInv'
  <2>1. cli' = cli /\ layout' = layout /\ image' = image /\ badLayouts' = badLayouts
    BY <1>2 DEF ContainerEnds, RemoveContainer, Rewrite, store, history
  <2>. QED
    BY <2>1 DEF ContentInv, Progress, Finished, Whole
<1>. QED
  BY <1>1, <1>2 DEF Next

-----------------------------------------------------------------------------
(* The theorems *)

Inv ==
    /\ TypeOK
    /\ ShapeInv
    /\ NothingThere
    /\ ImageInv
    /\ ArchiveInv
    /\ UsedInv
    /\ MountInv
    /\ TodoInv
    /\ AloneInv
    /\ ContentInv

\* Init and every step.
LEMMA InvInit ==
    ASSUME Init
    PROVE  Inv
<1>1. \A k \in CLIs : cli[k] = Idle
  BY DEF Init
<1>2. \A a \in Images : image[a] = NoImage
  BY DEF Init
<1>3. \A l \in Layouts : layout[l] = NoLayout
  BY DEF Init
<1>4. NoImage \in ImageDirs /\ ~NoImage.present
  BY DEF NoImage, ImageDirs
<1>5. ShapeInv
  BY <1>1, IdleShape DEF ShapeInv
<1>6. TypeOK
  <2>1. cli \in [CLIs -> AtWork]
    BY IdleShape DEF Init, Shape
  <2>2. image \in [Images -> ImageDirs] /\ layout \in [Layouts -> LayoutDirs]
    BY <1>4, NoLayoutDir DEF Init
  <2>3. {used, overlay} \subseteq [Containers -> Layouts \cup {None}]
    BY DEF Init
  <2>. QED
    BY <2>1, <2>2, <2>3 DEF Init, TypeOK
<1>7. NothingThere
  BY <1>2, <1>3 DEF NothingThere
<1>8. ImageInv
  <2>1. None \notin Images
    BY StoreConstants DEF None
  <2>. QED
    BY <1>1, <1>2, <1>4, <2>1, IdleIs DEF ImageInv, ImageAt
<1>9. ArchiveInv /\ UsedInv
  BY <1>1, IdleIs DEF Init, ArchiveInv, UsedInv
<1>10. MountInv
  <2>1. NoLayout.mounts = [m \in 1..NumMounts |-> 0]
    BY DEF NoLayout
  <2>2. \A l \in Layouts, m \in 1..NumMounts : layout[l].mounts[m] = 0
    BY <1>3, <2>1
  <2>. QED
    BY <2>2, HoldersFinite DEF MountInv
<1>11. TodoInv /\ AloneInv /\ ContentInv
  <2>1. \A k \in CLIs : cli[k].cmd # "build"
    BY <1>1, IdleIs DEF None
  <2>. QED
    BY <1>3, <2>1, NoLayoutDir DEF TodoInv, AloneInv, ContentInv, Finished
<1>. QED
  BY <1>5, <1>6, <1>7, <1>8, <1>9, <1>10, <1>11 DEF Inv

LEMMA InvNext ==
    ASSUME Inv, [Next]_vars
    PROVE  Inv'
<1>1. CASE Next
  BY <1>1, TypeStep, NothingThereStep, ImageStep, ArchiveStep, UsedStep, MountStep, TodoStep,
     AloneStep, ContentStep
  DEF Inv
<1>2. CASE UNCHANGED vars
  <2>1. TypeOK'
    BY <1>2 DEF Inv, TypeOK, vars, store, runtime, history
  <2>2. ShapeInv' /\ NothingThere' /\ ArchiveInv' /\ UsedInv'
    BY <1>2
    DEF Inv, ShapeInv, NothingThere, ArchiveInv, UsedInv, Passes, HasPassed, vars, store,
        runtime, history
  <2>3. ImageInv'
    BY <1>2 DEF Inv, ImageInv, ImageAt, Filled, Holds, Whole, vars, store, history
  <2>4. MountInv'
    BY <1>2 DEF Inv, MountInv, Holders, vars, store, history
  <2>5. TodoInv' /\ AloneInv' /\ ContentInv'
    BY <1>2
    DEF Inv, TodoInv, AloneInv, ContentInv, Progress, Finished, Whole, vars, store, history
  <2>. QED
    BY <2>1, <2>2, <2>3, <2>4, <2>5 DEF Inv
<1>. QED
  BY <1>1, <1>2

(* Whatever commands meet, fail or are killed on the stores, the conjuncts   *)
(* of Inv hold.                                                              *)
THEOREM InvAlways == Spec => []Inv
<1>1. Init => Inv
  BY InvInit
<1>2. Inv /\ [Next]_vars => Inv'
  BY InvNext
<1>. QED
  BY <1>1, <1>2, PTL DEF Spec

(* The directories of the stores hold what the commands put there, and a     *)
(* command at work is at one of the places of its handler.                   *)
THEOREM TypeCorrect == Spec => []TypeOK
<1>1. Inv => TypeOK
  BY DEF Inv
<1>. QED
  BY <1>1, InvAlways, PTL

(* download_image_if_missing and publish_layout: an image that is there, and *)
(* that nobody fills, is one whole version or one whole layout, unless a     *)
(* fault or another command has hit it.                                      *)
THEOREM ImagesWhole == Spec => []ImageIsWhole
<1>1. Inv => ImageIsWhole
  BY DEF Inv, ImageInv, ImageAt, Whole, ImageIsWhole
<1>. QED
  BY <1>1, InvAlways, PTL

(* build_layout: a layout that is there, and that no command writes, is what *)
(* its Crabtainerfile makes of one version of its image for each FROM, and   *)
(* has its runtime config, unless a fault or another command has hit it, or  *)
(* its build warned about an entry of a layer that it could not unpack.      *)
THEOREM LayoutsWhole == Spec => []LayoutIsWhole
<1>1. ASSUME Inv, NEW l \in Layouts, l \notin badLayouts, layout[l].present,
             OnLayout(None, l) = {}
      PROVE  /\ layout[l].config = "spec"
             /\ \E versions \in [Froms -> Origins] : layout[l].rootfs = Content(versions)
  <2>1. ASSUME NEW k \in CLIs, cli[k].cmd = "build", cli[k].layout = l PROVE FALSE
    <3>1. k \in Busy
      BY <1>1, <2>1, BusyBuild DEF Inv
    <3>. QED
      BY <1>1, <2>1, <3>1, StoreConstants DEF OnLayout, None
  <2>2. Finished(l)
    BY <1>1, <2>1 DEF Inv, ContentInv
  <2>. QED
    BY <1>1, <2>2, MadeContent DEF Finished
<1>2. Inv => LayoutIsWhole
  BY <1>1 DEF LayoutIsWhole
<1>. QED
  BY <1>2, InvAlways, PTL

(* layout rm never takes the layout that a container's config names, unless  *)
(* the container is launched while it is at work, the config could not be    *)
(* read when it was passed over, or it is layout rm ".".                      *)
THEOREM UsedLayoutsStay == Spec => []UsedLayoutStays
<1>1. Inv => UsedLayoutStays
  BY DEF Inv, UsedInv, UsedLayoutStays
<1>. QED
  BY <1>1, InvAlways, PTL

(* RUN: a layout that no RUN works on has no mounts, unless a RUN was cut    *)
(* off, whatever other builds have mounted in the same layout meanwhile.     *)
THEOREM MountsAreGone == Spec => []MountsGone
<1>1. ASSUME Inv, NEW l \in Layouts, l \notin pinned, Mounted(l)
      PROVE  \E k \in OnLayout(None, l) : cli[k].at \in Running
  <2>1. PICK m \in 1..NumMounts : layout[l].mounts[m] > 0
    BY <1>1 DEF Mounted
  <2>2. layout[l].mounts[m] <= Cardinality(Holders(l, m))
    BY <1>1 DEF Inv, MountInv
  <2>3. layout[l].mounts[m] \in Nat
    <3>1. layout[l] \in LayoutDirs
      BY <1>1 DEF Inv, TypeOK
    <3>2. layout[l].mounts \in [1..NumMounts -> 0..MaxMounts]
      BY <3>1 DEF LayoutDirs
    <3>. QED
      BY <3>2, StoreConstants
  <2>4. Holders(l, m) # {}
    BY <2>1, <2>2, <2>3, FS_EmptySet
  <2>5. PICK k \in CLIs : cli[k].layout = l /\ cli[k].at \in Running
    BY <2>4 DEF Holders, Running
  <2>6. cli[k].cmd = "build"
    BY <1>1, <2>5, WhoIsWhere DEF Inv, ShapeInv, Builds
  <2>7. k \in OnLayout(None, l)
    BY <2>5, <2>6, StoreConstants DEF OnLayout, Busy, None, Running
  <2>. QED
    BY <2>5, <2>7
<1>2. Inv => MountsGone
  BY <1>1 DEF MountsGone
<1>. QED
  BY <1>2, InvAlways, PTL
=============================================================================
