------------------------- MODULE VolumeMountsProofs -------------------------
(***************************************************************************)
(* Theorems about VolumeMounts for every number of volumes, launches and   *)
(* files and any order in which launches use volumes.                      *)
(***************************************************************************)
EXTENDS VolumeMounts, TLAPS

\* A launch that has looked at its volume, and one that fills it.
At(l, v)    == at[l] \in {"bind"} \cup Seeding /\ Vol(l) = v
Fills(l, v) == at[l] \in Seeding /\ Vol(l) = v

(* A directory is the _data of one volume, new ones are empty, and only a
   config.json can be that of the volume.                                  *)
InodeInv ==
    /\ \A u, v \in Volumes : data[u] # 0 /\ data[u] = data[v] => u = v
    /\ \A l \in Launches, v \in Volumes : bound[l][v] <= inodes
    /\ \A l \in Launches, u, v \in Volumes : data[u] # 0 /\ bound[l][v] = data[u] => u = v
    /\ \A l, m \in Launches, u, v \in Volumes :
          bound[l][v] # 0 /\ bound[l][v] = bound[m][u] => u = v
    /\ \A i \in Inodes : i > inodes => content[i] = Empty
    /\ \A i \in Inodes, f \in Files : content[i][f] = "config" => f = Config

VolInv == \A l \in Launches : at[l] \in {"bind"} \cup Seeding => vol[l] < Len(Uses[l])

(* Who fills a volume has it to itself, and nothing is written in it yet.  *)
SeedInv ==
    \A l \in Launches, v \in Volumes \ unsure : Fills(l, v) =>
        /\ \A m \in Launches \ {l} : ~At(m, v)
        /\ at[l] \in {"mkdir", "mkdata"} => data[v] = 0
        /\ at[l] = "config" => todo[l] = {}
        /\ at[l] \in {"copy", "config"} =>
              /\ data[v] # 0
              /\ \A m \in Launches : bound[m][v] # data[v]
              /\ \A f \in Files : content[data[v]][f] # "written"
              /\ v \notin removing => \A f \in Regular \ todo[l] : content[data[v]][f] # "none"

(* Whoever has a volume that is being removed has been told.               *)
EvictInv ==
    \A l \in Launches, v \in Volumes \cap removing : bound[l][v] # 0 \/ At(l, v) => l \in evicted

(* A volume that lacks a file of the image is being filled or removed, and
   no container has one that does.                                         *)
DataInv ==
    \A v \in Volumes \ unsure, f \in Regular :
        data[v] # 0 /\ v \notin removing /\ content[data[v]][f] = "none"
            => \E l \in Launches : Fills(l, v)

BoundInv ==
    \A v \in Volumes \ unsure, l \in Launches \ evicted, f \in Regular :
        bound[l][v] # 0 => content[bound[l][v]][f] # "none"

Inv == TypeOK /\ InodeInv /\ VolInv /\ SeedInv /\ EvictInv /\ DataInv /\ BoundInv

LEMMA VolIsVolume ==
    ASSUME TypeOK, NEW l \in Launches, vol[l] < Len(Uses[l])
    PROVE  Vol(l) \in Volumes /\ vol[l] + 1 \in Nat /\ vol[l] + 1 <= Len(Uses[l])
<1>1. Uses[l] \in Seq(Volumes) /\ vol[l] \in Nat
  BY VolumeConstants DEF TypeOK
<1>. QED
  BY <1>1 DEF Vol

LEMMA InitInv == Init => Inv
<1>. SUFFICES ASSUME Init PROVE Inv
  OBVIOUS
<1>. USE VolumeConstants DEF Init, Nothing, Empty, Inodes, Seeding
<1>1. TypeOK
  <2>1. \A l \in Launches : Uses[l] \in Seq(Volumes) /\ Len(Uses[l]) \in Nat
    OBVIOUS
  <2>. QED
    BY <2>1 DEF TypeOK, Places
<1>2. InodeInv
  BY DEF InodeInv
<1>3. VolInv
  BY DEF VolInv
<1>4. SeedInv /\ EvictInv /\ DataInv /\ BoundInv
  BY DEF SeedInv, EvictInv, DataInv, BoundInv, Fills, At
<1>. QED
  BY <1>1, <1>2, <1>3, <1>4 DEF Inv

-----------------------------------------------------------------------------
LEMMA NextInv == Inv /\ [Next]_vars => Inv' /\ (WrittenStays \/ UNCHANGED vars)
<1>. SUFFICES ASSUME Inv, [Next]_vars PROVE Inv' /\ (WrittenStays \/ UNCHANGED vars)
  OBVIOUS
<1>. DEFINE Goal == Inv' /\ WrittenStays
<1>. USE VolumeConstants DEF Seeding, Goto
<1>0. TypeOK /\ InodeInv /\ VolInv /\ SeedInv /\ EvictInv /\ DataInv /\ BoundInv
  BY DEF Inv
<1>v. \A l \in Launches : vol[l] < Len(Uses[l]) => Vol(l) \in Volumes
  BY <1>0, VolIsVolume
<1>x. \A l \in Launches : at[l] \in {"bind"} \cup Seeding => Vol(l) \in Volumes
  BY <1>0, <1>v DEF VolInv
<1>w. /\ \A l \in Launches, v \in Volumes : Fills(l, v) => At(l, v)
      /\ \A l \in Launches, v \in Volumes : At(l, v) => Working(l, v)
  BY <1>0 DEF At, Fills, Working, VolInv
<1>t. /\ at \in [Launches -> Places] /\ data \in [Volumes -> Inodes] /\ inodes \in Inodes
      /\ content \in [Inodes -> [Files -> {"none", "image", "config", "written"}]]
      /\ todo \in [Launches -> SUBSET ImageFiles] /\ ImageFiles \subseteq Files
      /\ Regular \subseteq Files /\ Regular \subseteq ImageFiles /\ Config \in Files
      /\ bound \in [Launches -> [Volumes -> Inodes]] /\ vol \in [Launches -> Nat]
      /\ removing \subseteq Volumes /\ unsure \subseteq Volumes
  BY <1>0 DEF TypeOK, Files
<1>1. ASSUME NEW l \in Launches, Launch(l) PROVE Goal
  <2>v. UNCHANGED vol /\ \A m \in Launches : Vol(m)' = Vol(m)
    BY <1>1 DEF Launch, Vol
  <2>m. /\ \A m \in Launches, u \in Volumes : At(m, u)' <=> At(m, u)
        /\ \A m \in Launches, u \in Volumes : Fills(m, u)' <=> Fills(m, u)
    BY <1>1, <1>t, <2>v DEF Launch, At, Fills
  <2>1. TypeOK'
    BY <1>0, <1>1 DEF Launch, TypeOK, Places, Inodes
  <2>2. InodeInv'
    BY <1>0, <1>1 DEF Launch, InodeInv
  <2>3. VolInv'
    BY <1>0, <1>1 DEF Launch, VolInv
  <2>4. SeedInv'
    BY <1>0, <1>1, <2>m DEF Launch, SeedInv
  <2>5. EvictInv'
    BY <1>0, <1>1, <2>m DEF Launch, EvictInv
  <2>6. DataInv'
    BY <1>0, <1>1, <2>m DEF Launch, DataInv
  <2>7. BoundInv'
    BY <1>0, <1>1 DEF Launch, BoundInv
  <2>8. WrittenStays
    BY <1>1 DEF Launch, WrittenStays
  <2>. QED
    BY <2>1, <2>2, <2>3, <2>4, <2>5, <2>6, <2>7, <2>8 DEF Inv
<1>2. ASSUME NEW l \in Launches, Look(l) PROVE Goal
  <2>v. UNCHANGED vol /\ \A m \in Launches : Vol(m)' = Vol(m)
    BY <1>2 DEF Look, Vol
  <2>m. /\ \A m \in Launches, u \in Volumes : At(m, u)' <=> At(m, u) \/ (m = l /\ u = Vol(l))
        /\ \A m \in Launches, u \in Volumes :
              Fills(m, u)' <=> Fills(m, u) \/ (m = l /\ u = Vol(l) /\ ~Exists(l, u))
    BY <1>2, <1>t, <2>v DEF Look, At, Fills
  <2>1. TypeOK'
    <3>1. at' \in [Launches -> Places] /\ unsure' \subseteq Volumes /\ evicted' \subseteq Launches
      BY <1>0, <1>v, <1>t, <1>2 DEF Look, TypeOK, Places
    <3>. QED
      BY <1>0, <1>2, <3>1 DEF Look, TypeOK
  <2>2. InodeInv'
    BY <1>0, <1>2 DEF Look, InodeInv
  <2>3. VolInv'
    BY <1>0, <1>2 DEF Look, VolInv
  <2>4. SeedInv'
    <3>. PICK v : v = Vol(l)
      OBVIOUS
    <3>1. /\ v \in Volumes /\ at[l] = "look" /\ at' = [at EXCEPT ![l] = IF Exists(l, v) THEN "bind" ELSE "mkdir"]
          /\ unsure \subseteq unsure' /\ UNCHANGED <<data, content, todo, bound, removing>>
      BY <1>v, <1>2 DEF Look
    <3>2. \A m \in Launches \ {l} : Fills(m, v) => v \in unsure'
      BY <1>w, <1>2, <3>1 DEF Look, Meets, Fills
    <3>3. ~Exists(l, v) => data[v] = 0 /\ \A m \in Launches \ {l} : At(m, v) => v \in unsure'
      BY <1>0, <1>w, <1>2, <3>1 DEF Look, Meets, At, Exists, TypeOK
    <3>4. \A m \in Launches \ {l} : at'[m] = at[m]
      BY <1>t, <3>1
    <3>5. at'[l] \notin {"mkdata", "copy", "config"}
      BY <1>t, <3>1
    <3>6. ASSUME NEW m \in Launches, NEW u \in Volumes \ unsure', Fills(m, u)'
          PROVE  \A k \in Launches \ {m} : ~At(k, u)'
      BY <1>0, <2>m, <3>1, <3>2, <3>3, <3>6 DEF SeedInv
    <3>7. \A u \in Volumes : ~Fills(l, u)
      BY <3>1 DEF Fills
    <3>8. ASSUME NEW m \in Launches \ {l}, NEW u \in Volumes \ unsure', Fills(m, u)'
          PROVE  Fills(m, u) /\ u \in Volumes \ unsure /\ at'[m] = at[m]
      BY <2>m, <3>1, <3>4, <3>8
    <3>9. ASSUME NEW u \in Volumes \ unsure', Fills(l, u)'
          PROVE  data[u] = 0
      BY <2>m, <3>1, <3>3, <3>7, <3>9
    <3>10. ASSUME NEW m \in Launches, NEW u \in Volumes \ unsure', Fills(m, u)'
           PROVE  /\ at'[m] \in {"mkdir", "mkdata"} => data[u] = 0
                  /\ at'[m] = "config" => todo[m] = {}
                  /\ at'[m] \in {"copy", "config"} =>
                        /\ data[u] # 0
                        /\ \A k \in Launches : bound[k][u] # data[u]
                        /\ \A f \in Files : content[data[u]][f] # "written"
                        /\ u \notin removing =>
                              \A f \in Regular \ todo[m] : content[data[u]][f] # "none"
      <4>1. CASE m = l
        BY <3>5, <3>9, <3>10, <4>1
      <4>2. CASE m # l
        BY <1>0, <3>8, <3>10, <4>2 DEF SeedInv
      <4>. QED
        BY <4>1, <4>2
    <3>. QED
      BY <3>1, <3>6, <3>10 DEF SeedInv
  <2>5. EvictInv'
    BY <1>0, <1>2, <2>m DEF Look, EvictInv, At
  <2>6. DataInv'
    BY <1>0, <1>2, <2>m DEF Look, DataInv
  <2>7. BoundInv'
    BY <1>0, <1>2 DEF Look, BoundInv
  <2>8. WrittenStays
    BY <1>2 DEF Look, WrittenStays
  <2>. QED
    BY <2>1, <2>2, <2>3, <2>4, <2>5, <2>6, <2>7, <2>8 DEF Inv
<1>3. ASSUME NEW l \in Launches, MakeVolume(l) PROVE Goal
  <2>v. UNCHANGED vol /\ \A m \in Launches : Vol(m)' = Vol(m)
    BY <1>3 DEF MakeVolume, Vol
  <2>m. /\ \A m \in Launches, u \in Volumes : At(m, u)' <=> At(m, u)
        /\ \A m \in Launches, u \in Volumes : Fills(m, u)' <=> Fills(m, u)
    BY <1>3, <1>t, <2>v DEF MakeVolume, At, Fills
  <2>1. TypeOK'
    <3>1. at' \in [Launches -> Places] /\ made' \subseteq Volumes /\ made \subseteq made'
      BY <1>0, <1>x, <1>t, <1>3 DEF MakeVolume, TypeOK, Places
    <3>. QED
      BY <1>0, <1>3, <3>1 DEF MakeVolume, TypeOK
  <2>2. InodeInv'
    BY <1>0, <1>3 DEF MakeVolume, InodeInv
  <2>3. VolInv'
    BY <1>0, <1>3 DEF MakeVolume, VolInv
  <2>4. SeedInv'
    BY <1>0, <1>3, <2>m DEF MakeVolume, SeedInv, Fills
  <2>5. EvictInv'
    BY <1>0, <1>3, <2>m DEF MakeVolume, EvictInv
  <2>6. DataInv'
    BY <1>0, <1>3, <2>m DEF MakeVolume, DataInv
  <2>7. BoundInv'
    BY <1>0, <1>3 DEF MakeVolume, BoundInv
  <2>8. WrittenStays
    BY <1>3 DEF MakeVolume, WrittenStays
  <2>. QED
    BY <2>1, <2>2, <2>3, <2>4, <2>5, <2>6, <2>7, <2>8 DEF Inv
<1>4. ASSUME NEW l \in Launches, MakeData(l) PROVE Goal
  <2>v. UNCHANGED vol /\ \A m \in Launches : Vol(m)' = Vol(m)
    BY <1>4 DEF MakeData, Vol
  <2>m. /\ \A m \in Launches, u \in Volumes : At(m, u)' <=> At(m, u)
        /\ \A m \in Launches, u \in Volumes : Fills(m, u)' <=> Fills(m, u)
    BY <1>4, <1>t, <2>v DEF MakeData, At, Fills
  <2>1. TypeOK'
    <3>. PICK v : v = Vol(l)
      OBVIOUS
    <3>1. /\ v \in made /\ v \in Volumes
          /\ at' = [at EXCEPT ![l] = "copy"] /\ todo' = [todo EXCEPT ![l] = ImageFiles]
          /\ UNCHANGED <<made, content, vol, bound, removing, unsure, evicted>>
      BY <1>x, <1>4 DEF MakeData
    <3>2. at' \in [Launches -> Places] /\ todo' \in [Launches -> SUBSET ImageFiles]
      BY <1>t, <3>1 DEF Places
    <3>3. /\ data' \in [Volumes -> Inodes] /\ inodes' \in Inodes
          /\ \A u \in Volumes : data'[u] # 0 => u \in made /\ data'[u] <= inodes'
      <4>1. CASE UNCHANGED <<inodes, data>>
        BY <1>0, <4>1 DEF TypeOK
      <4>2. CASE /\ inodes < MaxInodes /\ inodes' = inodes + 1
                 /\ data' = [data EXCEPT ![v] = inodes + 1]
        <5>1. inodes + 1 \in Inodes /\ inodes \in Nat /\ \A u \in Volumes : data[u] \in Nat
          BY <1>t, <4>2 DEF Inodes
        <5>2. data' \in [Volumes -> Inodes]
          BY <1>t, <3>1, <4>2, <5>1
        <5>3. data'[v] = inodes + 1 /\ \A u \in Volumes \ {v} : data'[u] = data[u]
          BY <1>t, <3>1, <4>2
        <5>4. \A u \in Volumes : data[u] # 0 => u \in made /\ data[u] <= inodes
          BY <1>0 DEF TypeOK
        <5>. QED
          BY <3>1, <4>2, <5>1, <5>2, <5>3, <5>4
      <4>. QED
        BY <1>4, <4>1, <4>2 DEF MakeData
    <3>. QED
      BY <1>0, <3>1, <3>2, <3>3 DEF TypeOK
  <2>2. InodeInv'
    <3>. PICK v : v = Vol(l)
      OBVIOUS
    <3>1. v \in Volumes
      BY <1>x, <1>4 DEF MakeData
    <3>2. CASE data[v] # 0
      BY <1>0, <1>4, <3>2 DEF MakeData, InodeInv
    <3>3. CASE data[v] = 0
      <4>1. /\ inodes' = inodes + 1 /\ inodes \in Nat /\ data' = [data EXCEPT ![v] = inodes + 1]
            /\ UNCHANGED <<bound, content>>
        BY <1>t, <1>4, <3>3 DEF MakeData, Inodes
      <4>2. /\ \A u \in Volumes : data[u] \in Nat /\ data[u] <= inodes
            /\ \A m \in Launches, u \in Volumes : bound[m][u] \in Nat /\ bound[m][u] <= inodes
        BY <1>0, <1>t, <4>1 DEF TypeOK, InodeInv, Inodes
      <4>3. data'[v] = inodes + 1 /\ \A u \in Volumes \ {v} : data'[u] = data[u]
        BY <1>t, <3>1, <4>1
      <4>4. \A i \in Inodes : i \in Nat
        BY DEF Inodes
      <4>. QED
        BY <1>0, <4>1, <4>2, <4>3, <4>4 DEF InodeInv
    <3>. QED
      BY <3>2, <3>3
  <2>3. VolInv'
    BY <1>0, <1>4 DEF MakeData, VolInv
  <2>4. SeedInv'
    <3>. PICK v : v = Vol(l)
      OBVIOUS
    <3>1. /\ v \in Volumes /\ Fills(l, v) /\ inodes \in Nat
          /\ at' = [at EXCEPT ![l] = "copy"] /\ todo' = [todo EXCEPT ![l] = ImageFiles]
          /\ UNCHANGED <<content, bound, removing, unsure>>
      BY <1>x, <1>t, <1>4 DEF MakeData, Fills, Inodes
    <3>2. ASSUME v \notin unsure
          PROVE  /\ data'[v] # 0 /\ \A u \in Volumes \ {v} : data'[u] = data[u]
                 /\ \A m \in Launches : bound[m][v] # data'[v]
                 /\ content[data'[v]] = Empty
      <4>1. data[v] = 0
        BY <1>0, <1>4, <3>1, <3>2 DEF MakeData, SeedInv
      <4>2. data' = [data EXCEPT ![v] = inodes + 1] /\ inodes + 1 \in Inodes
        BY <1>t, <1>4, <4>1 DEF MakeData, Inodes
      <4>3. \A m \in Launches : bound[m][v] \in Nat /\ bound[m][v] <= inodes
        BY <1>0, <1>t, <3>1 DEF InodeInv, Inodes
      <4>. QED
        BY <1>0, <1>t, <3>1, <4>2, <4>3 DEF InodeInv
    <3>3. \A m \in Launches \ {l}, u \in Volumes \ unsure : Fills(m, u) => u # v
      BY <1>0, <1>w, <3>1 DEF SeedInv
    <3>4. \A u \in Volumes : Fills(l, u) => u = v
      BY DEF Fills
    <3>5. ASSUME NEW u \in Volumes \ unsure, Fills(l, u)
          PROVE  /\ data'[u] # 0
                 /\ \A m \in Launches : bound[m][u] # data'[u]
                 /\ \A f \in Files : content[data'[u]][f] # "written"
      BY <3>2, <3>4, <3>5 DEF Empty
    <3>6. at'[l] = "copy" /\ todo'[l] = ImageFiles
      BY <1>t, <3>1
    <3>7. ASSUME NEW m \in Launches \ {l}, NEW u \in Volumes \ unsure, Fills(m, u)
          PROVE  data'[u] = data[u] /\ at'[m] = at[m] /\ todo'[m] = todo[m]
      <4>1. u # v
        BY <3>3, <3>7
      <4>2. data'[u] = data[u]
        BY <1>t, <1>4, <3>1, <4>1 DEF MakeData
      <4>. QED
        BY <1>t, <3>1, <4>2
    <3>8. ASSUME NEW m \in Launches, NEW u \in Volumes \ unsure, Fills(m, u)
          PROVE  /\ at'[m] \in {"mkdir", "mkdata"} => data'[u] = 0
                 /\ at'[m] = "config" => todo'[m] = {}
                 /\ at'[m] \in {"copy", "config"} =>
                       /\ data'[u] # 0
                       /\ \A k \in Launches : bound[k][u] # data'[u]
                       /\ \A f \in Files : content[data'[u]][f] # "written"
                       /\ u \notin removing =>
                             \A f \in Regular \ todo'[m] : content[data'[u]][f] # "none"
      <4>1. CASE m = l
        BY <3>5, <3>6, <3>8, <4>1
      <4>2. CASE m # l
        BY <1>0, <3>7, <3>8, <4>2 DEF SeedInv
      <4>. QED
        BY <4>1, <4>2
    <3>9. \A m \in Launches, u \in Volumes \ unsure : Fills(m, u) =>
              \A k \in Launches \ {m} : ~At(k, u)
      BY <1>0 DEF SeedInv
    <3>. QED
      BY <2>m, <3>1, <3>8, <3>9 DEF SeedInv
  <2>5. EvictInv'
    BY <1>0, <1>w, <1>t, <1>4, <2>v, <2>m DEF MakeData, EvictInv
  <2>6. DataInv'
    BY <1>0, <1>t, <1>4, <2>m DEF MakeData, DataInv, Fills
  <2>7. BoundInv'
    BY <1>0, <1>w, <1>t, <1>4, <2>v, <2>m DEF MakeData, BoundInv
  <2>8. WrittenStays
    BY <1>4 DEF MakeData, WrittenStays
  <2>. QED
    BY <2>1, <2>2, <2>3, <2>4, <2>5, <2>6, <2>7, <2>8 DEF Inv
<1>5. ASSUME NEW l \in Launches, Copied(l) PROVE Goal
  <2>v. UNCHANGED vol /\ \A m \in Launches : Vol(m)' = Vol(m)
    BY <1>5 DEF Copied, Vol
  <2>m. /\ \A m \in Launches, u \in Volumes : At(m, u)' <=> At(m, u)
        /\ \A m \in Launches, u \in Volumes :
              Fills(m, u)' <=> Fills(m, u) /\ (m # l \/ l \notin Detached)
    BY <1>5, <1>t, <2>v DEF Copied, At, Fills
  <2>1. TypeOK'
    BY <1>0, <1>w, <1>t, <1>5, <2>v, <2>m DEF Copied, TypeOK, Places, Inodes
  <2>2. InodeInv'
    BY <1>0, <1>5 DEF Copied, InodeInv
  <2>3. VolInv'
    BY <1>0, <1>5 DEF Copied, VolInv
  <2>4. SeedInv'
    <3>1. /\ at[l] = "copy" /\ todo[l] = {} /\ UNCHANGED <<data, content, todo, bound, removing, unsure>>
          /\ at'[l] \in {"bind", "config"} /\ \A m \in Launches \ {l} : at'[m] = at[m]
      BY <1>t, <1>5 DEF Copied
    <3>2. \A m \in Launches, u \in Volumes : Fills(m, u)' => Fills(m, u)
      BY <2>m
    <3>. QED
      BY <1>0, <2>m, <3>1, <3>2 DEF SeedInv
  <2>5. EvictInv'
    BY <1>0, <1>5, <2>m DEF Copied, EvictInv
  <2>6. DataInv'
    <3>1. /\ at[l] = "copy" /\ todo[l] = {} /\ UNCHANGED <<data, content, removing, unsure>>
      BY <1>5 DEF Copied
    <3>2. \A u \in Volumes \ unsure : Fills(l, u) /\ u \notin removing =>
              \A f \in Regular : content[data[u]][f] # "none"
      BY <1>0, <3>1 DEF SeedInv
    <3>. QED
      BY <1>0, <2>m, <3>1, <3>2 DEF DataInv
  <2>7. BoundInv'
    BY <1>0, <1>5 DEF Copied, BoundInv
  <2>8. WrittenStays
    BY <1>5 DEF Copied, WrittenStays
  <2>. QED
    BY <2>1, <2>2, <2>3, <2>4, <2>5, <2>6, <2>7, <2>8 DEF Inv
<1>6. ASSUME NEW l \in Launches, Bind(l) PROVE Goal
  <2>v. \A m \in Launches \ {l} : vol'[m] = vol[m] /\ Vol(m)' = Vol(m)
    BY <1>6, <1>t DEF Bind, Vol
  <2>m. /\ \A m \in Launches, u \in Volumes : At(m, u)' <=> At(m, u) /\ m # l
        /\ \A m \in Launches, u \in Volumes : Fills(m, u)' <=> Fills(m, u) /\ m # l
    BY <1>6, <1>t, <2>v DEF Bind, At, Fills
  <2>1. TypeOK'
    <3>1. vol[l] < Len(Uses[l]) /\ vol[l] \in Nat /\ Len(Uses[l]) \in Nat
      BY <1>0, <1>t, <1>6 DEF Bind, VolInv
    <3>2. vol' = [vol EXCEPT ![l] = vol[l] + 1] /\ vol' \in [Launches -> Nat]
      BY <1>t, <1>6, <3>1 DEF Bind
    <3>3. \A m \in Launches : vol'[m] <= Len(Uses[m])
      BY <1>0, <1>t, <3>1, <3>2 DEF TypeOK
    <3>4. bound' \in [Launches -> [Volumes -> Inodes]] /\ at' \in [Launches -> Places]
      BY <1>t, <1>x, <1>6 DEF Bind, Places
    <3>. QED
      BY <1>0, <1>6, <3>2, <3>3, <3>4 DEF Bind, TypeOK
  <2>2. InodeInv'
    <3>. PICK v : v = Vol(l)
      OBVIOUS
    <3>1. v \in Volumes /\ data[v] # 0 /\ data[v] <= inodes /\ UNCHANGED <<data, inodes, content>>
      BY <1>0, <1>x, <1>6 DEF Bind, TypeOK
    <3>2. \A m \in Launches, u \in Volumes :
              bound'[m][u] = IF m = l /\ u = v THEN data[v] ELSE bound[m][u]
      BY <1>t, <1>6, <3>1 DEF Bind
    <3>3. \A m \in Launches, u \in Volumes : bound'[m][u] <= inodes
      BY <1>0, <3>1, <3>2 DEF InodeInv
    <3>4. \A m \in Launches, u, w \in Volumes : data[u] # 0 /\ bound'[m][w] = data[u] => u = w
      BY <1>0, <3>1, <3>2 DEF InodeInv
    <3>5. \A k, m \in Launches, u, w \in Volumes :
              bound'[k][w] # 0 /\ bound'[k][w] = bound'[m][u] => u = w
      BY <1>0, <3>1, <3>2 DEF InodeInv
    <3>. QED
      BY <1>0, <3>1, <3>3, <3>4, <3>5 DEF InodeInv
  <2>3. VolInv'
    BY <1>0, <1>t, <1>6 DEF Bind, VolInv
  <2>4. SeedInv'
    BY <1>0, <1>6, <2>m DEF Bind, SeedInv, At, Fills
  <2>5. EvictInv'
    BY <1>0, <1>6, <2>m DEF Bind, EvictInv, At
  <2>6. DataInv'
    <3>1. UNCHANGED <<data, content, removing, unsure>> /\ \A u \in Volumes : ~Fills(l, u)
      BY <1>6 DEF Bind, Fills
    <3>. QED
      BY <1>0, <2>m, <3>1 DEF DataInv
  <2>7. BoundInv'
    BY <1>0, <1>6 DEF Bind, BoundInv, SeedInv, DataInv, EvictInv, At, Fills
  <2>8. WrittenStays
    BY <1>6 DEF Bind, WrittenStays
  <2>. QED
    BY <2>1, <2>2, <2>3, <2>4, <2>5, <2>6, <2>7, <2>8 DEF Inv
<1>7. ASSUME NEW l \in Launches, Run(l) PROVE Goal
  <2>v. UNCHANGED vol /\ \A m \in Launches : Vol(m)' = Vol(m)
    BY <1>7 DEF Run, Vol
  <2>m. /\ \A m \in Launches, u \in Volumes : At(m, u)' <=> At(m, u)
        /\ \A m \in Launches, u \in Volumes : Fills(m, u)' <=> Fills(m, u)
    BY <1>7, <1>t, <2>v DEF Run, At, Fills
  <2>1. TypeOK'
    BY <1>0, <1>7 DEF Run, TypeOK, Places, Inodes
  <2>2. InodeInv'
    BY <1>0, <1>7 DEF Run, InodeInv
  <2>3. VolInv'
    BY <1>0, <1>7 DEF Run, VolInv
  <2>4. SeedInv'
    BY <1>0, <1>7, <2>m DEF Run, SeedInv
  <2>5. EvictInv'
    BY <1>0, <1>7, <2>m DEF Run, EvictInv
  <2>6. DataInv'
    BY <1>0, <1>7, <2>m DEF Run, DataInv
  <2>7. BoundInv'
    BY <1>0, <1>7 DEF Run, BoundInv
  <2>8. WrittenStays
    BY <1>7 DEF Run, WrittenStays
  <2>. QED
    BY <2>1, <2>2, <2>3, <2>4, <2>5, <2>6, <2>7, <2>8 DEF Inv
<1>8. ASSUME NEW l \in Launches, Fails(l) PROVE Goal
  <2>v. \A m \in Launches \ {l} : vol'[m] = vol[m] /\ Vol(m)' = Vol(m)
    BY <1>8, <1>t DEF Fails, Gone, Nothing, Vol
  <2>m. /\ \A m \in Launches, u \in Volumes : At(m, u)' <=> At(m, u) /\ m # l
        /\ \A m \in Launches, u \in Volumes : Fills(m, u)' <=> Fills(m, u) /\ m # l
    BY <1>8, <1>t, <2>v DEF Fails, Gone, Nothing, At, Fills
  <2>1. TypeOK'
    <3>1. /\ vol' \in [Launches -> Nat] /\ \A m \in Launches : vol'[m] <= Len(Uses[m])
      <4>1. Len(Uses[l]) \in Nat
        BY <1>t
      <4>. QED
        BY <1>0, <1>t, <1>8, <4>1 DEF Fails, Gone, TypeOK
    <3>2. unsure' \subseteq Volumes /\ evicted' \subseteq Launches
      BY <1>0, <1>x, <1>t, <1>8 DEF Fails, Gone, TypeOK
    <3>3. /\ at' \in [Launches -> Places] /\ todo' \in [Launches -> SUBSET ImageFiles]
          /\ bound' \in [Launches -> [Volumes -> Inodes]]
      BY <1>t, <1>8 DEF Fails, Gone, Places, Nothing, Inodes
    <3>. QED
      BY <1>0, <1>8, <3>1, <3>2, <3>3 DEF Fails, TypeOK
  <2>2. InodeInv'
    <3>1. \A m \in Launches, u \in Volumes : bound'[m][u] = IF m = l THEN 0 ELSE bound[m][u]
      BY <1>t, <1>8 DEF Fails, Gone, Nothing
    <3>2. UNCHANGED <<data, inodes, content>> /\ 0 <= inodes
      BY <1>t, <1>8 DEF Fails, Inodes
    <3>. QED
      BY <1>0, <3>1, <3>2, SMTT(30) DEF InodeInv
  <2>3. VolInv'
    BY <1>0, <1>t, <1>8 DEF Fails, Gone, Nothing, VolInv
  <2>4. SeedInv'
    BY <1>0, <1>8, <2>m DEF Fails, Gone, Nothing, SeedInv, Fills
  <2>5. EvictInv'
    BY <1>0, <1>t, <1>8, <2>m DEF Fails, Gone, Nothing, EvictInv
  <2>6. DataInv'
    <3>1. UNCHANGED <<data, content, removing>> /\ unsure \subseteq unsure'
          /\ \A u \in Volumes : Fills(l, u) => u \in unsure'
      BY <1>8 DEF Fails, Fills
    <3>. QED
      BY <1>0, <2>m, <3>1 DEF DataInv
  <2>7. BoundInv'
    BY <1>0, <1>t, <1>8 DEF Fails, Gone, Nothing, BoundInv
  <2>8. WrittenStays
    BY <1>8 DEF Fails, Gone, Nothing, WrittenStays
  <2>. QED
    BY <2>1, <2>2, <2>3, <2>4, <2>5, <2>6, <2>7, <2>8 DEF Inv
<1>9. ASSUME NEW l \in Launches, Exit(l) PROVE Goal
  <2>v. \A m \in Launches \ {l} : vol'[m] = vol[m] /\ Vol(m)' = Vol(m)
    BY <1>9, <1>t DEF Exit, Gone, Nothing, Vol
  <2>m. /\ \A m \in Launches, u \in Volumes : At(m, u)' <=> At(m, u) /\ m # l
        /\ \A m \in Launches, u \in Volumes : Fills(m, u)' <=> Fills(m, u) /\ m # l
    BY <1>9, <1>t, <2>v DEF Exit, Gone, Nothing, At, Fills
  <2>1. TypeOK'
    BY <1>0, <1>9 DEF Exit, Gone, Nothing, TypeOK, Places, Inodes
  <2>2. InodeInv'
    <3>1. \A m \in Launches, u \in Volumes : bound'[m][u] = IF m = l THEN 0 ELSE bound[m][u]
      BY <1>t, <1>9 DEF Exit, Gone, Nothing
    <3>2. UNCHANGED <<data, inodes, content>> /\ 0 <= inodes
      BY <1>t, <1>9 DEF Exit, Inodes
    <3>. QED
      BY <1>0, <3>1, <3>2, SMTT(30) DEF InodeInv
  <2>3. VolInv'
    BY <1>0, <1>9 DEF Exit, Gone, Nothing, VolInv
  <2>4. SeedInv'
    BY <1>0, <1>9, <2>m DEF Exit, Gone, Nothing, SeedInv, Fills
  <2>5. EvictInv'
    BY <1>0, <1>t, <1>9, <2>m DEF Exit, Gone, Nothing, EvictInv
  <2>6. DataInv'
    <3>1. UNCHANGED <<data, content, removing, unsure>> /\ \A u \in Volumes : ~Fills(l, u)
      BY <1>9 DEF Exit, Fills
    <3>. QED
      BY <1>0, <2>m, <3>1 DEF DataInv
  <2>7. BoundInv'
    BY <1>0, <1>t, <1>9 DEF Exit, Gone, Nothing, BoundInv
  <2>8. WrittenStays
    BY <1>9 DEF Exit, Gone, Nothing, WrittenStays
  <2>. QED
    BY <2>1, <2>2, <2>3, <2>4, <2>5, <2>6, <2>7, <2>8 DEF Inv
<1>10. ASSUME NEW l \in Launches, NEW f \in ImageFiles, Copy(l, f) PROVE Goal
  <2>v. UNCHANGED vol /\ \A m \in Launches : Vol(m)' = Vol(m)
    BY <1>10 DEF Copy, Vol
  <2>m. /\ \A m \in Launches, u \in Volumes : At(m, u)' <=> At(m, u)
        /\ \A m \in Launches, u \in Volumes : Fills(m, u)' <=> Fills(m, u)
    BY <1>10, <1>t, <2>v DEF Copy, At, Fills
  <2>c. PICK v : v = Vol(l)
    OBVIOUS
  <2>d. /\ v \in Volumes /\ Fills(l, v) /\ at[l] = "copy" /\ f \in todo[l] /\ f \in Files
        /\ todo' = [todo EXCEPT ![l] = @ \ {f}] /\ data[v] \in Inodes
        /\ UNCHANGED <<made, data, inodes, at, vol, bound, removing, unsure, evicted>>
    BY <1>x, <1>t, <1>10, <2>c DEF Copy, Fills
  <2>e. /\ content' \in [Inodes -> [Files -> {"none", "image", "config", "written"}]]
        /\ \A i \in Inodes : i # data[v] => content'[i] = content[i]
        /\ \A i \in Inodes, g \in Files : content'[i][g] \in {content[i][g], "image"}
        /\ f \in Regular => data[v] # 0 /\ content'[data[v]][f] = "image"
    <3>1. CASE f \in Regular
      <4>1. data[v] # 0 /\ content' = [content EXCEPT ![data[v]][f] = "image"]
        BY <1>10, <2>c, <3>1 DEF Copy
      <4>. QED
        BY <1>t, <2>d, <4>1
    <3>2. CASE f \notin Regular
      BY <1>t, <1>10, <3>2 DEF Copy
    <3>. QED
      BY <3>1, <3>2
  <2>f. \A i \in Inodes, g \in Files :
            /\ content[i][g] # "written" => content'[i][g] # "written"
            /\ content'[i][g] = "none" => content[i][g] = "none"
            /\ content'[i][g] = "config" => content[i][g] = "config"
    BY <2>e
  <2>1. TypeOK'
    BY <1>0, <1>t, <2>d, <2>e DEF TypeOK
  <2>2. InodeInv'
    <3>1. \A i \in Inodes : i > inodes => content'[i] = content[i]
      <4>1. data[v] # 0 => data[v] <= inodes
        BY <1>0, <2>d DEF TypeOK
      <4>2. f \notin Regular => content' = content
        BY <1>10 DEF Copy
      <4>. QED
        BY <1>t, <2>d, <2>e, <4>1, <4>2 DEF Inodes
    <3>2. \A i \in Inodes, g \in Files : content'[i][g] = "config" => g = Config
      BY <1>0, <2>f DEF InodeInv
    <3>. QED
      BY <1>0, <2>d, <3>1, <3>2, SMTT(30) DEF InodeInv
  <2>3. VolInv'
    BY <1>0, <1>10 DEF Copy, VolInv
  <2>4. SeedInv'
    <3>1. \A m \in Launches, u \in Volumes : Fills(m, u)' => Fills(m, u) /\ at'[m] = at[m]
      BY <2>d, <2>m
    <3>2. \A m \in Launches : todo'[m] \subseteq todo[m] /\ (m # l => todo'[m] = todo[m])
      BY <1>t, <2>d
    <3>3. \A u \in Volumes, g \in Files :
              /\ content[data[u]][g] # "written" => content'[data[u]][g] # "written"
              /\ content[data[u]][g] # "none" => content'[data[u]][g] # "none"
      BY <1>t, <2>d, <2>f
    <3>4. \A g \in Regular \ todo'[l] : g \notin todo[l] \/ (g = f /\ f \in Regular)
      BY <1>t, <2>d
    <3>5. \A u \in Volumes : Fills(l, u) => u = v
      BY <2>c DEF Fills
    <3>. QED
      BY <1>0, <1>t, <2>d, <2>e, <2>m, <3>1, <3>2, <3>3, <3>4, <3>5 DEF SeedInv
  <2>5. EvictInv'
    BY <1>0, <2>d, <2>m DEF EvictInv
  <2>6. DataInv'
    BY <1>0, <1>t, <2>d, <2>f, <2>m DEF DataInv
  <2>7. BoundInv'
    BY <1>0, <1>t, <2>d, <2>f DEF BoundInv
  <2>8. WrittenStays
    <3>1. v \notin unsure => \A g \in Files : content[data[v]][g] # "written"
      BY <1>0, <2>d DEF SeedInv
    <3>2. \A u \in Volumes : u # v /\ data[u] # 0 => data[u] # data[v]
      BY <1>0, <2>d DEF InodeInv
    <3>. QED
      BY <1>t, <2>d, <2>e, <3>1, <3>2 DEF WrittenStays
  <2>. QED
    BY <2>1, <2>2, <2>3, <2>4, <2>5, <2>6, <2>7, <2>8 DEF Inv
<1>11. ASSUME NEW l \in Launches, NEW v \in Volumes, NEW f \in Files, Write(l, v, f) PROVE Goal
  <2>v. UNCHANGED vol /\ \A m \in Launches : Vol(m)' = Vol(m)
    BY <1>11 DEF Write, Vol
  <2>m. /\ \A m \in Launches, u \in Volumes : At(m, u)' <=> At(m, u)
        /\ \A m \in Launches, u \in Volumes : Fills(m, u)' <=> Fills(m, u)
    BY <1>11, <1>t, <2>v DEF Write, At, Fills
  <2>1. TypeOK'
    BY <1>0, <1>11 DEF Write, TypeOK, Places, Inodes
  <2>2. InodeInv'
    <3>1. bound[l][v] \in Inodes /\ bound[l][v] <= inodes /\ UNCHANGED <<data, bound, inodes>>
      BY <1>0, <1>t, <1>11 DEF Write, InodeInv
    <3>2. \A i \in Inodes : i > inodes => content'[i] = content[i]
      BY <1>t, <1>11, <3>1 DEF Write, Inodes
    <3>3. \A i \in Inodes, g \in Files : content'[i][g] \in {content[i][g], "written"}
      BY <1>t, <1>11, <3>1 DEF Write
    <3>4. \A i \in Inodes, g \in Files : content'[i][g] = "config" => g = Config
      BY <1>0, <3>3 DEF InodeInv
    <3>. QED
      BY <1>0, <3>1, <3>2, <3>4 DEF InodeInv
  <2>3. VolInv'
    BY <1>0, <1>11 DEF Write, VolInv
  <2>4. SeedInv'
    BY <1>0, <1>11, <2>m DEF Write, SeedInv, InodeInv, Fills
  <2>5. EvictInv'
    BY <1>0, <1>11, <2>m DEF Write, EvictInv
  <2>6. DataInv'
    BY <1>0, <1>11, <2>m DEF Write, DataInv
  <2>7. BoundInv'
    BY <1>0, <1>11 DEF Write, BoundInv
  <2>8. WrittenStays
    BY <1>11 DEF Write, WrittenStays
  <2>. QED
    BY <2>1, <2>2, <2>3, <2>4, <2>5, <2>6, <2>7, <2>8 DEF Inv
<1>12. ASSUME NEW v \in Volumes, Create(v) PROVE Goal
  <2>v. UNCHANGED vol /\ \A m \in Launches : Vol(m)' = Vol(m)
    BY <1>12 DEF Create, Vol
  <2>m. /\ \A m \in Launches, u \in Volumes : At(m, u)' <=> At(m, u)
        /\ \A m \in Launches, u \in Volumes : Fills(m, u)' <=> Fills(m, u)
    BY <1>12, <1>t, <2>v DEF Create, At, Fills
  <2>1. TypeOK'
    BY <1>0, <1>12 DEF Create, TypeOK, Places, Inodes
  <2>2. InodeInv'
    BY <1>0, <1>12 DEF Create, InodeInv
  <2>3. VolInv'
    BY <1>0, <1>12 DEF Create, VolInv
  <2>4. SeedInv'
    BY <1>0, <1>12, <2>m DEF Create, SeedInv
  <2>5. EvictInv'
    BY <1>0, <1>12, <2>m DEF Create, EvictInv
  <2>6. DataInv'
    BY <1>0, <1>12, <2>m DEF Create, DataInv
  <2>7. BoundInv'
    BY <1>0, <1>12 DEF Create, BoundInv
  <2>8. WrittenStays
    BY <1>12 DEF Create, WrittenStays
  <2>. QED
    BY <2>1, <2>2, <2>3, <2>4, <2>5, <2>6, <2>7, <2>8 DEF Inv
<1>13. ASSUME NEW v \in Volumes, RemoveFiles(v) PROVE Goal
  <2>v. UNCHANGED vol /\ \A m \in Launches : Vol(m)' = Vol(m)
    BY <1>13 DEF RemoveFiles, Vol
  <2>m. /\ \A m \in Launches, u \in Volumes : At(m, u)' <=> At(m, u)
        /\ \A m \in Launches, u \in Volumes : Fills(m, u)' <=> Fills(m, u)
    BY <1>13, <1>t, <2>v DEF RemoveFiles, At, Fills
  <2>1. TypeOK'
    <3>1. Empty \in [Files -> {"none", "image", "config", "written"}] /\ data[v] \in Inodes
      BY <1>t DEF Empty
    <3>2. content' \in [Inodes -> [Files -> {"none", "image", "config", "written"}]]
      BY <1>t, <1>13, <3>1 DEF RemoveFiles
    <3>3. /\ removing' \subseteq made /\ evicted' \subseteq Launches
          /\ UNCHANGED <<made, data, inodes, at, vol, todo, bound, unsure>>
      BY <1>0, <1>13 DEF RemoveFiles, TypeOK
    <3>. QED
      BY <1>0, <3>2, <3>3 DEF TypeOK
  <2>2. InodeInv'
    <3>1. UNCHANGED <<data, inodes, bound>>
      BY <1>13 DEF RemoveFiles
    <3>2. \A i \in Inodes : content'[i] \in {content[i], Empty}
      BY <1>t, <1>13 DEF RemoveFiles
    <3>3. \A g \in Files : Empty[g] # "config"
      BY DEF Empty
    <3>4. \A i \in Inodes, g \in Files : content'[i][g] = "config" => g = Config
      BY <1>0, <3>2, <3>3 DEF InodeInv
    <3>5. \A i \in Inodes : i > inodes => content'[i] = Empty
      BY <1>0, <3>2 DEF InodeInv
    <3>. QED
      BY <1>0, <3>1, <3>4, <3>5 DEF InodeInv
  <2>3. VolInv'
    BY <1>0, <1>13 DEF RemoveFiles, VolInv
  <2>4. SeedInv'
    BY <1>0, <1>t, <1>13, <2>m DEF RemoveFiles, SeedInv, InodeInv, Empty, Fills
  <2>5. EvictInv'
    BY <1>0, <1>w, <1>13, <2>m DEF RemoveFiles, EvictInv
  <2>6. DataInv'
    BY <1>0, <1>t, <1>13, <2>m DEF RemoveFiles, DataInv, InodeInv
  <2>7. BoundInv'
    BY <1>0, <1>t, <1>13 DEF RemoveFiles, BoundInv, InodeInv
  <2>8. WrittenStays
    BY <1>0, <1>t, <1>13 DEF RemoveFiles, WrittenStays, InodeInv
  <2>. QED
    BY <2>1, <2>2, <2>3, <2>4, <2>5, <2>6, <2>7, <2>8 DEF Inv
<1>14. ASSUME NEW v \in Volumes, RemoveDirs(v) PROVE Goal
  <2>v. UNCHANGED vol /\ \A m \in Launches : Vol(m)' = Vol(m)
    BY <1>14 DEF RemoveDirs, Vol
  <2>m. /\ \A m \in Launches, u \in Volumes : At(m, u)' <=> At(m, u)
        /\ \A m \in Launches, u \in Volumes : Fills(m, u)' <=> Fills(m, u)
    BY <1>14, <1>t, <2>v DEF RemoveDirs, At, Fills
  <2>1. TypeOK'
    <3>1. UNCHANGED <<content, inodes, at, vol, todo, bound, evicted>>
      BY <1>14 DEF RemoveDirs
    <3>2. removing' = removing \ {v} /\ removing \subseteq made /\ made \subseteq Volumes
      BY <1>0, <1>14 DEF RemoveDirs, TypeOK
    <3>3. CASE UNCHANGED <<made, data>>
      <4>1. unsure' \subseteq Volumes /\ removing' \subseteq made
        BY <1>t, <1>14, <3>2 DEF RemoveDirs
      <4>. QED
        BY <1>0, <3>1, <3>2, <3>3, <4>1 DEF TypeOK
    <3>4. CASE made' = made \ {v} /\ data' = [data EXCEPT ![v] = 0]
      <4>1. unsure' \subseteq Volumes
        BY <1>t, <1>14, <3>2 DEF RemoveDirs
      <4>2. /\ data' \in [Volumes -> Inodes] /\ data'[v] = 0
            /\ \A u \in Volumes \ {v} : data'[u] = data[u]
        BY <1>t, <3>4 DEF Inodes
      <4>3. removing' \subseteq made' /\ made' \subseteq Volumes
        BY <3>2, <3>4
      <4>4. \A u \in Volumes : data'[u] # 0 => u \in made' /\ data'[u] <= inodes
        BY <1>0, <3>4, <4>2 DEF TypeOK
      <4>. QED
        BY <1>0, <3>1, <4>1, <4>2, <4>3, <4>4 DEF TypeOK
    <3>. QED
      BY <1>14, <3>3, <3>4 DEF RemoveDirs
  <2>2. InodeInv'
    <3>1. \A u \in Volumes : data'[u] \in {0, data[u]}
      BY <1>t, <1>14 DEF RemoveDirs
    <3>2. UNCHANGED <<content, inodes, bound>>
      BY <1>14 DEF RemoveDirs
    <3>. QED
      BY <1>0, <3>1, <3>2 DEF InodeInv
  <2>3. VolInv'
    BY <1>0, <1>14 DEF RemoveDirs, VolInv
  <2>4. SeedInv'
    BY <1>0, <1>w, <1>t, <1>14, <2>m DEF RemoveDirs, SeedInv
  <2>5. EvictInv'
    BY <1>0, <1>14, <2>m DEF RemoveDirs, EvictInv
  <2>6. DataInv'
    BY <1>0, <1>t, <1>14, <2>m DEF RemoveDirs, DataInv
  <2>7. BoundInv'
    BY <1>0, <1>14 DEF RemoveDirs, BoundInv, EvictInv
  <2>8. WrittenStays
    BY <1>14 DEF RemoveDirs, WrittenStays
  <2>. QED
    BY <2>1, <2>2, <2>3, <2>4, <2>5, <2>6, <2>7, <2>8 DEF Inv
<1>15. ASSUME NEW l \in Launches, WriteConfig(l) PROVE Goal
  <2>v. UNCHANGED vol /\ \A m \in Launches : Vol(m)' = Vol(m)
    BY <1>15 DEF WriteConfig, Vol
  <2>m. /\ \A m \in Launches, u \in Volumes : At(m, u)' <=> At(m, u)
        /\ \A m \in Launches, u \in Volumes : Fills(m, u)' <=> Fills(m, u) /\ m # l
    BY <1>15, <1>t, <2>v DEF WriteConfig, At, Fills
  <2>c. PICK v : v = Vol(l)
    OBVIOUS
  <2>d. /\ v \in Volumes /\ Fills(l, v) /\ at[l] = "config" /\ data[v] # 0
        /\ content' = [content EXCEPT ![data[v]][Config] = "config"]
        /\ at' = [at EXCEPT ![l] = "bind"]
        /\ UNCHANGED <<made, data, inodes, vol, todo, bound, removing, unsure, evicted>>
    BY <1>x, <1>15, <2>c DEF WriteConfig, Fills
  <2>e. /\ data[v] \in Inodes
        /\ \A i \in Inodes, f \in Files :
              content'[i][f] = IF i = data[v] /\ f = Config THEN "config" ELSE content[i][f]
        /\ \A i \in Inodes : i # data[v] => content'[i] = content[i]
    BY <1>t, <2>d
  <2>1. TypeOK'
    <3>1. /\ content' \in [Inodes -> [Files -> {"none", "image", "config", "written"}]]
          /\ at' \in [Launches -> Places]
      BY <1>t, <2>d, <2>e DEF Places
    <3>. QED
      BY <1>0, <2>d, <3>1 DEF TypeOK
  <2>2. InodeInv'
    <3>1. \A i \in Inodes : i > inodes => content'[i] = content[i]
      BY <1>0, <1>t, <2>d, <2>e DEF TypeOK, Inodes
    <3>2. \A i \in Inodes, f \in Files : content'[i][f] = "config" => f = Config
      BY <1>0, <2>e DEF InodeInv
    <3>. QED
      BY <1>0, <2>d, <3>1, <3>2 DEF InodeInv
  <2>3. VolInv'
    BY <1>0, <1>15 DEF WriteConfig, VolInv
  <2>4. SeedInv'
    <3>1. \A m \in Launches, u \in Volumes : Fills(m, u)' => Fills(m, u) /\ m # l /\ at'[m] = at[m]
      BY <1>t, <2>d, <2>m
    <3>2. \A u \in Volumes, f \in Files :
              /\ content[data[u]][f] # "written" => content'[data[u]][f] # "written"
              /\ content[data[u]][f] # "none" => content'[data[u]][f] # "none"
      BY <1>t, <2>e
    <3>. QED
      BY <1>0, <1>t, <2>d, <2>m, <3>1, <3>2 DEF SeedInv
  <2>5. EvictInv'
    BY <1>0, <2>d, <2>m DEF EvictInv
  <2>6. DataInv'
    <3>1. \A u \in Volumes \ unsure : Fills(l, u) /\ u \notin removing =>
              \A f \in Regular : content[data[u]][f] # "none"
      BY <1>0, <2>d DEF SeedInv
    <3>2. \A u \in Volumes, f \in Files :
              content'[data[u]][f] = "none" => content[data[u]][f] = "none"
      BY <1>t, <2>e
    <3>. QED
      BY <1>0, <1>t, <2>d, <2>m, <3>1, <3>2 DEF DataInv
  <2>7. BoundInv'
    <3>1. \A m \in Launches, u \in Volumes, f \in Files :
              content'[bound[m][u]][f] = "none" => content[bound[m][u]][f] = "none"
      <4>. TAKE m \in Launches, u \in Volumes, f \in Files
      <4>1. bound[m][u] \in Inodes
        BY <1>t
      <4>2. content'[bound[m][u]][f] \in {"config", content[bound[m][u]][f]}
        BY <2>e, <4>1
      <4>. QED
        BY <4>2
    <3>. QED
      BY <1>0, <1>t, <2>d, <3>1, SMTT(30) DEF BoundInv
  <2>8. WrittenStays
    <3>1. v \notin unsure => \A f \in Files : content[data[v]][f] # "written"
      BY <1>0, <2>d DEF SeedInv
    <3>2. \A u \in Volumes : u # v /\ data[u] # 0 => data[u] # data[v]
      BY <1>0, <2>d DEF InodeInv
    <3>. QED
      BY <1>t, <2>d, <2>e, <3>1, <3>2 DEF WrittenStays
  <2>. QED
    BY <2>1, <2>2, <2>3, <2>4, <2>5, <2>6, <2>7, <2>8 DEF Inv
<1>16. CASE UNCHANGED vars
  BY <1>16 DEF vars, Inv, TypeOK, InodeInv, VolInv, SeedInv, EvictInv, DataInv, BoundInv, At,
     Fills, Vol
<1>. QED
  BY <1>1, <1>2, <1>3, <1>4, <1>5, <1>6, <1>7, <1>8, <1>9, <1>10, <1>11, <1>12, <1>13, <1>14,
     <1>15, <1>16 DEF Next

LEMMA InvAlways == Spec => []Inv
  BY InitInv, NextInv, PTL DEF Spec

-----------------------------------------------------------------------------
(* Volumes, directories, launches and mounts keep their types, and every
   _data is in the directory of its volume.                                *)
THEOREM VolumesTypeCorrect == Spec => []TypeOK
<1>1. Inv => TypeOK
  BY DEF Inv
<1>. QED
  BY InvAlways, <1>1, PTL

(* A container finds in its volumes every regular file of the image at the
   mount points, from the image or as a container has written it, with the
   volume's own config.json in place of one of that name, unless a first
   use of the volume broke off or met another use, or the volume was
   removed under the container.                                            *)
THEOREM SeedsAreWhole == Spec => []SeedIsWhole
<1>1. ASSUME Inv PROVE SeedIsWhole
  <2>1. \A l \in Launches, v \in Volumes, f \in Regular :
            /\ content[bound[l][v]][f] \in {"none", "image", "config", "written"}
            /\ content[bound[l][v]][f] = "config" => f = Config
    BY <1>1, VolumeConstants DEF Inv, TypeOK, InodeInv, Files
  <2>. QED
    BY <1>1, <2>1 DEF Inv, BoundInv, SeedIsWhole
<1>. QED
  BY InvAlways, <1>1, PTL

(* No launch overwrites what a container has written to a volume, however
   launches, containers, create and remove interleave, unless a first use
   of the volume broke off or met another use.                             *)
THEOREM WritesStay == Spec => WritesSurvive
<1>1. Inv /\ [Next]_vars => [WrittenStays]_vars
  BY NextInv
<1>. QED
  BY InvAlways, <1>1, PTL DEF Spec, WritesSurvive
=============================================================================
