---------------------------- MODULE PersistSync ----------------------------
(***************************************************************************)
(* Ipam::persist_sync (engine/runtime/network.rs), system call by system   *)
(* call: open ipam.tmp with O_CREAT|O_TRUNC, write_all, sync_all, rename   *)
(* to ipam.json.  The file system under it is external: names point to     *)
(* inodes, the page cache reaches the disk when the kernel likes, and a    *)
(* power failure leaves what the disk holds.                               *)
(***************************************************************************)
EXTENDS FiniteSets

CONSTANTS Writers,    \* engine processes that persist an address database
          Values,     \* serialized states
          NoValue,
          Inodes,     \* inodes of the file system
          NoInode

ASSUME PersistConstants == /\ NoInode \notin Inodes
                           /\ NoValue \notin Values
                           /\ {"empty", "torn"} \cap Values = {}

VARIABLES
    dir,       \* the names "tmp" and "json" as processes see them
    content,   \* the contents of each inode as processes see them
    diskDir,   \* the names on disk
    disk,      \* the contents of each inode on disk
    pc,        \* where each writer is in persist_sync
    fd,        \* the inode behind each writer's open file
    val,       \* the state each writer serializes
    alone      \* history: have no two calls overlapped so far?

vars == <<dir, content, diskDir, disk, pc, fd, val, alone>>

Names    == {"tmp", "json"}
Contents == Values \cup {"empty", "torn"}
PC       == {"idle", "opened", "written", "synced", "ok", "err"}

TypeOK == /\ dir \in [Names -> Inodes \cup {NoInode}]
          /\ content \in [Inodes -> Contents]
          /\ diskDir \in [Names -> Inodes \cup {NoInode}]
          /\ disk \in [Inodes -> Contents]
          /\ pc \in [Writers -> PC]
          /\ fd \in [Writers -> Inodes \cup {NoInode}]
          /\ val \in [Writers -> Values \cup {NoValue}]
          /\ \A w \in Writers : pc[w] \in {"opened", "written", "synced"} =>
                fd[w] \in Inodes /\ val[w] \in Values
          /\ alone \in BOOLEAN

NoNames == [n \in Names |-> NoInode]

Init == /\ dir = NoNames
        /\ content = [i \in Inodes |-> "empty"]
        /\ diskDir = NoNames
        /\ disk = [i \in Inodes |-> "empty"]
        /\ pc = [w \in Writers |-> "idle"]
        /\ fd = [w \in Writers |-> NoInode]
        /\ val = [w \in Writers |-> NoValue]
        /\ alone = TRUE

Goto(w, l) == pc' = [pc EXCEPT ![w] = l]

\* An inode is reused only when no name, on disk or not, and no open file
\* refers to it.
FreeInodes == {i \in Inodes : /\ \A n \in Names : dir[n] # i /\ diskDir[n] # i
                              /\ \A w \in Writers : fd[w] # i}

-----------------------------------------------------------------------------
(* persist_sync *)

\* open(ipam.tmp): a file left by somebody else is truncated.
OpenTmp(w, v) ==
    /\ pc[w] = "idle"
    /\ alone' = (alone /\ \A u \in Writers : pc[u] = "idle")
    /\ \E i \in IF dir["tmp"] = NoInode THEN FreeInodes ELSE {dir["tmp"]} :
          /\ dir' = [dir EXCEPT !["tmp"] = i]
          /\ content' = [content EXCEPT ![i] = "empty"]
          /\ disk' = IF i \in FreeInodes THEN [disk EXCEPT ![i] = "empty"] ELSE disk
          /\ fd' = [fd EXCEPT ![w] = i]
    /\ val' = [val EXCEPT ![w] = v]
    /\ Goto(w, "opened")
    /\ UNCHANGED diskDir

\* write_all from offset 0.  Over the bytes of another writer the result is
\* this state only if it is the longer one.
WriteAll(w) ==
    /\ pc[w] = "opened"
    /\ \E c \in {val[w]} \cup (IF content[fd[w]] = "empty" THEN {} ELSE {"torn"}) :
          content' = [content EXCEPT ![fd[w]] = c]
    /\ Goto(w, "written")
    /\ UNCHANGED <<dir, diskDir, disk, fd, val, alone>>

\* Mutant: the result of write_all is dropped.
WriteFailsUnseen(w) ==
    /\ pc[w] = "opened"
    /\ content' = [content EXCEPT ![fd[w]] = "torn"]
    /\ Goto(w, "written")
    /\ UNCHANGED <<dir, diskDir, disk, fd, val, alone>>

\* write_all fails half way (no space): persist_sync returns Err.
WriteFails(w) ==
    /\ pc[w] = "opened"
    /\ content' = [content EXCEPT ![fd[w]] = "torn"]
    /\ Goto(w, "err")
    /\ UNCHANGED <<dir, diskDir, disk, fd, val, alone>>

\* Mutant: no sync_all.
SyncNothing(w) ==
    /\ pc[w] = "written"
    /\ Goto(w, "synced")
    /\ UNCHANGED <<dir, content, diskDir, disk, fd, val, alone>>

SyncAll(w) ==
    /\ pc[w] = "written"
    /\ disk' = [disk EXCEPT ![fd[w]] = content[fd[w]]]
    /\ Goto(w, "synced")
    /\ UNCHANGED <<dir, content, diskDir, fd, val, alone>>

\* sync_all fails (an I/O error): persist_sync returns Err.  Some, all or none
\* of the bytes have reached the disk.
SyncFails(w) ==
    /\ pc[w] = "written"
    /\ \E c \in {disk[fd[w]], content[fd[w]], "torn"} : disk' = [disk EXCEPT ![fd[w]] = c]
    /\ Goto(w, "err")
    /\ UNCHANGED <<dir, content, diskDir, fd, val, alone>>

\* rename(ipam.tmp, ipam.json): by name, so it moves whatever ipam.tmp is.
Rename(w) ==
    /\ pc[w] = "synced"
    /\ dir["tmp"] # NoInode
    /\ dir' = [dir EXCEPT !["tmp"] = NoInode, !["json"] = dir["tmp"]]
    /\ Goto(w, "ok")
    /\ UNCHANGED <<content, diskDir, disk, fd, val, alone>>

\* Mutant: ipam.json is removed before the rename.
RenameAfterUnlink(w) ==
    /\ pc[w] = "synced"
    /\ dir["tmp"] = NoInode
    /\ dir' = NoNames
    /\ Goto(w, "err")
    /\ UNCHANGED <<content, diskDir, disk, fd, val, alone>>

\* Another writer has renamed ipam.tmp away (ENOENT), or an I/O error.
RenameFails(w) ==
    /\ pc[w] = "synced"
    /\ Goto(w, "err")
    /\ UNCHANGED <<dir, content, diskDir, disk, fd, val, alone>>

Forget(w) == /\ pc' = [pc EXCEPT ![w] = "idle"]
             /\ fd' = [fd EXCEPT ![w] = NoInode]
             /\ val' = [val EXCEPT ![w] = NoValue]

\* The file is closed and the call returns.
Return(w) ==
    /\ pc[w] \in {"ok", "err"}
    /\ Forget(w)
    /\ UNCHANGED <<dir, content, diskDir, disk, alone>>

\* The engine process is killed inside the call.
Kill(w) ==
    /\ pc[w] \in {"opened", "written", "synced"}
    /\ Forget(w)
    /\ UNCHANGED <<dir, content, diskDir, disk, alone>>

-----------------------------------------------------------------------------
(* The file system *)

\* The kernel writes back the dirty pages of an inode.
WriteBack(i) ==
    /\ i \notin FreeInodes
    /\ disk[i] # content[i]
    /\ disk' = [disk EXCEPT ![i] = content[i]]
    /\ UNCHANGED <<dir, content, diskDir, pc, fd, val, alone>>

\* The journal commits the directory.
CommitDir ==
    /\ diskDir # dir
    /\ diskDir' = dir
    /\ UNCHANGED <<dir, content, disk, pc, fd, val, alone>>

PowerFailure ==
    /\ dir' = diskDir
    /\ content' = disk
    /\ pc' = [w \in Writers |-> "idle"]
    /\ fd' = [w \in Writers |-> NoInode]
    /\ val' = [w \in Writers |-> NoValue]
    /\ UNCHANGED <<diskDir, disk, alone>>

-----------------------------------------------------------------------------
Next == \/ \E w \in Writers :
              \/ \E v \in Values : OpenTmp(w, v)
              \/ WriteAll(w)
              \/ WriteFails(w)
              \/ SyncAll(w)
              \/ SyncFails(w)
              \/ Rename(w)
              \/ RenameFails(w)
              \/ Return(w)
              \/ Kill(w)
        \/ \E i \in Inodes : WriteBack(i)
        \/ CommitDir
        \/ PowerFailure

Spec == Init /\ [][Next]_vars

-----------------------------------------------------------------------------
(* What a reader of ipam.json finds, now and after a power failure.        *)
Stored(names, bytes) ==
    IF names["json"] = NoInode THEN NoValue ELSE bytes[names["json"]]

(* However calls overlap, ipam.json exists once a call returned Ok, and a
   file that reached the disk is never unlinked again.                     *)
DatabaseStays ==
    (\E w \in Writers : pc[w] = "ok") \/ diskDir["json"] # NoInode
        => dir["json"] # NoInode

(* A persist_sync that returns Err has not touched ipam.json, and one that
   returns Ok and shared ipam.tmp with no other call has put its own state
   in place.                                                               *)
ResultIsTrue ==
    \A w \in Writers :
        /\ alone /\ pc[w] = "synced" /\ pc'[w] = "ok"
              => Stored(dir', content') = val[w]
        /\ alone /\ pc'[w] = "err" => Stored(dir', content') = Stored(dir, content)
ResultsAreTrue == [][ResultIsTrue]_vars

(* As long as no two calls have overlapped, ipam.json behaves as one register
   that is stored in one step and that a power failure can only take back to
   a state it really had on disk: every step is a step of AtomicFile.      *)
File == INSTANCE AtomicFile WITH current <- Stored(dir, content),
                                 durable <- Stored(diskDir, disk)
FileSteps == /\ File!Init
             /\ [][alone' => File!Next \/ UNCHANGED <<Stored(dir, content),
                                                     Stored(diskDir, disk)>>]_vars
=============================================================================
