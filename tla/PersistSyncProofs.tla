-------------------------- MODULE PersistSyncProofs --------------------------
(***************************************************************************)
(* Theorems about PersistSync for any number of writers, states and        *)
(* inodes, through kills and power failures: what persist_sync promises    *)
(* whatever overlaps, and that ipam.json is one atomic file as long as no  *)
(* two calls have overlapped.                                              *)
(***************************************************************************)
EXTENDS PersistSync, TLAPS

Json == {dir["json"], diskDir["json"]} \ {NoInode}

(* A call has ipam.tmp for itself and knows how far the state in it is.    *)
WriterInv ==
    /\ \A w, u \in Writers : pc[w] # "idle" /\ pc[u] # "idle" => w = u
    /\ \A w \in Writers :
          /\ pc[w] \in {"opened", "written", "synced"} => fd[w] = dir["tmp"]
          /\ pc[w] = "opened" => content[fd[w]] = "empty"
          /\ pc[w] \in {"written", "synced"} => content[fd[w]] = val[w]
          /\ pc[w] = "synced" => disk[fd[w]] = val[w]

(* What is, or was on disk, ipam.json is whole, is on disk, and is never the
   file that is written to.                                                *)
JsonInv ==
    /\ \A i \in Json : content[i] \in Values /\ disk[i] = content[i]
    /\ dir["tmp"] \notin Json
    /\ diskDir["tmp"] # NoInode => diskDir["tmp"] # diskDir["json"]

AloneInv == alone => WriterInv /\ JsonInv

Inv == TypeOK /\ DatabaseStays /\ AloneInv

LEMMA InitInv == Init => Inv
<1>. SUFFICES ASSUME Init PROVE Inv
  OBVIOUS
<1>. USE PersistConstants DEF Init, NoNames, Names
<1>1. TypeOK
  BY DEF TypeOK, Contents, PC
<1>2. DatabaseStays
  BY DEF DatabaseStays
<1>3. WriterInv /\ JsonInv
  BY DEF WriterInv, JsonInv, Json
<1>. QED
  BY <1>1, <1>2, <1>3 DEF Inv, AloneInv

-----------------------------------------------------------------------------
(* Every step keeps the invariant and, while no two calls have overlapped,
   is a step of AtomicFile or a stutter, with a result that is true.       *)
FileStep == alone' => File!Next \/ UNCHANGED <<Stored(dir, content), Stored(diskDir, disk)>>

LEMMA NextInv == Inv /\ [Next]_vars => Inv' /\ FileStep /\ (ResultIsTrue \/ UNCHANGED vars)
<1>. SUFFICES ASSUME Inv, [Next]_vars PROVE Inv' /\ FileStep /\ (ResultIsTrue \/ UNCHANGED vars)
  OBVIOUS
<1>. DEFINE Goal == Inv' /\ FileStep /\ ResultIsTrue
<1>. USE PersistConstants DEF Inv, TypeOK, Names, Contents, PC, Goto, Forget
<1>1. ASSUME NEW w \in Writers, NEW v \in Values, OpenTmp(w, v) PROVE Goal
  <2>1. TypeOK'
    BY <1>1 DEF OpenTmp, FreeInodes
  <2>2. DatabaseStays'
    BY <1>1 DEF OpenTmp, DatabaseStays
  <2>3. AloneInv'
    <3>. SUFFICES ASSUME alone' PROVE (WriterInv /\ JsonInv)'
      BY DEF AloneInv
    <3>1. WriterInv /\ JsonInv /\ \A u \in Writers : pc[u] = "idle"
      BY <1>1 DEF OpenTmp, AloneInv
    <3>2. PICK i \in IF dir["tmp"] = NoInode THEN FreeInodes ELSE {dir["tmp"]} :
              /\ dir' = [dir EXCEPT !["tmp"] = i]
              /\ content' = [content EXCEPT ![i] = "empty"]
              /\ disk' = IF i \in FreeInodes THEN [disk EXCEPT ![i] = "empty"] ELSE disk
              /\ fd' = [fd EXCEPT ![w] = i]
      BY <1>1 DEF OpenTmp
    <3>3. i \in Inodes /\ i \notin Json
      BY <3>1, <3>2 DEF FreeInodes, JsonInv, Json
    <3>4. UNCHANGED <<diskDir, Json>>
      BY <1>1, <3>2, <3>3 DEF OpenTmp, Json
    <3>5. WriterInv'
      BY <1>1, <3>1, <3>2, <3>3 DEF OpenTmp, WriterInv
    <3>6. \A j \in Json : j \in Inodes /\ content'[j] = content[j] /\ disk'[j] = disk[j]
      BY <3>2, <3>3 DEF Json
    <3>7. JsonInv'
      BY <3>1, <3>2, <3>3, <3>4, <3>6 DEF JsonInv
    <3>. QED
      BY <3>5, <3>7
  <2>4. FileStep
    BY <1>1 DEF OpenTmp, FreeInodes, AloneInv, WriterInv, JsonInv, Json, FileStep, Stored,
       File!Next,
       File!Flush, File!Lose, File!Store
  <2>5. ResultIsTrue
    BY <1>1 DEF OpenTmp, FreeInodes, AloneInv, WriterInv, JsonInv, Json, ResultIsTrue, Stored
  <2>. QED
    BY <2>1, <2>2, <2>3, <2>4, <2>5
<1>2. ASSUME NEW w \in Writers, WriteAll(w) PROVE Goal
  <2>1. TypeOK'
    BY <1>2 DEF WriteAll
  <2>2. DatabaseStays'
    BY <1>2 DEF WriteAll, DatabaseStays
  <2>3. AloneInv'
    BY <1>2 DEF WriteAll, AloneInv, WriterInv, JsonInv, Json
  <2>4. FileStep
    BY <1>2 DEF WriteAll, AloneInv, WriterInv, JsonInv, Json, FileStep, Stored, File!Next,
       File!Flush, File!Lose, File!Store
  <2>5. ResultIsTrue
    BY <1>2 DEF WriteAll, AloneInv, WriterInv, JsonInv, Json, ResultIsTrue, Stored
  <2>. QED
    BY <2>1, <2>2, <2>3, <2>4, <2>5
<1>3. ASSUME NEW w \in Writers, WriteFails(w) PROVE Goal
  <2>1. TypeOK'
    BY <1>3 DEF WriteFails
  <2>2. DatabaseStays'
    BY <1>3 DEF WriteFails, DatabaseStays
  <2>3. AloneInv'
    BY <1>3 DEF WriteFails, AloneInv, WriterInv, JsonInv, Json
  <2>4. FileStep
    BY <1>3 DEF WriteFails, AloneInv, WriterInv, JsonInv, Json, FileStep, Stored, File!Next,
       File!Flush, File!Lose, File!Store
  <2>5. ResultIsTrue
    BY <1>3 DEF WriteFails, AloneInv, WriterInv, JsonInv, Json, ResultIsTrue, Stored
  <2>. QED
    BY <2>1, <2>2, <2>3, <2>4, <2>5
<1>4. ASSUME NEW w \in Writers, SyncAll(w) PROVE Goal
  <2>1. TypeOK'
    BY <1>4 DEF SyncAll
  <2>2. DatabaseStays'
    BY <1>4 DEF SyncAll, DatabaseStays
  <2>3. AloneInv'
    BY <1>4 DEF SyncAll, AloneInv, WriterInv, JsonInv, Json
  <2>4. FileStep
    BY <1>4 DEF SyncAll, AloneInv, WriterInv, JsonInv, Json, FileStep, Stored, File!Next,
       File!Flush, File!Lose, File!Store
  <2>5. ResultIsTrue
    BY <1>4 DEF SyncAll, AloneInv, WriterInv, JsonInv, Json, ResultIsTrue, Stored
  <2>. QED
    BY <2>1, <2>2, <2>3, <2>4, <2>5
<1>13. ASSUME NEW w \in Writers, SyncFails(w) PROVE Goal
  <2>1. TypeOK'
    BY <1>13 DEF SyncFails
  <2>2. DatabaseStays'
    BY <1>13 DEF SyncFails, DatabaseStays
  <2>3. AloneInv'
    BY <1>13 DEF SyncFails, AloneInv, WriterInv, JsonInv, Json
  <2>4. FileStep
    BY <1>13 DEF SyncFails, AloneInv, WriterInv, JsonInv, Json, FileStep, Stored, File!Next,
       File!Flush, File!Lose, File!Store
  <2>5. ResultIsTrue
    BY <1>13 DEF SyncFails, AloneInv, WriterInv, JsonInv, Json, ResultIsTrue, Stored
  <2>. QED
    BY <2>1, <2>2, <2>3, <2>4, <2>5
<1>5. ASSUME NEW w \in Writers, Rename(w) PROVE Goal
  <2>1. TypeOK'
    BY <1>5 DEF Rename
  <2>2. DatabaseStays'
    BY <1>5 DEF Rename, DatabaseStays
  <2>3. AloneInv'
    BY <1>5 DEF Rename, AloneInv, WriterInv, JsonInv, Json
  <2>4. FileStep
    BY <1>5 DEF Rename, AloneInv, WriterInv, JsonInv, Json, FileStep, Stored, File!Next,
       File!Flush, File!Lose, File!Store
  <2>5. ResultIsTrue
    BY <1>5 DEF Rename, AloneInv, WriterInv, JsonInv, Json, ResultIsTrue, Stored
  <2>. QED
    BY <2>1, <2>2, <2>3, <2>4, <2>5
<1>6. ASSUME NEW w \in Writers, RenameFails(w) PROVE Goal
  <2>1. TypeOK'
    BY <1>6 DEF RenameFails
  <2>2. DatabaseStays'
    BY <1>6 DEF RenameFails, DatabaseStays
  <2>3. AloneInv'
    BY <1>6 DEF RenameFails, AloneInv, WriterInv, JsonInv, Json
  <2>4. FileStep
    BY <1>6 DEF RenameFails, AloneInv, WriterInv, JsonInv, Json, FileStep, Stored, File!Next,
       File!Flush, File!Lose, File!Store
  <2>5. ResultIsTrue
    BY <1>6 DEF RenameFails, AloneInv, WriterInv, JsonInv, Json, ResultIsTrue, Stored
  <2>. QED
    BY <2>1, <2>2, <2>3, <2>4, <2>5
<1>7. ASSUME NEW w \in Writers, Return(w) PROVE Goal
  <2>1. TypeOK'
    BY <1>7 DEF Return
  <2>2. DatabaseStays'
    BY <1>7 DEF Return, DatabaseStays
  <2>3. AloneInv'
    BY <1>7 DEF Return, AloneInv, WriterInv, JsonInv, Json
  <2>4. FileStep
    BY <1>7 DEF Return, AloneInv, WriterInv, JsonInv, Json, FileStep, Stored, File!Next,
       File!Flush, File!Lose, File!Store
  <2>5. ResultIsTrue
    BY <1>7 DEF Return, AloneInv, WriterInv, JsonInv, Json, ResultIsTrue, Stored
  <2>. QED
    BY <2>1, <2>2, <2>3, <2>4, <2>5
<1>8. ASSUME NEW w \in Writers, Kill(w) PROVE Goal
  <2>1. TypeOK'
    BY <1>8 DEF Kill
  <2>2. DatabaseStays'
    BY <1>8 DEF Kill, DatabaseStays
  <2>3. AloneInv'
    BY <1>8 DEF Kill, AloneInv, WriterInv, JsonInv, Json
  <2>4. FileStep
    BY <1>8 DEF Kill, AloneInv, WriterInv, JsonInv, Json, FileStep, Stored, File!Next,
       File!Flush, File!Lose, File!Store
  <2>5. ResultIsTrue
    BY <1>8 DEF Kill, AloneInv, WriterInv, JsonInv, Json, ResultIsTrue, Stored
  <2>. QED
    BY <2>1, <2>2, <2>3, <2>4, <2>5
<1>9. ASSUME NEW i \in Inodes, WriteBack(i) PROVE Goal
  <2>1. TypeOK'
    BY <1>9 DEF WriteBack
  <2>2. DatabaseStays'
    BY <1>9 DEF WriteBack, DatabaseStays
  <2>3. AloneInv'
    BY <1>9 DEF WriteBack, AloneInv, WriterInv, JsonInv, Json
  <2>4. FileStep
    BY <1>9 DEF WriteBack, AloneInv, WriterInv, JsonInv, Json, FileStep, Stored, File!Next,
       File!Flush, File!Lose, File!Store
  <2>5. ResultIsTrue
    BY <1>9 DEF WriteBack, AloneInv, WriterInv, JsonInv, Json, ResultIsTrue, Stored
  <2>. QED
    BY <2>1, <2>2, <2>3, <2>4, <2>5
<1>10. ASSUME CommitDir PROVE Goal
  <2>1. TypeOK'
    BY <1>10 DEF CommitDir
  <2>2. DatabaseStays'
    BY <1>10 DEF CommitDir, DatabaseStays
  <2>3. AloneInv'
    BY <1>10 DEF CommitDir, AloneInv, WriterInv, JsonInv, Json
  <2>4. FileStep
    BY <1>10 DEF CommitDir, AloneInv, WriterInv, JsonInv, Json, FileStep, Stored, File!Next,
       File!Flush, File!Lose, File!Store
  <2>5. ResultIsTrue
    BY <1>10 DEF CommitDir, AloneInv, WriterInv, JsonInv, Json, ResultIsTrue, Stored
  <2>. QED
    BY <2>1, <2>2, <2>3, <2>4, <2>5
<1>11. ASSUME PowerFailure PROVE Goal
  <2>1. TypeOK'
    BY <1>11 DEF PowerFailure
  <2>2. DatabaseStays'
    BY <1>11 DEF PowerFailure, DatabaseStays
  <2>3. AloneInv'
    BY <1>11 DEF PowerFailure, AloneInv, WriterInv, JsonInv, Json
  <2>4. FileStep
    BY <1>11 DEF PowerFailure, AloneInv, WriterInv, JsonInv, Json, FileStep, Stored, File!Next,
       File!Flush, File!Lose, File!Store
  <2>5. ResultIsTrue
    BY <1>11 DEF PowerFailure, AloneInv, WriterInv, JsonInv, Json, ResultIsTrue, Stored
  <2>. QED
    BY <2>1, <2>2, <2>3, <2>4, <2>5
<1>12. CASE UNCHANGED vars
  BY <1>12 DEF vars, DatabaseStays, AloneInv, WriterInv, JsonInv, Json, FileStep, Stored
<1>. QED
  BY <1>1, <1>2, <1>3, <1>4, <1>5, <1>6, <1>7, <1>8, <1>9, <1>10, <1>11, <1>12, <1>13
     DEF Next

LEMMA InvAlways == Spec => []Inv
  BY InitInv, NextInv, PTL DEF Spec

-----------------------------------------------------------------------------
(* Names, inodes and open files keep their types; a writer that is inside
   the file operations has a file open and a state to write.               *)
THEOREM FileTypeCorrect == Spec => []TypeOK
<1>1. Inv => TypeOK
  BY DEF Inv
<1>. QED
  BY InvAlways, <1>1, PTL

(* rename is the only call that touches the name ipam.json: whatever calls
   overlap, the file is there after an Ok and never disappears from disk.  *)
THEOREM DatabaseAlwaysStays == Spec => []DatabaseStays
<1>1. Inv => DatabaseStays
  BY DEF Inv
<1>. QED
  BY InvAlways, <1>1, PTL

(* What persist_sync returns is true of ipam.json, for calls that have not
   overlapped.                                                             *)
THEOREM ResultsStayTrue == Spec => ResultsAreTrue
<1>1. Inv /\ [Next]_vars => [ResultIsTrue]_vars
  BY NextInv
<1>. QED
  BY InvAlways, <1>1, PTL DEF Spec, ResultsAreTrue

(* Write, sync and rename are one atomic store, as long as no two calls
   have overlapped: every system call and every power failure is a step of
   AtomicFile or a stutter.                                                *)
THEOREM ImplementsAtomicFile == Spec => FileSteps
<1>1. Init => File!Init
  BY DEF Init, NoNames, Names, File!Init, Stored
<1>2. Inv /\ [Next]_vars => [FileStep]_vars
  BY NextInv
<1>3. FileStep <=> (alone' => File!Next \/ UNCHANGED <<Stored(dir, content), Stored(diskDir, disk)>>)
  BY DEF FileStep
<1>. QED
  BY InvAlways, <1>1, <1>2, <1>3, PTL DEF Spec, FileSteps
=============================================================================
