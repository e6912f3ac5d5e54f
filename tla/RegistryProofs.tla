--------------------------- MODULE RegistryProofs ---------------------------
(***************************************************************************)
(* Theorems about Registry for every number of containers, names and       *)
(* processes: config.json is unreadable only while somebody writes it, and  *)
(* no two containers are found by one name.                                *)
(***************************************************************************)
EXTENDS Registry, FiniteSetTheorems, TLAPS

(* A container that has a directory, or that a process is at, has a name,
   and a process that looks for a name has one.                            *)
NamedInv ==
    /\ \A c \in dir : name[c] # NoName
    /\ \A p \in Procs : proc[p].id # NoId => name[proc[p].id] # NoName
    /\ \A p \in Procs : proc[p].at \in {"check", "setup", "act", "remove"} => proc[p].id # NoId
    /\ \A p \in Procs : proc[p].cmd # "ps" => proc[p].want # NoName

Writes(p, c) == proc[p].id = c /\ proc[p].at \in Writing /\ proc[p].fd

(* A config that nobody has damaged has at most one writer, is empty while
   it has one, and can be read otherwise.                                  *)
WritersInv ==
    \A c \in Ids \ damaged :
        /\ \A p, q \in Procs : Writes(p, c) /\ Writes(q, c) => p = q
        /\ \A p \in Procs : Writes(p, c) => file[c] = "empty"
        /\ file[c] \in Unreadable => file[c] = "empty" /\ \E p \in Procs : Writes(p, c)

Inv == TypeOK /\ NamedInv /\ WritersInv

(* What a write leaves behind is a text or a mix, and over an empty file it
   is the text.                                                            *)
LEMMA OverFacts ==
    ASSUME NEW x \in Texts, NEW y
    PROVE  /\ Over(x, y) \subseteq Texts \cup Unreadable
           /\ Over(x, "empty") = {x}
  BY DEF Over, Texts, Unreadable

LEMMA IdleFacts ==
    Idle \in Process /\ ~Idle.fd /\ Idle.id = NoId /\ Idle.at = "idle" /\ Idle.cmd = "ps"
  BY DEF Idle, Process, Places

LEMMA InitInv == Init => Inv
<1>. SUFFICES ASSUME Init PROVE Inv
  OBVIOUS
<1>1. TypeOK
  BY RegistryConstants, IdleFacts DEF Init, TypeOK, Texts, Unreadable, NoFile
<1>2. NamedInv
  BY IdleFacts DEF Init, NamedInv
<1>3. WritersInv
  BY IdleFacts DEF Init, WritersInv, Writes, Unreadable, NoFile
<1>. QED
  BY <1>1, <1>2, <1>3 DEF Inv

-----------------------------------------------------------------------------
(* A process with no file open does something else than opening one.       *)
LEMMA Elsewhere ==
    ASSUME Inv, NEW p \in Procs, NEW r \in Process, proc' = [proc EXCEPT ![p] = r],
           ~proc[p].fd, ~r.fd,
           r.id # NoId => name'[r.id] # NoName,
           r.at \in {"check", "setup", "act", "remove"} => r.id # NoId,
           r.cmd # "ps" => r.want # NoName,
           \A c \in Ids : name[c] # NoName => name'[c] # NoName,
           dir \subseteq dir', dir' \subseteq Ids, \A c \in dir' : name'[c] # NoName,
           UNCHANGED <<file, damaged>>
    PROVE  /\ proc' \in [Procs -> Process]
           /\ \A q \in Procs : proc'[q].fd => proc'[q].at \in Writing /\ proc'[q].id \in dir'
           /\ NamedInv'
           /\ WritersInv'
<1>. USE RegistryConstants DEF Inv, TypeOK
<1>1. proc' \in [Procs -> Process]
  OBVIOUS
<1>2. \A q \in Procs : proc'[q].fd => proc'[q].at \in Writing /\ proc'[q].id \in dir'
  OBVIOUS
<1>3. NamedInv'
  <2>1. \A q \in Procs : proc[q].id \in Ids \cup {NoId}
    BY DEF Process
  <2>. QED
    BY <2>1 DEF NamedInv
<1>4. \A c \in Ids, q \in Procs : Writes(q, c)' <=> Writes(q, c)
  BY DEF Writes
<1>5. WritersInv'
  BY <1>4 DEF WritersInv
<1>. QED
  BY <1>1, <1>2, <1>3, <1>5

(* fs::write begins: the file is empty and has a writer, or another one.   *)
LEMMA OpenInv ==
    ASSUME Inv, NEW p \in Procs, NEW next \in Writing, Open(p, next), ~proc[p].fd,
           UNCHANGED <<dir, name, live, contended>>
    PROVE  Inv'
<1>. PICK c : c = proc[p].id
  OBVIOUS
<1>. DEFINE r == [proc[p] EXCEPT !.at = next, !.fd = TRUE]
<1>. USE RegistryConstants
<1>0. TypeOK /\ proc \in [Procs -> Process] /\ proc[p] \in Process
  BY DEF Inv, TypeOK
<1>1. CASE c \notin dir
  <2>1. proc' = [proc EXCEPT ![p] = Idle] /\ UNCHANGED <<file, damaged>>
    BY <1>1 DEF Open
  <2>2. /\ proc' \in [Procs -> Process]
        /\ \A q \in Procs : proc'[q].fd => proc'[q].at \in Writing /\ proc'[q].id \in dir'
        /\ NamedInv' /\ WritersInv'
    BY <1>0, <2>1, IdleFacts, Elsewhere DEF Inv, TypeOK, NamedInv
  <2>. QED
    BY <1>0, <2>1, <2>2 DEF Inv, TypeOK
<1>2. CASE c \in dir
  <2>1. /\ proc' = [proc EXCEPT ![p] = r]
        /\ file' = [file EXCEPT ![c] = "empty"]
        /\ damaged' = IF \E q \in Procs : Writes(q, c) THEN damaged \cup {c} ELSE damaged
    BY <1>2 DEF Open, Writers, Writes
  <2>2. /\ r \in Process /\ r.fd /\ r.id = c /\ r.at = next
        /\ r.cmd = proc[p].cmd /\ r.want = proc[p].want
    BY <1>0 DEF Process, Places
  <2>3. c \in Ids
    BY <1>0, <1>2 DEF TypeOK
  <2>. HIDE DEF r
  <2>4. TypeOK'
    BY <1>0, <1>2, <2>1, <2>2, <2>3 DEF TypeOK, Inv, NamedInv, Unreadable, NoFile
  <2>5. NamedInv'
    <3>1. \A q \in Procs : proc[q].id \in Ids \cup {NoId}
      BY <1>0 DEF Process
    <3>2. r.at \notin {"check", "setup", "act", "remove"}
      BY <2>2 DEF Writing
    <3>. QED
      BY <1>0, <1>2, <2>1, <2>2, <3>1, <3>2 DEF Inv, NamedInv
  <2>6. \A d \in Ids \ {c}, q \in Procs : Writes(q, d)' <=> Writes(q, d)
    BY <1>0, <2>1, <2>2, ~proc[p].fd DEF Writes
  <2>7. \A q \in Procs : Writes(q, c)' <=> Writes(q, c) \/ q = p
    BY <1>0, <2>1, <2>2 DEF Writes
  <2>8. WritersInv'
    BY <1>0, <2>1, <2>3, <2>6, <2>7 DEF Inv, TypeOK, WritersInv, Unreadable
  <2>. QED
    BY <2>4, <2>5, <2>8 DEF Inv
<1>. QED
  BY <1>1, <1>2

(* fs::write ends: the only writer of an empty file leaves the text.       *)
LEMMA PutInv ==
    ASSUME Inv, NEW p \in Procs, NEW x \in Texts, Put(p, x), proc[p].at \in Writing,
           NEW r \in Process, proc' = [proc EXCEPT ![p] = r], ~r.fd,
           r.id \in {NoId, proc[p].id}, r.at \notin {"check", "setup", "act", "remove"},
           r.cmd # "ps" => r.want # NoName,
           UNCHANGED <<dir, name, live, damaged, contended>>
    PROVE  Inv'
<1>. PICK c : c = proc[p].id
  OBVIOUS
<1>. USE RegistryConstants
<1>0. TypeOK /\ proc \in [Procs -> Process] /\ proc[p] \in Process
  BY DEF Inv, TypeOK
<1>1. CASE ~proc[p].fd
  <2>1. UNCHANGED file
    BY <1>1 DEF Put
  <2>2. /\ proc' \in [Procs -> Process]
        /\ \A q \in Procs : proc'[q].fd => proc'[q].at \in Writing /\ proc'[q].id \in dir'
        /\ NamedInv' /\ WritersInv'
    BY <1>0, <1>1, <2>1, Elsewhere DEF Inv, TypeOK, NamedInv
  <2>. QED
    BY <1>0, <2>1, <2>2 DEF Inv, TypeOK
<1>2. CASE proc[p].fd
  <2>1. PICK y \in Over(x, file[c]) : file' = [file EXCEPT ![c] = y]
    BY <1>2 DEF Put
  <2>2. c \in dir /\ c \in Ids /\ Writes(p, c)
    BY <1>0, <1>2 DEF TypeOK, Writes
  <2>3. y \in Texts \cup Unreadable
    BY <2>1, OverFacts
  <2>4. TypeOK'
    BY <1>0, <2>1, <2>2, <2>3 DEF TypeOK, Inv, NamedInv
  <2>5. NamedInv'
    <3>1. \A q \in Procs : proc[q].id \in Ids \cup {NoId}
      BY <1>0 DEF Process
    <3>. QED
      BY <1>0, <3>1 DEF Inv, NamedInv
  <2>6. \A d \in Ids \ {c}, q \in Procs : Writes(q, d)' <=> Writes(q, d)
    BY <1>0, <1>2 DEF Writes
  <2>7. \A q \in Procs : Writes(q, c)' <=> Writes(q, c) /\ q # p
    BY <1>0 DEF Writes
  <2>8. c \notin damaged => y = x /\ \A q \in Procs : ~Writes(q, c)'
    BY <2>1, <2>2, <2>7, OverFacts DEF Inv, WritersInv
  <2>9. WritersInv'
    BY <1>0, <2>1, <2>2, <2>6, <2>8 DEF Inv, TypeOK, WritersInv, Texts, Unreadable
  <2>. QED
    BY <2>4, <2>5, <2>9 DEF Inv
<1>. QED
  BY <1>1, <1>2

-----------------------------------------------------------------------------
(* What rm leaves of container c.                                          *)
Removed(p, c) ==
    /\ c = proc[p].id /\ name[c] \in Names /\ ~proc[p].fd
    /\ file' = [file EXCEPT ![c] = NoFile]
    /\ dir' \in {dir, dir \ {c}}
    /\ contended' \in {contended, contended \cup {name[c]}}
    /\ c \in dir' \/ Wanted(name[c]) => name[c] \in contended'
    /\ UNCHANGED <<name, live, damaged>>
    /\ proc' \in [Procs -> Process] /\ proc'[p] = Idle
    /\ \A q \in Procs \ {p} :
          /\ proc'[q].id = proc[q].id /\ proc'[q].at = proc[q].at
          /\ proc'[q].cmd = proc[q].cmd /\ proc'[q].want = proc[q].want
          /\ proc'[q].todo = proc[q].todo
          /\ proc'[q].fd <=> proc[q].fd /\ proc[q].id # c

LEMMA Removal ==
    ASSUME Inv, NEW p \in Procs, Remove(p)
    PROVE  \/ proc' = [proc EXCEPT ![p] = Idle] /\ UNCHANGED <<dir, name, file, live, damaged, contended>>
           \/ \E c \in Ids : Removed(p, c)
<1>. PICK c : c = proc[p].id
  OBVIOUS
<1>. DEFINE gone == [q \in Procs |-> IF proc[q].id = c THEN [proc[q] EXCEPT !.fd = FALSE]
                                                       ELSE proc[q]]
<1>. USE RegistryConstants, IdleFacts
<1>0. proc \in [Procs -> Process]
  BY DEF Inv, TypeOK
<1>1. ~proc[p].fd /\ c \in Ids /\ name[c] \in Names
  BY <1>0 DEF Inv, Remove, Writing, NamedInv, TypeOK, Process
<1>2. CASE /\ proc' = [gone EXCEPT ![p] = Idle]
           /\ file' = [file EXCEPT ![c] = NoFile] /\ dir' \in {dir, dir \ {c}}
           /\ contended' = IF c \in dir' \/ Wanted(name[c])
                           THEN contended \cup {name[c]} ELSE contended
           /\ UNCHANGED <<name, live, damaged>>
  <2>1. gone \in [Procs -> Process]
    BY <1>0 DEF Process
  <2>2. proc' \in [Procs -> Process] /\ proc'[p] = Idle
    BY <1>2, <2>1
  <2>3. \A q \in Procs \ {p} :
            /\ proc'[q].id = proc[q].id /\ proc'[q].at = proc[q].at
            /\ proc'[q].cmd = proc[q].cmd /\ proc'[q].want = proc[q].want
            /\ proc'[q].todo = proc[q].todo
            /\ proc'[q].fd <=> proc[q].fd /\ proc[q].id # c
    BY <1>0, <1>2 DEF Process
  <2>. HIDE DEF gone
  <2>. QED
    BY <1>1, <1>2, <2>2, <2>3 DEF Removed
<1>3. CASE End(p) /\ UNCHANGED <<dir, name, file, live, damaged, contended>>
  BY <1>3 DEF End
<1>. QED
  BY <1>2, <1>3 DEF Remove

-----------------------------------------------------------------------------
(* Every action keeps the invariant.                                       *)
LEMMA NextInv == Inv /\ [Next]_vars => Inv'
<1>. SUFFICES ASSUME Inv, [Next]_vars PROVE Inv'
  OBVIOUS
<1>. USE RegistryConstants, IdleFacts
<1>0. /\ TypeOK /\ NamedInv /\ WritersInv
      /\ proc \in [Procs -> Process]
      /\ \A p \in Procs : proc[p].at \notin Writing => ~proc[p].fd
      /\ \A c \in Ids : file[c] # NoFile => c \in dir /\ name[c] # NoName
  BY DEF Inv, TypeOK
<1>1. ASSUME NEW p \in Procs, NEW c \in Ids, NEW n \in Names, Run(p, c, n) PROVE Inv'
  <2>. DEFINE r == [Idle EXCEPT !.at = "check", !.cmd = "run", !.want = n, !.id = c, !.todo = dir]
  <2>1. ~proc[p].fd
    BY <1>0, <1>1 DEF Run, Writing
  <2>2. /\ r \in Process /\ ~r.fd
        /\ r.id # NoId => name'[r.id] # NoName
        /\ r.at \in {"check", "setup", "act", "remove"} => r.id # NoId
        /\ r.cmd # "ps" => r.want # NoName
    BY <1>0, <1>1, <2>1 DEF Run, Process, Places, Launching, Writing, TypeOK, NamedInv, Idle
  <2>3. proc' = [proc EXCEPT ![p] = r]
    BY <1>1 DEF Run
  <2>. HIDE DEF r
  <2>4. /\ proc' \in [Procs -> Process]
        /\ \A q \in Procs : proc'[q].fd => proc'[q].at \in Writing /\ proc'[q].id \in dir'
        /\ NamedInv' /\ WritersInv'
    BY <1>0, <1>1, <2>1, <2>2, <2>3, Inv, Elsewhere DEF Run, TypeOK, NamedInv
  <2>. QED
    BY <1>0, <1>1, <2>4 DEF Run, TypeOK, Inv, Unreadable, NoFile
<1>2. ASSUME NEW p \in Procs, NEW d \in Ids, Check(p, d) PROVE Inv'
  <2>. DEFINE r == [proc[p] EXCEPT !.todo = @ \ {d}]
  <2>1. ~proc[p].fd
    BY <1>0, <1>2 DEF Check, Writing
  <2>2. /\ r \in Process /\ ~r.fd
        /\ r.id # NoId => name'[r.id] # NoName
        /\ r.at \in {"check", "setup", "act", "remove"} => r.id # NoId
        /\ r.cmd # "ps" => r.want # NoName
    BY <1>0, <1>2, <2>1 DEF Check, Process, Places, Launching, Writing, TypeOK, NamedInv, Idle
  <2>3. proc' = [proc EXCEPT ![p] = r] \/ proc' = [proc EXCEPT ![p] = Idle]
    BY <1>2 DEF Check, End
  <2>. HIDE DEF r
  <2>4. /\ proc' \in [Procs -> Process]
        /\ \A q \in Procs : proc'[q].fd => proc'[q].at \in Writing /\ proc'[q].id \in dir'
        /\ NamedInv' /\ WritersInv'
    BY <1>0, <1>2, <2>1, <2>2, <2>3, Inv, Elsewhere DEF Check, TypeOK, NamedInv
  <2>. QED
    BY <1>0, <1>2, <2>4 DEF Check, TypeOK, Inv, Unreadable, NoFile
<1>3. ASSUME NEW p \in Procs, CheckPassed(p) PROVE Inv'
  <2>. DEFINE r == [proc[p] EXCEPT !.at = "setup"]
  <2>1. ~proc[p].fd
    BY <1>0, <1>3 DEF CheckPassed, Writing
  <2>2. /\ r \in Process /\ ~r.fd
        /\ r.id # NoId => name'[r.id] # NoName
        /\ r.at \in {"check", "setup", "act", "remove"} => r.id # NoId
        /\ r.cmd # "ps" => r.want # NoName
    BY <1>0, <1>3, <2>1 DEF CheckPassed, Process, Places, Launching, Writing, TypeOK, NamedInv,
       Idle
  <2>3. proc' = [proc EXCEPT ![p] = r]
    BY <1>3 DEF CheckPassed, Become
  <2>. HIDE DEF r
  <2>4. /\ proc' \in [Procs -> Process]
        /\ \A q \in Procs : proc'[q].fd => proc'[q].at \in Writing /\ proc'[q].id \in dir'
        /\ NamedInv' /\ WritersInv'
    BY <1>0, <1>3, <2>1, <2>2, <2>3, Inv, Elsewhere DEF CheckPassed, TypeOK, NamedInv
  <2>. QED
    BY <1>0, <1>3, <2>4 DEF CheckPassed, TypeOK, Inv, Unreadable, NoFile
<1>4. ASSUME NEW p \in Procs, SetUp(p) PROVE Inv'
  <2>. DEFINE r == [proc[p] EXCEPT !.at = "open"]
  <2>1. ~proc[p].fd
    BY <1>0, <1>4 DEF SetUp, Writing
  <2>2. /\ r \in Process /\ ~r.fd
        /\ r.id # NoId => name'[r.id] # NoName
        /\ r.at \in {"check", "setup", "act", "remove"} => r.id # NoId
        /\ r.cmd # "ps" => r.want # NoName
    BY <1>0, <1>4, <2>1 DEF SetUp, Process, Places, Launching, Writing, TypeOK, NamedInv, Idle
  <2>3. proc' = [proc EXCEPT ![p] = r] \/ proc' = [proc EXCEPT ![p] = Idle]
    BY <1>4 DEF SetUp, Become, End
  <2>4. /\ dir \subseteq dir' /\ dir' \subseteq Ids /\ (\A c \in dir' : name[c] # NoName)
        /\ live' \subseteq {c \in Ids : name[c] # NoName}
        /\ UNCHANGED <<name, file, damaged, contended>>
    BY <1>0, <1>4 DEF SetUp, NamedInv, TypeOK, Process
  <2>. HIDE DEF r
  <2>5. /\ proc' \in [Procs -> Process]
        /\ \A q \in Procs : proc'[q].fd => proc'[q].at \in Writing /\ proc'[q].id \in dir'
        /\ NamedInv' /\ WritersInv'
    BY <1>0, <1>4, <2>1, <2>2, <2>3, <2>4, Inv, Elsewhere DEF SetUp, TypeOK, NamedInv
  <2>. QED
    BY <1>0, <1>4, <2>4, <2>5 DEF SetUp, TypeOK, Inv, Unreadable, NoFile
<1>5. ASSUME NEW p \in Procs, TearDown(p) PROVE Inv'
  <2>. DEFINE r == [proc[p] EXCEPT !.at = "final"]
  <2>1. ~proc[p].fd
    BY <1>0, <1>5 DEF TearDown, Writing
  <2>2. /\ r \in Process /\ ~r.fd
        /\ r.id # NoId => name'[r.id] # NoName
        /\ r.at \in {"check", "setup", "act", "remove"} => r.id # NoId
        /\ r.cmd # "ps" => r.want # NoName
    BY <1>0, <1>5, <2>1 DEF TearDown, Process, Places, Launching, Writing, TypeOK, NamedInv, Idle
  <2>3. proc' = [proc EXCEPT ![p] = r]
    BY <1>5 DEF TearDown, Become
  <2>. HIDE DEF r
  <2>4. /\ proc' \in [Procs -> Process]
        /\ \A q \in Procs : proc'[q].fd => proc'[q].at \in Writing /\ proc'[q].id \in dir'
        /\ NamedInv' /\ WritersInv'
    BY <1>0, <1>5, <2>1, <2>2, <2>3, Inv, Elsewhere DEF TearDown, TypeOK, NamedInv
  <2>. QED
    BY <1>0, <1>5, <2>4 DEF TearDown, TypeOK, Inv, Unreadable, NoFile
<1>6. ASSUME NEW p \in Procs, NEW cmd \in {"ps", "rm", "start"},
             NEW n \in Names \cup {NoName}, Issue(p, cmd, n) PROVE Inv'
  <2>. DEFINE r == [Idle EXCEPT !.at = "refresh", !.cmd = cmd, !.want = n, !.todo = dir]
  <2>1. ~proc[p].fd
    BY <1>0, <1>6 DEF Issue, Writing
  <2>2. /\ r \in Process /\ ~r.fd
        /\ r.id # NoId => name'[r.id] # NoName
        /\ r.at \in {"check", "setup", "act", "remove"} => r.id # NoId
        /\ r.cmd # "ps" => r.want # NoName
    BY <1>0, <1>6, <2>1 DEF Issue, Process, Places, Launching, Writing, TypeOK, NamedInv, Idle
  <2>3. proc' = [proc EXCEPT ![p] = r]
    BY <1>6 DEF Issue
  <2>. HIDE DEF r
  <2>4. /\ proc' \in [Procs -> Process]
        /\ \A q \in Procs : proc'[q].fd => proc'[q].at \in Writing /\ proc'[q].id \in dir'
        /\ NamedInv' /\ WritersInv'
    BY <1>0, <1>6, <2>1, <2>2, <2>3, Inv, Elsewhere DEF Issue, TypeOK, NamedInv
  <2>. QED
    BY <1>0, <1>6, <2>4 DEF Issue, TypeOK, Inv, Unreadable, NoFile
<1>7. ASSUME NEW p \in Procs, NEW d \in Ids, Refresh(p, d) PROVE Inv'
  <2>. DEFINE r == [proc[p] EXCEPT !.todo = @ \ {d}, !.at = "mark", !.id = d]
  <2>. DEFINE s == [proc[p] EXCEPT !.todo = @ \ {d}]
  <2>1. ~proc[p].fd
    BY <1>0, <1>7 DEF Refresh, Writing
  <2>2. file[d] # NoFile =>
        /\ r \in Process /\ ~r.fd
        /\ r.id # NoId => name'[r.id] # NoName
        /\ r.at \in {"check", "setup", "act", "remove"} => r.id # NoId
        /\ r.cmd # "ps" => r.want # NoName
    BY <1>0, <1>7, <2>1 DEF Refresh, Process, Places, Launching, Writing, TypeOK, NamedInv, Idle
  <2>3. /\ s \in Process /\ ~s.fd
        /\ s.id # NoId => name'[s.id] # NoName
        /\ s.at \in {"check", "setup", "act", "remove"} => s.id # NoId
        /\ s.cmd # "ps" => s.want # NoName
    BY <1>0, <1>7, <2>1 DEF Refresh, Process, Places, Launching, Writing, TypeOK, NamedInv, Idle
  <2>4. (file[d] # NoFile /\ proc' = [proc EXCEPT ![p] = r]) \/ proc' = [proc EXCEPT ![p] = s] \/ proc' = [proc EXCEPT ![p] = Idle]
    BY <1>7 DEF Refresh, End, NoFile
  <2>. HIDE DEF r, s
  <2>5. /\ proc' \in [Procs -> Process]
        /\ \A q \in Procs : proc'[q].fd => proc'[q].at \in Writing /\ proc'[q].id \in dir'
        /\ NamedInv' /\ WritersInv'
    BY <1>0, <1>7, <2>1, <2>2, <2>3, <2>4, Inv, Elsewhere DEF Refresh, TypeOK, NamedInv
  <2>. QED
    BY <1>0, <1>7, <2>5 DEF Refresh, TypeOK, Inv, Unreadable, NoFile
<1>8. ASSUME NEW p \in Procs, Refreshed(p) PROVE Inv'
  <2>. DEFINE r == [proc[p] EXCEPT !.at = "search", !.todo = dir]
  <2>1. ~proc[p].fd
    BY <1>0, <1>8 DEF Refreshed, Writing
  <2>2. /\ r \in Process /\ ~r.fd
        /\ r.id # NoId => name'[r.id] # NoName
        /\ r.at \in {"check", "setup", "act", "remove"} => r.id # NoId
        /\ r.cmd # "ps" => r.want # NoName
    BY <1>0, <1>8, <2>1 DEF Refreshed, Process, Places, Launching, Writing, TypeOK, NamedInv, Idle
  <2>3. proc' = [proc EXCEPT ![p] = r] \/ proc' = [proc EXCEPT ![p] = Idle]
    BY <1>8 DEF Refreshed, End
  <2>. HIDE DEF r
  <2>4. /\ proc' \in [Procs -> Process]
        /\ \A q \in Procs : proc'[q].fd => proc'[q].at \in Writing /\ proc'[q].id \in dir'
        /\ NamedInv' /\ WritersInv'
    BY <1>0, <1>8, <2>1, <2>2, <2>3, Inv, Elsewhere DEF Refreshed, TypeOK, NamedInv
  <2>. QED
    BY <1>0, <1>8, <2>4 DEF Refreshed, TypeOK, Inv, Unreadable, NoFile
<1>9. ASSUME NEW p \in Procs, NEW d \in Ids, Search(p, d) PROVE Inv'
  <2>. DEFINE r == [proc[p] EXCEPT !.at = "act", !.id = d, !.todo = {}]
  <2>. DEFINE s == [proc[p] EXCEPT !.todo = @ \ {d}]
  <2>1. ~proc[p].fd
    BY <1>0, <1>9 DEF Search, Writing
  <2>2. file[d] # NoFile =>
        /\ r \in Process /\ ~r.fd
        /\ r.id # NoId => name'[r.id] # NoName
        /\ r.at \in {"check", "setup", "act", "remove"} => r.id # NoId
        /\ r.cmd # "ps" => r.want # NoName
    BY <1>0, <1>9, <2>1 DEF Search, Process, Places, Launching, Writing, TypeOK, NamedInv, Idle
  <2>3. /\ s \in Process /\ ~s.fd
        /\ s.id # NoId => name'[s.id] # NoName
        /\ s.at \in {"check", "setup", "act", "remove"} => s.id # NoId
        /\ s.cmd # "ps" => s.want # NoName
    BY <1>0, <1>9, <2>1 DEF Search, Process, Places, Launching, Writing, TypeOK, NamedInv, Idle
  <2>4. (file[d] # NoFile /\ proc' = [proc EXCEPT ![p] = r]) \/ proc' = [proc EXCEPT ![p] = s]
    BY <1>9 DEF Search, Texts, NoFile
  <2>. HIDE DEF r, s
  <2>5. /\ proc' \in [Procs -> Process]
        /\ \A q \in Procs : proc'[q].fd => proc'[q].at \in Writing /\ proc'[q].id \in dir'
        /\ NamedInv' /\ WritersInv'
    BY <1>0, <1>9, <2>1, <2>2, <2>3, <2>4, Inv, Elsewhere DEF Search, TypeOK, NamedInv
  <2>. QED
    BY <1>0, <1>9, <2>5 DEF Search, TypeOK, Inv, Unreadable, NoFile
<1>10. ASSUME NEW p \in Procs, NotFound(p) PROVE Inv'
  <2>1. ~proc[p].fd
    BY <1>0, <1>10 DEF NotFound, Writing
  <2>2. proc' = [proc EXCEPT ![p] = Idle]
    BY <1>10 DEF NotFound, End
  <2>3. /\ proc' \in [Procs -> Process]
        /\ \A q \in Procs : proc'[q].fd => proc'[q].at \in Writing /\ proc'[q].id \in dir'
        /\ NamedInv' /\ WritersInv'
    BY <1>0, <1>10, <2>1, <2>2, Inv, Elsewhere DEF NotFound, TypeOK, NamedInv
  <2>. QED
    BY <1>0, <1>10, <2>3 DEF NotFound, TypeOK, Inv, Unreadable, NoFile
<1>11. ASSUME NEW p \in Procs, Start(p) PROVE Inv'
  <2>. DEFINE r == [proc[p] EXCEPT !.at = "setup", !.cmd = "run"]
  <2>1. ~proc[p].fd
    BY <1>0, <1>11 DEF Start, Writing
  <2>2. /\ r \in Process /\ ~r.fd
        /\ r.id # NoId => name'[r.id] # NoName
        /\ r.at \in {"check", "setup", "act", "remove"} => r.id # NoId
        /\ r.cmd # "ps" => r.want # NoName
    BY <1>0, <1>11, <2>1 DEF Start, Process, Places, Launching, Writing, TypeOK, NamedInv, Idle
  <2>3. proc' = [proc EXCEPT ![p] = r] \/ proc' = [proc EXCEPT ![p] = Idle]
    BY <1>11 DEF Start, End
  <2>4. contended' \subseteq Names
    BY <1>0, <1>11 DEF Start, NamedInv, TypeOK, Process
  <2>. HIDE DEF r
  <2>5. /\ proc' \in [Procs -> Process]
        /\ \A q \in Procs : proc'[q].fd => proc'[q].at \in Writing /\ proc'[q].id \in dir'
        /\ NamedInv' /\ WritersInv'
    BY <1>0, <1>11, <2>1, <2>2, <2>3, <2>4, Inv, Elsewhere DEF Start, TypeOK, NamedInv
  <2>. QED
    BY <1>0, <1>11, <2>4, <2>5 DEF Start, TypeOK, Inv, Unreadable, NoFile
<1>12. ASSUME NEW p \in Procs, RmCheck(p) PROVE Inv'
  <2>. DEFINE r == [proc[p] EXCEPT !.at = "remove"]
  <2>1. ~proc[p].fd
    BY <1>0, <1>12 DEF RmCheck, Writing
  <2>2. /\ r \in Process /\ ~r.fd
        /\ r.id # NoId => name'[r.id] # NoName
        /\ r.at \in {"check", "setup", "act", "remove"} => r.id # NoId
        /\ r.cmd # "ps" => r.want # NoName
    BY <1>0, <1>12, <2>1 DEF RmCheck, Process, Places, Launching, Writing, TypeOK, NamedInv, Idle
  <2>3. proc' = [proc EXCEPT ![p] = r] \/ proc' = [proc EXCEPT ![p] = Idle]
    BY <1>12 DEF RmCheck, Become, End
  <2>. HIDE DEF r
  <2>4. /\ proc' \in [Procs -> Process]
        /\ \A q \in Procs : proc'[q].fd => proc'[q].at \in Writing /\ proc'[q].id \in dir'
        /\ NamedInv' /\ WritersInv'
    BY <1>0, <1>12, <2>1, <2>2, <2>3, Inv, Elsewhere DEF RmCheck, TypeOK, NamedInv
  <2>. QED
    BY <1>0, <1>12, <2>4 DEF RmCheck, TypeOK, Inv, Unreadable, NoFile
<1>13. ASSUME NEW p \in Procs, OpenActive(p) PROVE Inv'
  BY <1>0, <1>13, Inv, OpenInv DEF OpenActive, Writing
<1>14. ASSUME NEW p \in Procs, OpenFinal(p) PROVE Inv'
  BY <1>0, <1>14, Inv, OpenInv DEF OpenFinal, Writing
<1>15. ASSUME NEW p \in Procs, OpenCleared(p) PROVE Inv'
  BY <1>0, <1>15, Inv, OpenInv DEF OpenCleared, Writing
<1>16. ASSUME NEW p \in Procs, WriteActive(p) PROVE Inv'
  <2>. DEFINE r == [Idle EXCEPT !.at = "waiting", !.id = proc[p].id]
  <2>1. /\ r \in Process /\ ~r.fd /\ r.id \in {NoId, proc[p].id}
        /\ r.at \notin {"check", "setup", "act", "remove"} /\ (r.cmd # "ps" => r.want # NoName)
    BY <1>0, <1>16 DEF WriteActive, Process, Places, Idle, NamedInv
  <2>2. /\ proc' = [proc EXCEPT ![p] = r] /\ Put(p, "Active") /\ proc[p].at \in Writing
        /\ UNCHANGED <<dir, name, live, damaged, contended>>
    BY <1>16 DEF WriteActive, Writing
  <2>3. "Active" \in Texts
    BY DEF Texts
  <2>. HIDE DEF r
  <2>. QED
    BY <2>1, <2>2, <2>3, Inv, PutInv
<1>17. ASSUME NEW p \in Procs, WriteFinal(p) PROVE Inv'
  <2>. DEFINE r == Idle
  <2>1. /\ r \in Process /\ ~r.fd /\ r.id \in {NoId, proc[p].id}
        /\ r.at \notin {"check", "setup", "act", "remove"} /\ (r.cmd # "ps" => r.want # NoName)
    BY <1>0, <1>17 DEF WriteFinal, Process, Places, Idle, NamedInv
  <2>2. /\ proc' = [proc EXCEPT ![p] = r] /\ Put(p, "Final") /\ proc[p].at \in Writing
        /\ UNCHANGED <<dir, name, live, damaged, contended>>
    BY <1>17 DEF WriteFinal, Writing, End
  <2>3. "Final" \in Texts
    BY DEF Texts
  <2>. HIDE DEF r
  <2>. QED
    BY <2>1, <2>2, <2>3, Inv, PutInv
<1>18. ASSUME NEW p \in Procs, WriteCleared(p) PROVE Inv'
  <2>. DEFINE r == [proc[p] EXCEPT !.at = "refresh", !.id = NoId, !.fd = FALSE]
  <2>1. /\ r \in Process /\ ~r.fd /\ r.id \in {NoId, proc[p].id}
        /\ r.at \notin {"check", "setup", "act", "remove"} /\ (r.cmd # "ps" => r.want # NoName)
    BY <1>0, <1>18 DEF WriteCleared, Process, Places, Idle, NamedInv
  <2>2. /\ proc' = [proc EXCEPT ![p] = r] /\ Put(p, "Cleared") /\ proc[p].at \in Writing
        /\ UNCHANGED <<dir, name, live, damaged, contended>>
    BY <1>18 DEF WriteCleared, Writing
  <2>3. "Cleared" \in Texts
    BY DEF Texts
  <2>. HIDE DEF r
  <2>. QED
    BY <2>1, <2>2, <2>3, Inv, PutInv
<1>19. ASSUME NEW p \in Procs, Remove(p) PROVE Inv'
  <2>1. CASE proc' = [proc EXCEPT ![p] = Idle] /\ UNCHANGED <<dir, name, file, live, damaged, contended>>
    <3>1. ~proc[p].fd
      BY <1>0, <1>19 DEF Remove, Writing
    <3>2. /\ proc' \in [Procs -> Process]
          /\ \A q \in Procs : proc'[q].fd => proc'[q].at \in Writing /\ proc'[q].id \in dir'
          /\ NamedInv' /\ WritersInv'
      BY <1>0, <2>1, <3>1, Inv, Elsewhere DEF TypeOK, NamedInv
    <3>. QED
      BY <1>0, <2>1, <3>2 DEF TypeOK, Inv
  <2>2. ASSUME NEW c \in Ids, Removed(p, c) PROVE Inv'
    <3>1. TypeOK'
      BY <1>0, <2>2 DEF Removed, TypeOK, NoFile, Unreadable
    <3>2. NamedInv'
      BY <1>0, <2>2 DEF Removed, NamedInv
    <3>3. \A d \in Ids, q \in Procs : Writes(q, d)' <=> Writes(q, d) /\ d # c
      BY <2>2 DEF Removed, Writes
    <3>4. WritersInv'
      BY <1>0, <2>2, <3>3 DEF Removed, WritersInv, TypeOK, NoFile, Unreadable
    <3>. QED
      BY <3>1, <3>2, <3>4 DEF Inv
  <2>. QED
    BY <1>19, <2>1, <2>2, Inv, Removal
<1>20. ASSUME NEW p \in Procs, Kill(p) PROVE Inv'
  <2>1. CASE ~proc[p].fd
    <3>1. proc' = [proc EXCEPT ![p] = Idle] /\ UNCHANGED <<dir, name, file, live, damaged, contended>>
      BY <1>20, <2>1 DEF Kill, End
    <3>2. /\ proc' \in [Procs -> Process]
          /\ \A q \in Procs : proc'[q].fd => proc'[q].at \in Writing /\ proc'[q].id \in dir'
          /\ NamedInv' /\ WritersInv'
      BY <1>0, <2>1, <3>1, Inv, Elsewhere DEF TypeOK, NamedInv
    <3>. QED
      BY <1>0, <3>1, <3>2 DEF TypeOK, Inv
  <2>2. CASE proc[p].fd
    <3>1. /\ proc' = [proc EXCEPT ![p] = Idle] /\ damaged' = damaged \cup {proc[p].id}
          /\ UNCHANGED <<dir, name, file, live, contended>>
      BY <1>20, <2>2 DEF Kill, End
    <3>2. proc[p].id \in Ids
      BY <1>0, <2>2 DEF TypeOK
    <3>3. TypeOK'
      BY <1>0, <3>1, <3>2 DEF TypeOK
    <3>4. NamedInv'
      BY <1>0, <3>1 DEF NamedInv
    <3>5. \A d \in Ids \ {proc[p].id}, q \in Procs : Writes(q, d)' <=> Writes(q, d)
      BY <1>0, <3>1 DEF Writes
    <3>6. WritersInv'
      BY <1>0, <3>1, <3>5 DEF WritersInv
    <3>. QED
      BY <3>3, <3>4, <3>6 DEF Inv
  <2>. QED
    BY <2>1, <2>2
<1>21. ASSUME NEW c \in Ids, Exit(c) PROVE Inv'
  BY <1>0, <1>21 DEF Exit, Inv, TypeOK, NamedInv, WritersInv, Writes
<1>22. CASE UNCHANGED vars
  BY <1>0, <1>22 DEF vars, Inv, TypeOK, NamedInv, WritersInv, Writes
<1>23. ASSUME NEW p \in Procs, Step(p) PROVE Inv'
  BY <1>1, <1>2, <1>3, <1>4, <1>5, <1>6, <1>7, <1>8, <1>9, <1>10, <1>11, <1>12, <1>13,
     <1>14, <1>15, <1>16, <1>17, <1>18, <1>19, <1>20, <1>23 DEF Step
<1>. QED
  BY <1>21, <1>22, <1>23 DEF Next

LEMMA InvAlways == Spec => []Inv
  BY InitInv, NextInv, PTL DEF Spec

-----------------------------------------------------------------------------
(* What Registry says of its variables holds in every reachable state, in
   particular that every config is in a directory and has a name, and that a
   process writes to the file of a directory that is there.                *)
THEOREM TypeCorrect == Spec => []TypeOK
<1>1. Inv => TypeOK
  BY DEF Inv
<1>. QED
  BY InvAlways, <1>1, PTL

(* fs::write truncates and writes: a config that cannot be read has exactly
   one writer, who is about to complete it, for any number of commands and
   supervisors, unless a writer was killed or two wrote it at once.        *)
THEOREM ConfigsComeBack == Spec => []ConfigComesBack
<1>1. Inv => ConfigComesBack
  <2>. SUFFICES ASSUME Inv, NEW c \in Ids \ damaged, file[c] \in Unreadable
                PROVE  Cardinality(Writers(c)) = 1
    BY DEF ConfigComesBack
  <2>1. PICK p \in Procs : Writes(p, c) /\ \A q \in Procs : Writes(q, c) => q = p
    BY DEF Inv, WritersInv
  <2>2. Writers(c) = {p}
    BY <2>1 DEF Writers, Writes
  <2>. QED
    BY <2>2, FS_Singleton
<1>. QED
  BY InvAlways, <1>1, PTL

-----------------------------------------------------------------------------
(* Names.  A process in one of these places may yet create the config of its
   container, or has just done so.                                         *)
Late == {"write", "waiting", "final", "mark"}

(* A launch, and a command that has found its container, go by its name.   *)
KnowsName ==
    \A p \in Procs : proc[p].at \in Launching \cup {"act"} =>
        proc[p].id \in Ids /\ proc[p].want = name[proc[p].id]

(* One config has a name, and one launch wants it.                         *)
OneConfig ==
    \A c, d \in Ids : file[c] # NoFile /\ file[d] # NoFile /\ name[c] = name[d] /\ name[c] \notin contended
                          => c = d

OneLaunch ==
    \A p, q \in Procs : /\ proc[p].at \in Launching /\ proc[q].at \in Launching
                        /\ proc[p].want = proc[q].want /\ proc[p].want \notin contended
        => p = q

(* Who can still write a config finds it there, unless the directory is
   gone, and then no launch is about to make it again.                     *)
LateFindsFile ==
    \A p \in Procs : proc[p].at \in Late /\ proc[p].id \in dir /\ name[proc[p].id] \notin contended
                         => file[proc[p].id] # NoFile

NoLateLeft ==
    \A p, q \in Procs : /\ proc[p].at \in {"check", "setup"} /\ proc[p].id \notin dir
                        /\ name[proc[p].id] \notin contended /\ proc[q].at \in Late
        => proc[q].id # proc[p].id

OpenIsThere == \A p \in Procs : proc[p].fd => file[proc[p].id] # NoFile

(* A launch has its name for itself, apart from what its check has still to
   look at.                                                                *)
LaunchIsAlone ==
    \A p \in Procs, d \in Ids : /\ proc[p].at \in Launching /\ proc[p].want \notin contended
                                /\ name[d] = proc[p].want /\ file[d] # NoFile
        => d = proc[p].id \/ (proc[p].at = "check" /\ d \in proc[p].todo)

NamesInv == /\ KnowsName /\ OneConfig /\ OneLaunch /\ LateFindsFile
            /\ NoLateLeft /\ OpenIsThere /\ LaunchIsAlone

(* One process moves on, and no config of a fresh name comes or goes.      *)
LEMMA Moves ==
    ASSUME Inv, NamesInv, NEW p \in Procs, NEW r \in Process, proc' = [proc EXCEPT ![p] = r],
           UNCHANGED name, contended \subseteq contended', dir \subseteq dir',
           \A c \in Ids : name[c] \notin contended' => (file'[c] = NoFile <=> file[c] = NoFile),
           \A q \in Procs \ {p} : proc[q].at \in Late /\ proc[q].id \in dir' \ dir
                                      => name[proc[q].id] \in contended',
           OpenIsThere',
           r.at \in Launching \cup {"act"} => r.id \in Ids /\ r.want = name[r.id],
           r.at \in Launching =>
               \/ proc[p].at \in Launching /\ r.want = proc[p].want
               \/ \A q \in Procs : proc[q].at \in Launching /\ proc[q].want = r.want
                                       => r.want \in contended',
           r.at \in Late /\ r.id \in dir' /\ name[r.id] \notin contended' => file'[r.id] # NoFile,
           r.at \in Late => (proc[p].at \in Late /\ r.id = proc[p].id) \/ r.id \in dir,
           r.at \in {"check", "setup"} =>
               \/ proc[p].at \in {"check", "setup"} /\ r.id = proc[p].id
               \/ r.id \in dir,
           \A d \in Ids : /\ r.at \in Launching /\ r.want \notin contended'
                          /\ name[d] = r.want /\ file[d] # NoFile
               => d = r.id \/ (r.at = "check" /\ d \in r.todo)
    PROVE  NamesInv'
<1>0. proc \in [Procs -> Process] /\ name \in [Ids -> Names \cup {NoName}] /\ dir \subseteq Ids
  BY DEF Inv, TypeOK
<1>1. proc'[p] = r /\ \A q \in Procs \ {p} : proc'[q] = proc[q]
  BY <1>0
<1>3. KnowsName'
  BY <1>1 DEF NamesInv, KnowsName
<1>4. OneConfig'
  BY DEF NamesInv, OneConfig
<1>5. OneLaunch'
  BY <1>1 DEF NamesInv, OneLaunch
<1>6. LateFindsFile'
  BY <1>0, <1>1 DEF NamesInv, LateFindsFile
<1>7. NoLateLeft'
  BY <1>0, <1>1 DEF NamesInv, NoLateLeft, Late
<1>8. LaunchIsAlone'
  BY <1>1 DEF NamesInv, LaunchIsAlone, KnowsName
<1>. QED
  BY <1>3, <1>4, <1>5, <1>6, <1>7, <1>8 DEF NamesInv

(* The same, when no file or directory changes and none is open.           *)
LEMMA Steps ==
    ASSUME Inv, NamesInv, NEW p \in Procs, NEW r \in Process, proc' = [proc EXCEPT ![p] = r],
           ~r.fd, UNCHANGED <<name, dir, file>>, contended \subseteq contended',
           r.at \in Launching \cup {"act"} => r.id \in Ids /\ r.want = name[r.id],
           r.at \in Launching =>
               \/ proc[p].at \in Launching /\ r.want = proc[p].want
               \/ \A q \in Procs : proc[q].at \in Launching /\ proc[q].want = r.want
                                       => r.want \in contended',
           r.at \in Late => \/ proc[p].at \in Late /\ r.id = proc[p].id
                            \/ r.id \in dir /\ file[r.id] # NoFile,
           r.at \in {"check", "setup"} =>
               \/ proc[p].at \in {"check", "setup"} /\ r.id = proc[p].id
               \/ r.id \in dir,
           \A d \in Ids : /\ r.at \in Launching /\ r.want \notin contended'
                          /\ name[d] = r.want /\ file[d] # NoFile
               => d = r.id \/ (r.at = "check" /\ d \in r.todo)
    PROVE  NamesInv'
<1>0. proc \in [Procs -> Process] /\ dir \subseteq Ids
  BY DEF Inv, TypeOK
<1>1. OpenIsThere'
  BY <1>0 DEF NamesInv, OpenIsThere
<1>2. r.at \in Late /\ r.id \in dir' /\ name[r.id] \notin contended' => file'[r.id] # NoFile
  BY DEF NamesInv, LateFindsFile
<1>. HIDE DEF NamesInv
<1>. QED
  BY <1>1, <1>2, Moves

(* Where nothing is at stake for a name.                                   *)
Aside == Places \ (Launching \cup Late \cup {"act"})

LEMMA Leaves ==
    ASSUME Inv, NamesInv, NEW p \in Procs, NEW r \in Process, proc' = [proc EXCEPT ![p] = r],
           ~r.fd, r.at \in Aside, UNCHANGED <<name, dir, file>>, contended \subseteq contended'
    PROVE  NamesInv'
<1>1. r.at \notin Launching \cup Late \cup {"act"} /\ r.at \notin {"check", "setup"}
  BY DEF Aside, Launching
<1>. QED
  BY <1>1, Steps DEF Launching

(* fs::write keeps a config there that is there.                           *)
LEMMA PutsFile ==
    ASSUME Inv, NamesInv, NEW p \in Procs, NEW x \in Texts, Put(p, x),
           NEW r \in Process, proc' = [proc EXCEPT ![p] = r], ~r.fd,
           r.at \in Aside \/ (r.at = "waiting" /\ proc[p].at = "write" /\ r.id = proc[p].id),
           UNCHANGED <<dir, name, contended>>
    PROVE  NamesInv'
<1>0. proc \in [Procs -> Process] /\ proc[p] \in Process /\ dir \subseteq Ids /\ file \in [Ids -> Texts \cup Unreadable \cup {NoFile}]
  BY DEF Inv, TypeOK
<1>1. \A c \in Ids : file'[c] = NoFile <=> file[c] = NoFile
  <2>1. CASE proc[p].fd
    <3>1. PICK y \in Over(x, file[proc[p].id]) : file' = [file EXCEPT ![proc[p].id] = y]
      BY <2>1 DEF Put
    <3>2. y # NoFile
      BY <3>1, OverFacts DEF Texts, Unreadable, NoFile
    <3>3. file[proc[p].id] # NoFile
      BY <2>1 DEF NamesInv, OpenIsThere
    <3>. QED
      BY <1>0, <3>1, <3>2, <3>3
  <2>2. CASE ~proc[p].fd
    BY <2>2 DEF Put
  <2>. QED
    BY <2>1, <2>2
<1>2. \A q \in Procs : proc[q].fd => proc[q].id \in Ids
  BY <1>0 DEF Inv, TypeOK
<1>3. OpenIsThere'
  BY <1>0, <1>1, <1>2 DEF NamesInv, OpenIsThere
<1>4. /\ r.at \notin Launching \cup {"act"} /\ r.at \notin {"check", "setup"}
      /\ r.at \in Late => proc[p].at \in Late /\ r.id = proc[p].id
  BY DEF Aside, Launching, Late
<1>5. r.at \in Late /\ r.id \in dir' /\ name[r.id] \notin contended' => file'[r.id] # NoFile
  BY <1>0, <1>1, <1>4 DEF NamesInv, LateFindsFile
<1>. HIDE DEF NamesInv
<1>. QED
  BY <1>1, <1>3, <1>4, <1>5, Moves DEF Launching

-----------------------------------------------------------------------------
LEMMA NamesInit == Init => NamesInv
  BY RegistryConstants, IdleFacts DEF Init, NamesInv, KnowsName, OneConfig, OneLaunch,
     LateFindsFile,
     NoLateLeft, OpenIsThere, LaunchIsAlone, Late, Launching, NoFile

LEMMA NamesNext == Inv /\ NamesInv /\ [Next]_vars => NamesInv'
<1>. SUFFICES ASSUME Inv, NamesInv, [Next]_vars PROVE NamesInv'
  OBVIOUS
<1>. USE RegistryConstants, IdleFacts
<1>0. /\ TypeOK /\ NamedInv
      /\ proc \in [Procs -> Process] /\ dir \subseteq Ids /\ name \in [Ids -> Names \cup {NoName}]
      /\ \A p \in Procs : proc[p].at \notin Writing => ~proc[p].fd
      /\ \A p \in Procs : proc[p].fd => proc[p].id \in dir
      /\ \A c \in Ids : file[c] # NoFile => c \in dir /\ name[c] # NoName
  BY DEF Inv, TypeOK
<1>a. Idle.at \in Aside
  BY DEF Aside, Places, Launching, Late, Writing
<1>1. ASSUME NEW p \in Procs, NEW d \in Ids, Check(p, d) PROVE NamesInv'
  <2>. DEFINE r == [proc[p] EXCEPT !.todo = @ \ {d}]
  <2>0. proc[p].at = "check" /\ ~proc[p].fd /\ contended \subseteq contended' /\ UNCHANGED <<name, dir, file>>
    BY <1>0, <1>1 DEF Check, Writing
  <2>1. CASE End(p)
    BY <1>a, <2>0, <2>1, Leaves DEF End
  <2>2. CASE proc' = [proc EXCEPT ![p] = r] /\ ~(file[d] \in Texts /\ name[d] = proc[p].want)
    <3>1. /\ r \in Process /\ ~r.fd /\ r.at = "check" /\ r.id = proc[p].id /\ r.want = proc[p].want
          /\ r.todo = proc[p].todo \ {d}
      BY <1>0, <2>0 DEF Process
    <3>2. r.at \in Launching /\ r.at \notin Late /\ r.at \notin {"act"}
      BY <3>1 DEF Launching, Late
    <3>3. r.id \in Ids /\ r.want = name[r.id]
      BY <2>0, <3>1 DEF NamesInv, KnowsName, Launching
    <3>4. file[d] # NoFile /\ name[d] = r.want => r.want \in contended'
      BY <1>0, <1>1, <2>2, <3>1 DEF Check, TypeOK
    <3>5. \A e \in Ids : /\ r.at \in Launching /\ r.want \notin contended'
                         /\ name[e] = r.want /\ file[e] # NoFile
              => e = r.id \/ (r.at = "check" /\ e \in r.todo)
      BY <2>0, <3>1, <3>2, <3>4 DEF NamesInv, LaunchIsAlone
    <3>. HIDE DEF r, NamesInv
    <3>. QED
      BY <2>0, <2>2, <3>1, <3>2, <3>3, <3>5, Steps DEF Launching
  <2>. QED
    BY <1>1, <2>1, <2>2 DEF Check
<1>2. ASSUME NEW p \in Procs, CheckPassed(p) PROVE NamesInv'
  <2>. DEFINE r == [proc[p] EXCEPT !.at = "setup"]
  <2>0. /\ proc[p].at = "check" /\ proc[p].todo = {} /\ ~proc[p].fd /\ proc' = [proc EXCEPT ![p] = r]
        /\ UNCHANGED <<name, dir, file, contended>>
    BY <1>0, <1>2 DEF CheckPassed, Become, Writing
  <2>1. /\ r \in Process /\ ~r.fd /\ r.at = "setup" /\ r.id = proc[p].id /\ r.want = proc[p].want
    BY <1>0, <2>0 DEF Process, Places, Launching
  <2>2. r.at \in Launching /\ r.at \notin Late /\ proc[p].at \in Launching
    BY <2>0, <2>1 DEF Launching, Late
  <2>3. r.id \in Ids /\ r.want = name[r.id]
    BY <2>1, <2>2 DEF NamesInv, KnowsName
  <2>4. \A e \in Ids : /\ r.at \in Launching /\ r.want \notin contended'
                       /\ name[e] = r.want /\ file[e] # NoFile
            => e = r.id
    BY <2>0, <2>1, <2>2 DEF NamesInv, LaunchIsAlone
  <2>. HIDE DEF r, NamesInv
  <2>. QED
    BY <2>0, <2>1, <2>2, <2>3, <2>4, Steps
<1>3. ASSUME NEW p \in Procs, NEW cmd \in {"ps", "rm", "start"}, NEW n \in Names \cup {NoName},
             Issue(p, cmd, n) PROVE NamesInv'
  <2>. DEFINE r == [Idle EXCEPT !.at = "refresh", !.cmd = cmd, !.want = n, !.todo = dir]
  <2>1. r \in Process /\ ~r.fd /\ r.at \in Aside
    BY <1>0 DEF Process, Places, Idle, Aside, Launching, Late, Writing
  <2>2. proc' = [proc EXCEPT ![p] = r] /\ UNCHANGED <<name, dir, file, contended>>
    BY <1>3 DEF Issue
  <2>. HIDE DEF r
  <2>. QED
    BY <2>1, <2>2, Leaves
<1>4. ASSUME NEW p \in Procs, NEW d \in Ids, Refresh(p, d) PROVE NamesInv'
  <2>. DEFINE r == [proc[p] EXCEPT !.todo = @ \ {d}, !.at = "mark", !.id = d]
              s == [proc[p] EXCEPT !.todo = @ \ {d}]
  <2>0. proc[p].at = "refresh" /\ ~proc[p].fd /\ UNCHANGED <<name, dir, file, contended>>
    BY <1>0, <1>4 DEF Refresh, Writing
  <2>1. CASE End(p)
    BY <1>a, <2>0, <2>1, Leaves DEF End
  <2>2. CASE proc' = [proc EXCEPT ![p] = s]
    <3>1. s \in Process /\ ~s.fd /\ s.at \in Aside
      BY <1>0, <2>0 DEF Process, Places, Aside, Launching, Late, Writing
    <3>. HIDE DEF s
    <3>. QED
      BY <2>0, <2>2, <3>1, Leaves
  <2>3. CASE proc' = [proc EXCEPT ![p] = r] /\ file[d] = "Active"
    <3>1. r \in Process /\ ~r.fd /\ r.at = "mark" /\ r.id = d
      BY <1>0, <2>0 DEF Process, Places
    <3>2. r.at \notin Launching \cup {"act"} /\ d \in dir /\ file[d] # NoFile
      BY <1>0, <2>3, <3>1 DEF Launching, NoFile
    <3>. HIDE DEF r
    <3>. QED
      BY <2>0, <2>3, <3>1, <3>2, Steps
  <2>. QED
    BY <1>4, <2>1, <2>2, <2>3 DEF Refresh
<1>5. ASSUME NEW p \in Procs, Refreshed(p) \/ NotFound(p) \/ RmCheck(p) PROVE NamesInv'
  <2>. DEFINE r == [proc[p] EXCEPT !.at = "search", !.todo = dir]
              s == [proc[p] EXCEPT !.at = "remove"]
  <2>0. ~proc[p].fd /\ UNCHANGED <<name, dir, file, contended>>
    BY <1>0, <1>5 DEF Refreshed, NotFound, RmCheck, Writing
  <2>1. /\ r \in Process /\ ~r.fd /\ r.at \in Aside
        /\ s \in Process /\ ~s.fd /\ s.at \in Aside
    BY <1>0, <2>0 DEF Process, Places, Aside, Launching, Late, Writing
  <2>2. \/ proc' = [proc EXCEPT ![p] = r] \/ proc' = [proc EXCEPT ![p] = s]
        \/ proc' = [proc EXCEPT ![p] = Idle]
    BY <1>5 DEF Refreshed, NotFound, RmCheck, Become, End
  <2>. HIDE DEF r, s
  <2>. QED
    BY <1>a, <2>0, <2>1, <2>2, Leaves
<1>6. ASSUME NEW p \in Procs, NEW d \in Ids, Search(p, d) PROVE NamesInv'
  <2>. DEFINE r == [proc[p] EXCEPT !.at = "act", !.id = d, !.todo = {}]
              s == [proc[p] EXCEPT !.todo = @ \ {d}]
  <2>0. proc[p].at = "search" /\ ~proc[p].fd /\ UNCHANGED <<name, dir, file, contended>>
    BY <1>0, <1>6 DEF Search, Writing
  <2>1. CASE proc' = [proc EXCEPT ![p] = s]
    <3>1. s \in Process /\ ~s.fd /\ s.at \in Aside
      BY <1>0, <2>0 DEF Process, Places, Aside, Launching, Late, Writing
    <3>. HIDE DEF s
    <3>. QED
      BY <2>0, <2>1, <3>1, Leaves
  <2>2. CASE proc' = [proc EXCEPT ![p] = r] /\ name[d] = proc[p].want
    <3>1. r \in Process /\ ~r.fd /\ r.at = "act" /\ r.id = d /\ r.want = name[r.id]
      BY <1>0, <2>0, <2>2 DEF Process, Places
    <3>2. r.at \notin Launching /\ r.at \notin Late /\ r.at \notin {"check", "setup"}
      BY <3>1 DEF Launching, Late
    <3>. HIDE DEF r
    <3>. QED
      BY <2>0, <2>2, <3>1, <3>2, Steps
  <2>. QED
    BY <1>6, <2>1, <2>2 DEF Search
<1>7. ASSUME NEW p \in Procs, Start(p) PROVE NamesInv'
  <2>. DEFINE r == [proc[p] EXCEPT !.at = "setup", !.cmd = "run"]
  <2>0. /\ proc[p].at = "act" /\ ~proc[p].fd /\ UNCHANGED <<name, dir, file>>
        /\ contended \subseteq contended'
    BY <1>0, <1>7 DEF Start, Writing
  <2>1. CASE End(p)
    BY <1>a, <2>0, <2>1, Leaves DEF End
  <2>2. CASE /\ proc' = [proc EXCEPT ![p] = r] /\ file[proc[p].id] # NoFile
             /\ contended' = IF Wanted(proc[p].want)
                             THEN contended \cup {proc[p].want} ELSE contended
    <3>1. /\ r \in Process /\ ~r.fd /\ r.at = "setup" /\ r.id = proc[p].id /\ r.want = proc[p].want
      BY <1>0, <2>0 DEF Process, Places, Launching
    <3>2. r.at \in Launching /\ r.at \notin Late
      BY <3>1 DEF Launching, Late
    <3>3. r.id \in Ids /\ r.want = name[r.id] /\ r.id \in dir /\ file[r.id] # NoFile
      BY <1>0, <2>0, <2>2, <3>1 DEF NamesInv, KnowsName
    <3>4. \A q \in Procs : proc[q].at \in Launching /\ proc[q].want = r.want
                               => r.want \in contended'
      BY <2>2, <3>1 DEF Wanted
    <3>5. \A e \in Ids : r.want \notin contended' /\ name[e] = r.want /\ file[e] # NoFile
              => e = r.id
      BY <2>0, <3>3 DEF NamesInv, OneConfig
    <3>. HIDE DEF r, NamesInv
    <3>. QED
      BY <2>0, <2>2, <3>1, <3>2, <3>3, <3>4, <3>5, Steps
  <2>. QED
    BY <1>7, <2>1, <2>2 DEF Start, NoFile
<1>8. ASSUME NEW p \in Procs, TearDown(p) PROVE NamesInv'
  <2>. DEFINE r == [proc[p] EXCEPT !.at = "final"]
  <2>1. /\ proc[p].at = "waiting" /\ ~proc[p].fd /\ proc' = [proc EXCEPT ![p] = r]
        /\ UNCHANGED <<name, dir, file, contended>>
    BY <1>0, <1>8 DEF TearDown, Become, Writing
  <2>2. r \in Process /\ ~r.fd /\ r.at = "final" /\ r.id = proc[p].id
    BY <1>0, <2>1 DEF Process, Places
  <2>3. /\ r.at \notin Launching \cup {"act"} /\ r.at \notin {"check", "setup"}
        /\ proc[p].at \in Late
    BY <2>1, <2>2 DEF Launching, Late
  <2>. HIDE DEF r
  <2>. QED
    BY <2>1, <2>2, <2>3, Steps
<1>9. ASSUME NEW p \in Procs, Kill(p) PROVE NamesInv'
  BY <1>a, <1>9, Leaves DEF Kill, End
<1>10. ASSUME NEW p \in Procs, WriteActive(p) PROVE NamesInv'
  <2>. DEFINE r == [Idle EXCEPT !.at = "waiting", !.id = proc[p].id]
  <2>1. r \in Process /\ ~r.fd /\ r.at = "waiting" /\ r.id = proc[p].id
    BY <1>0 DEF Process, Places, Idle
  <2>2. /\ proc' = [proc EXCEPT ![p] = r] /\ Put(p, "Active") /\ proc[p].at = "write"
        /\ UNCHANGED <<dir, name, contended>>
    BY <1>10 DEF WriteActive
  <2>3. "Active" \in Texts
    BY DEF Texts
  <2>. HIDE DEF r
  <2>. QED
    BY <2>1, <2>2, <2>3, PutsFile
<1>11. ASSUME NEW p \in Procs, WriteFinal(p) PROVE NamesInv'
  BY <1>a, <1>11, PutsFile DEF WriteFinal, End, Texts
<1>12. ASSUME NEW p \in Procs, WriteCleared(p) PROVE NamesInv'
  <2>. DEFINE r == [proc[p] EXCEPT !.at = "refresh", !.id = NoId, !.fd = FALSE]
  <2>1. r \in Process /\ ~r.fd /\ r.at \in Aside
    BY <1>0 DEF Process, Places, Aside, Launching, Late, Writing
  <2>2. /\ proc' = [proc EXCEPT ![p] = r] /\ Put(p, "Cleared") /\ "Cleared" \in Texts
        /\ UNCHANGED <<dir, name, contended>>
    BY <1>12 DEF WriteCleared, Texts
  <2>. HIDE DEF r
  <2>. QED
    BY <2>1, <2>2, PutsFile
<1>13. ASSUME NEW p \in Procs, OpenFinal(p) \/ OpenCleared(p) PROVE NamesInv'
  <2>. PICK c : c = proc[p].id
    OBVIOUS
  <2>. PICK next \in {"last", "marked"} : Open(p, next)
    BY <1>13 DEF OpenFinal, OpenCleared
  <2>. DEFINE r == [proc[p] EXCEPT !.at = next, !.fd = TRUE]
  <2>0. /\ proc[p].at \in {"final", "mark"} /\ UNCHANGED <<name, dir, contended>>
    BY <1>13 DEF OpenFinal, OpenCleared
  <2>1. CASE c \notin dir
    BY <1>a, <2>0, <2>1, Leaves DEF Open
  <2>2. CASE c \in dir
    <3>1. proc' = [proc EXCEPT ![p] = r] /\ file' = [file EXCEPT ![c] = "empty"] /\ c \in Ids
      BY <1>0, <2>2 DEF Open
    <3>2. r \in Process /\ r.at = next /\ r.id = c
      BY <1>0 DEF Process, Places, Writing
    <3>. HIDE DEF r
    <3>3. \A e \in Ids : name[e] \notin contended' => (file'[e] = NoFile <=> file[e] = NoFile)
      <4>1. name[c] \notin contended => file[c] # NoFile
        BY <2>0, <2>2 DEF NamesInv, LateFindsFile, Late
      <4>. QED
        BY <1>0, <2>0, <3>1, <4>1 DEF TypeOK, NoFile
    <3>4. OpenIsThere'
      BY <1>0, <3>1, <3>2 DEF NamesInv, OpenIsThere, TypeOK, NoFile
    <3>5. /\ r.at \notin Launching \cup {"act"} /\ r.at \notin Late /\ r.at \notin {"check", "setup"}
      BY <3>2 DEF Launching, Late
    <3>. HIDE DEF NamesInv, OpenIsThere
    <3>. QED
      BY <2>0, <3>1, <3>2, <3>3, <3>4, <3>5, Moves
  <2>. QED
    BY <2>1, <2>2
<1>14. ASSUME NEW p \in Procs, SetUp(p) PROVE NamesInv'
  <2>. PICK c : c = proc[p].id
    OBVIOUS
  <2>. DEFINE r == [proc[p] EXCEPT !.at = "open"]
  <2>0. proc[p].at = "setup" /\ ~proc[p].fd /\ UNCHANGED <<name, file, contended>>
    BY <1>0, <1>14 DEF SetUp, Writing
  <2>1. OpenIsThere /\ c \in Ids /\ proc[p].want = name[c]
    BY <2>0 DEF NamesInv, KnowsName, Launching
  <2>2. \A q \in Procs \ {p} : proc[q].at \in Late /\ proc[q].id \in (dir \cup {c}) \ dir
                                   => name[proc[q].id] \in contended
    BY <2>0, <2>1 DEF NamesInv, NoLateLeft
  <2>3. CASE proc' = [proc EXCEPT ![p] = Idle] /\ dir' \in {dir, dir \cup {c}}
    <3>1. OpenIsThere'
      BY <1>0, <2>0, <2>1, <2>3 DEF OpenIsThere
    <3>2. Idle.at \notin Launching \cup Late \cup {"act"} /\ Idle.at \notin {"check", "setup"}
      BY DEF Launching, Late
    <3>. QED
      BY <2>0, <2>2, <2>3, <3>1, <3>2, Moves DEF Launching
  <2>4. CASE proc' = [proc EXCEPT ![p] = r] /\ dir' = dir \cup {c}
    <3>1. r \in Process /\ ~r.fd /\ r.at = "open" /\ r.id = c /\ r.want = proc[p].want
      BY <1>0, <2>0 DEF Process, Places, Launching
    <3>. HIDE DEF r
    <3>2. OpenIsThere'
      BY <1>0, <2>0, <2>1, <2>4, <3>1 DEF OpenIsThere
    <3>3. r.at \in Launching /\ proc[p].at \in Launching /\ r.at \notin Late
      BY <2>0, <3>1 DEF Launching, Late
    <3>4. \A e \in Ids : r.want \notin contended' /\ name[e] = r.want /\ file[e] # NoFile
              => e = r.id
      BY <2>0, <3>1, <3>3 DEF NamesInv, LaunchIsAlone
    <3>. HIDE DEF NamesInv, OpenIsThere
    <3>. QED
      BY <2>0, <2>1, <2>2, <2>4, <3>1, <3>2, <3>3, <3>4, Moves
  <2>. QED
    BY <1>14, <2>3, <2>4 DEF SetUp, End, Become
<1>15. ASSUME NEW p \in Procs, OpenActive(p) PROVE NamesInv'
  <2>. PICK c : c = proc[p].id
    OBVIOUS
  <2>. DEFINE r == [proc[p] EXCEPT !.at = "write", !.fd = TRUE]
  <2>0. proc[p].at = "open" /\ Open(p, "write") /\ UNCHANGED <<name, dir, contended>>
    BY <1>15 DEF OpenActive
  <2>1. CASE c \notin dir
    BY <1>a, <2>0, <2>1, Leaves DEF Open
  <2>2. CASE c \in dir
    <3>1. proc' = [proc EXCEPT ![p] = r] /\ file' = [file EXCEPT ![c] = "empty"] /\ c \in Ids
      BY <1>0, <2>0, <2>2 DEF Open
    <3>2. r \in Process /\ r.at = "write" /\ r.id = c /\ r.want = proc[p].want
      BY <1>0 DEF Process, Places, Launching
    <3>. HIDE DEF r
    <3>3. proc'[p] = r /\ \A q \in Procs \ {p} : proc'[q] = proc[q]
      BY <1>0, <3>1
    <3>4. /\ proc[p].at \in Launching /\ r.at \in Launching /\ proc[p].at # "check"
          /\ r.at \notin {"check", "setup"} /\ r.at # "act"
      BY <2>0, <3>2 DEF Launching
    <3>5. file'[c] # NoFile /\ \A e \in Ids \ {c} : file'[e] = file[e]
      BY <1>0, <3>1 DEF TypeOK, NoFile
    <3>6. proc[p].want = name[c]
      BY <3>4 DEF NamesInv, KnowsName
    <3>7. KnowsName'
      BY <2>0, <3>1, <3>2, <3>3, <3>4, <3>6 DEF NamesInv, KnowsName
    <3>8. \A e \in Ids : name[e] = name[c] /\ name[c] \notin contended /\ file[e] # NoFile => e = c
      BY <3>4, <3>6 DEF NamesInv, LaunchIsAlone
    <3>9. OneConfig'
      BY <2>0, <3>1, <3>5, <3>8 DEF NamesInv, OneConfig
    <3>10. OneLaunch'
      BY <2>0, <3>2, <3>3, <3>4 DEF NamesInv, OneLaunch
    <3>11. LateFindsFile'
      BY <1>0, <2>0, <3>2, <3>3, <3>5 DEF NamesInv, LateFindsFile
    <3>12. NoLateLeft'
      BY <2>0, <2>2, <3>2, <3>3, <3>4 DEF NamesInv, NoLateLeft
    <3>13. OpenIsThere'
      BY <1>0, <3>2, <3>3, <3>5 DEF NamesInv, OpenIsThere
    <3>14. LaunchIsAlone'
      <4>1. \A q \in Procs \ {p} : proc[q].at \in Launching /\ proc[q].want = name[c]
                                       => name[c] \in contended
        BY <3>4, <3>6 DEF NamesInv, OneLaunch
      <4>. QED
        BY <2>0, <3>2, <3>3, <3>4, <3>5, <3>6, <3>8, <4>1 DEF NamesInv, LaunchIsAlone
    <3>. QED
      BY <3>7, <3>9, <3>10, <3>11, <3>12, <3>13, <3>14 DEF NamesInv
  <2>. QED
    BY <2>1, <2>2
<1>16. ASSUME NEW p \in Procs, NEW c \in Ids, NEW n \in Names, Run(p, c, n) PROVE NamesInv'
  <2>. DEFINE r == [Idle EXCEPT !.at = "check", !.cmd = "run", !.want = n, !.id = c, !.todo = dir]
  <2>0. /\ name[c] = NoName /\ name' = [name EXCEPT ![c] = n] /\ proc' = [proc EXCEPT ![p] = r]
        /\ contended' = IF Wanted(n) THEN contended \cup {n} ELSE contended
        /\ UNCHANGED <<dir, file>>
    BY <1>16 DEF Run
  <2>1. r \in Process /\ ~r.fd /\ r.at = "check" /\ r.id = c /\ r.want = n /\ r.todo = dir
    BY <1>0 DEF Process, Places, Launching, Idle
  <2>. HIDE DEF r
  <2>2. proc'[p] = r /\ \A q \in Procs \ {p} : proc'[q] = proc[q]
    BY <1>0, <2>0
  <2>3. r.at \in Launching /\ r.at # "act" /\ r.at \notin Late
    BY <2>1 DEF Launching, Late
  <2>4. /\ file[c] = NoFile /\ c \notin dir
        /\ \A q \in Procs : proc[q].id # c
    BY <1>0, <2>0 DEF NamedInv
  <2>5. name'[c] = n /\ \A e \in Ids \ {c} : name'[e] = name[e]
    BY <1>0, <2>0
  <2>6. \A q \in Procs : proc[q].id \in Ids => name'[proc[q].id] = name[proc[q].id]
    BY <2>4, <2>5
  <2>7. KnowsName'
    BY <2>1, <2>2, <2>5, <2>6 DEF NamesInv, KnowsName
  <2>8. OneConfig'
    BY <2>0, <2>4, <2>5 DEF NamesInv, OneConfig
  <2>9. OneLaunch'
    BY <2>0, <2>1, <2>2 DEF NamesInv, OneLaunch, Wanted
  <2>10. LateFindsFile'
    BY <1>0, <2>0, <2>2, <2>3, <2>6 DEF NamesInv, LateFindsFile
  <2>11. NoLateLeft'
    <3>1. \A q \in Procs : proc[q].at \in {"check", "setup"} => proc[q].id \in Ids
      BY DEF NamesInv, KnowsName, Launching
    <3>. QED
      BY <2>0, <2>1, <2>2, <2>3, <2>4, <2>6, <3>1 DEF NamesInv, NoLateLeft
  <2>12. OpenIsThere'
    BY <2>0, <2>1, <2>2 DEF NamesInv, OpenIsThere
  <2>13. LaunchIsAlone'
    BY <1>0, <2>0, <2>1, <2>2, <2>4, <2>5 DEF NamesInv, LaunchIsAlone
  <2>. QED
    BY <2>7, <2>8, <2>9, <2>10, <2>11, <2>12, <2>13 DEF NamesInv
<1>17. ASSUME NEW p \in Procs, Remove(p) PROVE NamesInv'
  <2>1. CASE proc' = [proc EXCEPT ![p] = Idle] /\ UNCHANGED <<dir, name, file, live, damaged, contended>>
    BY <1>a, <2>1, Leaves
  <2>2. ASSUME NEW c \in Ids, Removed(p, c) PROVE NamesInv'
    <3>0. /\ proc'[p] = Idle /\ UNCHANGED name /\ contended \subseteq contended' /\ dir' \subseteq dir
          /\ \A e \in Ids \ {c} : e \in dir => e \in dir'
          /\ c \in dir' \/ Wanted(name[c]) => name[c] \in contended'
          /\ file'[c] = NoFile /\ \A e \in Ids \ {c} : file'[e] = file[e]
          /\ \A q \in Procs \ {p} :
                /\ proc'[q].id = proc[q].id /\ proc'[q].at = proc[q].at
                /\ proc'[q].want = proc[q].want /\ proc'[q].todo = proc[q].todo
                /\ proc'[q].fd <=> proc[q].fd /\ proc[q].id # c
      BY <1>0, <2>2 DEF Removed, TypeOK
    <3>1. \A e \in Ids : file'[e] # NoFile => file[e] # NoFile
      BY <3>0
    <3>2. /\ Idle.at \notin Launching \cup Late \cup {"act"} /\ Idle.at \notin {"check", "setup"}
          /\ ~Idle.fd
      BY DEF Launching, Late
    <3>3. KnowsName'
      BY <3>0, <3>2 DEF NamesInv, KnowsName
    <3>4. OneConfig'
      BY <3>0, <3>1 DEF NamesInv, OneConfig
    <3>5. OneLaunch'
      BY <3>0, <3>2 DEF NamesInv, OneLaunch
    <3>6. LateFindsFile'
      BY <1>0, <3>0, <3>2 DEF NamesInv, LateFindsFile
    <3>7. NoLateLeft'
      <4>1. \A q \in Procs : proc[q].at \in {"check", "setup"} =>
                proc[q].id \in Ids /\ (proc[q].id = c => name[c] \in contended')
        BY <3>0 DEF NamesInv, KnowsName, Wanted, Launching
      <4>. QED
        BY <3>0, <3>2, <4>1 DEF NamesInv, NoLateLeft
    <3>8. OpenIsThere'
      BY <1>0, <3>0, <3>2 DEF NamesInv, OpenIsThere
    <3>9. LaunchIsAlone'
      BY <3>0, <3>1, <3>2 DEF NamesInv, LaunchIsAlone
    <3>. QED
      BY <3>3, <3>4, <3>5, <3>6, <3>7, <3>8, <3>9 DEF NamesInv
  <2>. QED
    BY <1>17, <2>1, <2>2, Removal
<1>18. ASSUME UNCHANGED <<dir, name, file, proc, contended>> PROVE NamesInv'
  BY <1>18 DEF NamesInv, KnowsName, OneConfig, OneLaunch, LateFindsFile, NoLateLeft,
     OpenIsThere, LaunchIsAlone
<1>19. ASSUME NEW p \in Procs, Step(p) PROVE NamesInv'
  BY <1>1, <1>2, <1>3, <1>4, <1>5, <1>6, <1>7, <1>8, <1>9, <1>10, <1>11, <1>12, <1>13,
     <1>14, <1>15, <1>16, <1>17, <1>19 DEF Step
<1>. QED
  BY <1>18, <1>19 DEF Next, Exit, vars

-----------------------------------------------------------------------------
(* "Container with name already exists" (crabtainer.rs, run): for any number
   of containers, names and processes, and through kills, restarts and
   removals, no two configs that can be read have one name that no two
   launches wanted at once, no check found half written and no rm removed
   by half or under a start.                                               *)
THEOREM NamesStayUnique == Spec => []NamesUnique
<1>1. Inv /\ NamesInv => NamesUnique
  BY DEF NamesUnique, NamesInv, OneConfig, Texts, NoFile
<1>2. Spec => [](Inv /\ NamesInv)
  BY InitInv, NextInv, NamesInit, NamesNext, PTL DEF Spec
<1>. QED
  BY <1>1, <1>2, PTL
=============================================================================
