------------------------------- MODULE Registry -------------------------------
(***************************************************************************)
(* The containers that there are, as far as config.json tells: which names *)
(* are taken (bin/crabtainer.rs, run --name and search_id_by_name) and     *)
(* what a reader finds while somebody else rewrites the file.  Commands    *)
(* and supervisors rewrite it in place with fs::write (container.rs,       *)
(* refresh.rs), which opens and truncates first and writes then, and every *)
(* reader skips a file it cannot parse.                                    *)
(*                                                                         *)
(* A process is a command and, when the command is run or start, then the  *)
(* supervisor of the container.  stop, exec and logs look a container up   *)
(* as rm does and write nothing.                                           *)
(***************************************************************************)
EXTENDS FiniteSets

CONSTANTS Ids,    \* container ids
          Names,  \* the names users give
          Procs,  \* processes that can run at the same time
          NoId, NoName

ASSUME RegistryConstants == NoId \notin Ids /\ NoName \notin Names

VARIABLES
    dir,        \* the ids that have a directory
    name,       \* the name each id was run with, NoName before that
    file,       \* what config.json of each id holds
    live,       \* the ids whose container process lives
    proc,       \* where each process is
    damaged,    \* history: ids whose config two wrote at once, or one half
    contended   \* history: names two launches wanted at once, or a check met
                \* half written, or whose container was removed by half or
                \* under a launch

vars == <<dir, name, file, live, proc, damaged, contended>>

\* A config is told by its status.  "Cleared" is the Exited of refresh, with
\* pid 0; "Final" any status a supervisor ends with, with the pid.
Texts      == {"Active", "Final", "Cleared"}
Unreadable == {"empty", "torn"}
NoFile     == "none"

\* "want" is the name a process is after, "id" the container it is at, "todo"
\* the directory entries it has not looked at, "fd" says whether the config
\* it has open is still there.
Idle == [at |-> "idle", cmd |-> "ps", want |-> NoName, id |-> NoId, todo |-> {},
         fd |-> FALSE]

Launching == {"check", "setup", "open", "write"}
Writing   == {"write", "marked", "last"}
Places    == Launching \cup Writing
             \cup {"idle", "refresh", "mark", "search", "act", "remove", "waiting", "final"}

Process == [at : Places, cmd : {"run", "ps", "rm", "start"}, want : Names \cup {NoName},
            id : Ids \cup {NoId}, todo : SUBSET Ids, fd : BOOLEAN]

TypeOK ==
    /\ dir \subseteq Ids
    /\ name \in [Ids -> Names \cup {NoName}]
    /\ file \in [Ids -> Texts \cup Unreadable \cup {NoFile}]
    /\ \A c \in Ids : file[c] # NoFile => c \in dir /\ name[c] # NoName
    /\ live \subseteq {c \in Ids : name[c] # NoName}
    /\ proc \in [Procs -> Process]
    /\ \A p \in Procs : proc[p].fd => proc[p].at \in Writing /\ proc[p].id \in dir
    /\ damaged \subseteq Ids
    /\ contended \subseteq Names

Init ==
    /\ dir = {}
    /\ name = [c \in Ids |-> NoName]
    /\ file = [c \in Ids |-> NoFile]
    /\ live = {}
    /\ proc = [p \in Procs |-> Idle]
    /\ damaged = {}
    /\ contended = {}

Become(p, l) == proc' = [proc EXCEPT ![p].at = l]
End(p)       == proc' = [proc EXCEPT ![p] = Idle]

-----------------------------------------------------------------------------
(* fs::write *)

Writers(c) == {q \in Procs : proc[q].id = c /\ proc[q].at \in Writing /\ proc[q].fd}

\* Mutant: the file is opened and not truncated.
OpenKeeping(p, next) ==
    LET c == proc[p].id
    IN  /\ IF c \in dir
           THEN file' = [file EXCEPT ![c] = IF @ = NoFile THEN "empty" ELSE @]
           ELSE UNCHANGED file
        /\ damaged' = IF c \in dir /\ Writers(c) # {} THEN damaged \cup {c} ELSE damaged
        /\ proc' = IF c \in dir THEN [proc EXCEPT ![p].at = next, ![p].fd = TRUE]
                                ELSE [proc EXCEPT ![p] = Idle]

\* File::create truncates; without the directory it fails, and the process
\* ends with it.
Open(p, next) ==
    LET c == proc[p].id
    IN  /\ file' = IF c \in dir THEN [file EXCEPT ![c] = "empty"] ELSE file
        /\ damaged' = IF c \in dir /\ Writers(c) # {} THEN damaged \cup {c} ELSE damaged
        /\ proc' = IF c \in dir THEN [proc EXCEPT ![p].at = next, ![p].fd = TRUE]
                                ELSE [proc EXCEPT ![p] = Idle]

\* What a file with content y holds after text x is written from its start.
\* The tail of a longer text stays; a cleared config is shorter than the
\* others, which differ by status, pid and environment.
Over(x, y) ==
    {z \in {x, "torn"} :
        /\ z = x => (x = "Cleared" => y \in {"empty", "Cleared"})
        /\ z = "torn" => y \notin {"empty", "Cleared"}}

\* write_all; the file may have been unlinked.
Put(p, x) ==
    LET c == proc[p].id
    IN  IF proc[p].fd THEN \E y \in Over(x, file[c]) : file' = [file EXCEPT ![c] = y]
                      ELSE UNCHANGED file

-----------------------------------------------------------------------------
(* run and start *)

Wanted(n) == \E q \in Procs : proc[q].at \in Launching /\ proc[q].want = n

\* run --name: a fresh id; the check reads the configs that are there.
Run(p, c, n) ==
    /\ proc[p].at = "idle"
    /\ name[c] = NoName
    /\ name' = [name EXCEPT ![c] = n]
    /\ proc' = [proc EXCEPT ![p] = [Idle EXCEPT !.at = "check", !.cmd = "run",
                                                !.want = n, !.id = c, !.todo = dir]]
    /\ contended' = IF Wanted(n) THEN contended \cup {n} ELSE contended
    /\ UNCHANGED <<dir, file, live, damaged>>

\* Mutant: a name counts while its container runs.
CheckActive(p, d) ==
    /\ proc[p].at = "check"
    /\ d \in proc[p].todo
    /\ IF file[d] = "Active" /\ name[d] = proc[p].want
       THEN End(p)
       ELSE proc' = [proc EXCEPT ![p].todo = @ \ {d}]
    /\ contended' = IF file[d] \in Unreadable THEN contended \cup {name[d]} ELSE contended
    /\ UNCHANGED <<dir, name, file, live, damaged>>

\* One config: the same name ends the command, a file that cannot be read or
\* parsed is skipped.
Check(p, d) ==
    /\ proc[p].at = "check"
    /\ d \in proc[p].todo
    /\ IF file[d] \in Texts /\ name[d] = proc[p].want
       THEN End(p)
       ELSE proc' = [proc EXCEPT ![p].todo = @ \ {d}]
    /\ contended' = IF file[d] \in Unreadable THEN contended \cup {name[d]} ELSE contended
    /\ UNCHANGED <<dir, name, file, live, damaged>>

CheckPassed(p) ==
    /\ proc[p].at = "check"
    /\ proc[p].todo = {}
    /\ Become(p, "setup")
    /\ UNCHANGED <<dir, name, file, live, damaged, contended>>

\* The directory, the mounts, the clone; any of it may fail.
SetUp(p) ==
    /\ proc[p].at = "setup"
    /\ \/ dir' = dir /\ End(p) /\ UNCHANGED live
       \/ dir' = dir \cup {proc[p].id} /\ End(p) /\ UNCHANGED live
       \/ /\ dir' = dir \cup {proc[p].id}
          /\ live' = live \cup {proc[p].id}
          /\ Become(p, "open")
    /\ UNCHANGED <<name, file, damaged, contended>>

OpenActive(p) ==
    /\ proc[p].at = "open"
    /\ Open(p, "write")
    /\ UNCHANGED <<dir, name, live, contended>>

WriteActive(p) ==
    /\ proc[p].at = "write"
    /\ Put(p, "Active")
    /\ proc' = [proc EXCEPT ![p] = [Idle EXCEPT !.at = "waiting", !.id = proc[p].id]]
    /\ UNCHANGED <<dir, name, live, damaged, contended>>

-----------------------------------------------------------------------------
(* The supervisor *)

\* The container ends, with or without a supervisor.
Exit(c) ==
    /\ c \in live
    /\ live' = live \ {c}
    /\ UNCHANGED <<dir, name, file, proc, damaged, contended>>

\* waitpid returned and the teardown is done.
TearDown(p) ==
    /\ proc[p].at = "waiting"
    /\ proc[p].id \notin live
    /\ Become(p, "final")
    /\ UNCHANGED <<dir, name, file, live, damaged, contended>>

OpenFinal(p) ==
    /\ proc[p].at = "final"
    /\ Open(p, "last")
    /\ UNCHANGED <<dir, name, live, contended>>

WriteFinal(p) ==
    /\ proc[p].at = "last"
    /\ Put(p, "Final")
    /\ End(p)
    /\ UNCHANGED <<dir, name, live, damaged, contended>>

-----------------------------------------------------------------------------
(* ps, rm and start: refresh_container_states, then search_id_by_name *)

Issue(p, cmd, n) ==
    /\ proc[p].at = "idle"
    /\ cmd = "ps" <=> n = NoName
    /\ proc' = [proc EXCEPT ![p] = [Idle EXCEPT !.at = "refresh", !.cmd = cmd,
                                                !.want = n, !.todo = dir]]
    /\ UNCHANGED <<dir, name, file, live, damaged, contended>>

\* Configs that say Active of a dead container are written again.  An entry
\* that is gone is passed over, or ends the command if it went just now.
Refresh(p, d) ==
    /\ proc[p].at = "refresh"
    /\ d \in proc[p].todo
    /\ \/ /\ file[d] = "Active" /\ d \notin live
          /\ proc' = [proc EXCEPT ![p].todo = @ \ {d}, ![p].at = "mark", ![p].id = d]
       \/ /\ file[d] # "Active" \/ d \in live
          /\ proc' = [proc EXCEPT ![p].todo = @ \ {d}]
       \/ file[d] = NoFile /\ End(p)
    /\ UNCHANGED <<dir, name, file, live, damaged, contended>>

OpenCleared(p) ==
    /\ proc[p].at = "mark"
    /\ Open(p, "marked")
    /\ UNCHANGED <<dir, name, live, contended>>

WriteCleared(p) ==
    /\ proc[p].at = "marked"
    /\ Put(p, "Cleared")
    /\ proc' = [proc EXCEPT ![p].at = "refresh", ![p].id = NoId, ![p].fd = FALSE]
    /\ UNCHANGED <<dir, name, live, damaged, contended>>

Refreshed(p) ==
    /\ proc[p].at = "refresh"
    /\ proc[p].todo = {}
    /\ IF proc[p].cmd = "ps" THEN End(p)
       ELSE proc' = [proc EXCEPT ![p].at = "search", ![p].todo = dir]
    /\ UNCHANGED <<dir, name, file, live, damaged, contended>>

\* The first config that parses and has the name; the others are skipped.
Search(p, d) ==
    /\ proc[p].at = "search"
    /\ d \in proc[p].todo
    /\ proc' = IF file[d] \in Texts /\ name[d] = proc[p].want
               THEN [proc EXCEPT ![p].at = "act", ![p].id = d, ![p].todo = {}]
               ELSE [proc EXCEPT ![p].todo = @ \ {d}]
    /\ UNCHANGED <<dir, name, file, live, damaged, contended>>

NotFound(p) ==
    /\ proc[p].at = "search"
    /\ proc[p].todo = {}
    /\ End(p)
    /\ UNCHANGED <<dir, name, file, live, damaged, contended>>

\* start_container reads the config; an unreadable or Active one ends it.
Start(p) ==
    /\ proc[p].at = "act"
    /\ proc[p].cmd = "start"
    /\ IF file[proc[p].id] \in {"Final", "Cleared"}
       THEN /\ proc' = [proc EXCEPT ![p].at = "setup", ![p].cmd = "run"]
            /\ contended' = IF Wanted(proc[p].want)
                            THEN contended \cup {proc[p].want} ELSE contended
       ELSE End(p) /\ UNCHANGED contended
    /\ UNCHANGED <<dir, name, file, live, damaged>>

\* handle_deletion_of_container
RmCheck(p) ==
    /\ proc[p].at = "act"
    /\ proc[p].cmd = "rm"
    /\ IF file[proc[p].id] \in {"Final", "Cleared"} THEN Become(p, "remove") ELSE End(p)
    /\ UNCHANGED <<dir, name, file, live, damaged, contended>>

\* remove_dir_all, which may fail before or after the config is gone.
Remove(p) ==
    LET c == proc[p].id
        gone == [q \in Procs |-> IF proc[q].id = c THEN [proc[q] EXCEPT !.fd = FALSE]
                                                   ELSE proc[q]]
    IN  /\ proc[p].at = "remove"
        /\ \/ /\ dir' \in {dir, dir \ {c}}
              /\ contended' = IF c \in dir' \/ Wanted(name[c])
                              THEN contended \cup {name[c]} ELSE contended
              /\ file' = [file EXCEPT ![c] = NoFile]
              /\ proc' = [gone EXCEPT ![p] = Idle]
           \/ End(p) /\ UNCHANGED <<dir, file, contended>>
        /\ UNCHANGED <<name, live, damaged>>

\* A process is killed; its container lives on.
Kill(p) ==
    /\ proc[p].at # "idle"
    /\ damaged' = IF proc[p].fd THEN damaged \cup {proc[p].id} ELSE damaged
    /\ End(p)
    /\ UNCHANGED <<dir, name, file, live, contended>>

-----------------------------------------------------------------------------
Step(p) ==
    \/ \E c \in Ids, n \in Names : Run(p, c, n)
    \/ \E d \in Ids : Check(p, d) \/ Refresh(p, d) \/ Search(p, d)
    \/ \E cmd \in {"ps", "rm", "start"}, n \in Names \cup {NoName} : Issue(p, cmd, n)
    \/ CheckPassed(p) \/ SetUp(p) \/ OpenActive(p) \/ WriteActive(p)
    \/ TearDown(p) \/ OpenFinal(p) \/ WriteFinal(p)
    \/ OpenCleared(p) \/ WriteCleared(p) \/ Refreshed(p) \/ NotFound(p)
    \/ Start(p) \/ RmCheck(p) \/ Remove(p)
    \/ Kill(p)

Next == (\E p \in Procs : Step(p)) \/ (\E c \in Ids : Exit(c))

Spec == Init /\ [][Next]_vars

-----------------------------------------------------------------------------
(* "Container with name already exists": no two containers that can be found
   have one name, through kills, restarts and removals, unless two launches
   under the name overlapped, a check met the config of such a container
   while it was being rewritten, or rm removed it under a start.           *)
NamesUnique ==
    \A c, d \in Ids :
        c # d /\ file[c] \in Texts /\ file[d] \in Texts /\ name[c] = name[d]
            => name[c] \in contended

(* A config that cannot be read is being written at this moment, so that it
   is skipped for a moment only: it stays unreadable, and its container
   beyond the reach of every command, only if a writer was killed or two
   wrote at once.                                                          *)
ConfigComesBack ==
    \A c \in Ids \ damaged : file[c] \in Unreadable => Cardinality(Writers(c)) = 1
=============================================================================
