-------------------------- MODULE ContainerProofs --------------------------
(***************************************************************************)
(* Theorems about what a container is given and what it ends with: its     *)
(* options are the ones its user wrote (Options), whatever the             *)
(* Crabtainerfile, the ignore file, the tree and the command line, and     *)
(* crabtainer_init reports the end of the containerized command and of     *)
(* nothing else (ContainerInit), whatever the orphans and the signals.     *)
(***************************************************************************)
EXTENDS ContainerInit, Options, SequenceTheorems, WellFoundedInduction, TLAPS

(* Where the target is decides what is known of its end; its exit code is
   fixed by the step that reaps it.                                        *)
EndInv ==
    /\ end[Target] = NotEnded <=> state[Target] \in {"none", "running"}
    /\ main = "booting" => state[Target] = "none"
    /\ main = "exited" => state[Target] \in {"none", "gone"}
    /\ state[Target] = "gone" =>
           main = "exited" /\ exitCode = ExitCodeOf(end[Target])

Inv == TypeOK /\ EndInv

\* What an end looks like.
LEMMA EndFacts ==
    ASSUME NEW e \in Ends
    PROVE  /\ e # NotEnded
           /\ e.how \in {"exited", "signaled"}
           /\ e.n \in 0..255
           /\ e.how = "signaled" => e.n \in {2, 9, 15}
           /\ e = [how |-> e.how, n |-> e.n]
  <1>1. CASE \E n \in Codes : e = Exited(n)
    BY <1>1, ContainerInitConstants DEF Exited, NotEnded
  <1>2. CASE \E s \in DOMAIN Number : e = Signaled(s)
    <2>1. PICK s \in {"SIGINT", "SIGKILL", "SIGTERM"} : e = Signaled(s)
      BY <1>2 DEF Number
    <2>2. Number[s] \in {2, 9, 15}
      BY DEF Number
    <2> QED
      BY <2>1, <2>2 DEF Signaled, NotEnded
  <1> QED
    BY <1>1, <1>2 DEF Ends

(* An exit code tells SIGTERM and a return of 0 from every other end,
   except that a process may return 143 itself.                            *)
LEMMA CodeTellsEnd ==
    ASSUME NEW e \in Ends
    PROVE  /\ ExitCodeOf(e) \in 0..255
           /\ ExitCodeOf(e) = 0 <=> e = Exited(0)
           /\ ExitCodeOf(e) = 143 <=> e \in {Signaled("SIGTERM"), Exited(143)}
  <1>1. /\ e.n \in 0..255
        /\ e.how \in {"exited", "signaled"}
        /\ e.how = "signaled" => e.n \in {2, 9, 15}
        /\ e = [how |-> e.how, n |-> e.n]
    BY EndFacts
  <1>2. Signaled("SIGTERM") = [how |-> "signaled", n |-> 15]
    BY DEF Signaled, Number
  <1>3. CASE e.how = "exited"
    <2>1. ExitCodeOf(e) = e.n
      BY <1>1, <1>3 DEF ExitCodeOf
    <2> QED
      BY <1>1, <1>2, <1>3, <2>1 DEF Exited
  <1>4. CASE e.how = "signaled"
    <2>1. ExitCodeOf(e) = 128 + e.n
      BY <1>1, <1>4 DEF ExitCodeOf
    <2> QED
      BY <1>1, <1>2, <1>4, <2>1 DEF Exited
  <1> QED
    BY <1>1, <1>3, <1>4

\* No process has ended at first.
LEMMA InitInv == Init => Inv
  BY ContainerInitConstants DEF Init, Inv, TypeOK, EndInv, Processes

\* Every step of PID 1, its children and its senders keeps the invariant.
LEMMA NextInv == Inv /\ [Next]_vars => Inv'
  <1> SUFFICES ASSUME Inv, [Next]_vars PROVE Inv'
    OBVIOUS
  <1> USE ContainerInitConstants DEF Inv, TypeOK, EndInv, Processes
  <1>1. ASSUME NEW c \in {1, 127}, BootFails(c) PROVE Inv'
    BY <1>1 DEF BootFails
  <1>2. CASE SpawnTarget
    BY <1>2 DEF SpawnTarget
  <1>3. CASE RegisterSignals
    BY <1>3 DEF RegisterSignals
  <1>4. ASSUME NEW sig \in Signals, Forward(sig) PROVE Inv'
    BY <1>4 DEF Forward
  <1>5. ASSUME NEW sig \in Signals, Send(sig) PROVE Inv'
    <2>1. sends' \in 0..MaxSends
      BY <1>5 DEF Send
    <2> QED
      BY <1>5, <2>1 DEF Send
  <1>6. ASSUME NEW p \in Processes, Reap(p) PROVE Inv'
    <2>1. CASE p = Target
      <3>1. end[Target] \in Ends
        BY <1>6, <2>1 DEF Reap
      <3>2. ExitCodeOf(end[Target]) \in 0..255
        BY <3>1, CodeTellsEnd
      <3>3. exitCode' = ExitCodeOf(end'[Target])
        BY <1>6, <2>1 DEF Reap
      <3> QED
        BY <1>6, <2>1, <3>2, <3>3 DEF Reap
    <2>2. CASE p # Target
      BY <1>6, <2>2 DEF Reap
    <2> QED
      BY <2>1, <2>2
  <1>7. ASSUME NEW p \in Processes, NEW e \in Ends, Ending(p, e) PROVE Inv'
    <2>1. e # NotEnded
      BY EndFacts
    <2>2. main # "exited" \/ p # Target
      BY <1>7 DEF Ending
    <2> QED
      BY <1>7, <2>1, <2>2 DEF Ending
  <1>8. ASSUME NEW o \in Orphans, Orphaned(o) PROVE Inv'
    BY <1>8 DEF Orphaned
  <1>9. CASE UNCHANGED vars
    BY <1>9 DEF vars, ExitCodeOf
  <1> QED
    BY <1>1, <1>2, <1>3, <1>4, <1>5, <1>6, <1>7, <1>8, <1>9 DEF Next, Over

\* So it always holds.
LEMMA SpecInv == Spec => []Inv
  BY InitInv, NextInv, PTL DEF Spec

(* The type invariant of crabtainer_init.                                  *)
THEOREM InitTypeCorrect == Spec => []TypeOK
  <1>1. Inv => TypeOK
    BY DEF Inv
  <1> QED
    BY <1>1, SpecInv, PTL

(* crabtainer_init never ends a container whose target has not ended, and
   the exit code is the target's: the status derived from it is Stopped or
   Exited exactly when the target's end says so.                           *)
THEOREM InitReportsTheTarget == Spec => []ReportsTheTarget
  <1>1. Inv => ReportsTheTarget
    <2> SUFFICES ASSUME Inv, main = "exited", state[Target] # "none"
                 PROVE  /\ end[Target] # NotEnded
                        /\ state[Target] = "gone"
                        /\ exitCode = ExitCodeOf(end[Target])
                        /\ StatusOf(exitCode) = "Stopped" <=>
                              end[Target] \in {Signaled("SIGTERM"), Exited(143)}
                        /\ StatusOf(exitCode) = "Exited" <=> end[Target] = Exited(0)
      BY DEF ReportsTheTarget
    <2>1. /\ end[Target] # NotEnded
          /\ state[Target] = "gone"
          /\ exitCode = ExitCodeOf(end[Target])
      BY DEF Inv, TypeOK, EndInv, Processes
    <2>2. end[Target] \in Ends
      BY <2>1 DEF Inv, TypeOK, Processes
    <2>3. /\ StatusOf(exitCode) = "Stopped" <=> exitCode = 143
          /\ StatusOf(exitCode) = "Exited" <=> exitCode = 0
      BY DEF StatusOf
    <2> QED
      BY <2>1, <2>2, <2>3, CodeTellsEnd
  <1> QED
    BY <1>1, SpecInv, PTL
-----------------------------------------------------------------------------
(* The order of the natural numbers is well founded.                       *)
LEMMA NatOrder ==
    \E R : IsWellFoundedOn(R, Nat) /\ \A x, y \in Nat : x < y => <<x, y>> \in R
<1>1. \A x, y \in Nat : x < y => <<x, y>> \in OpToRel(<, Nat)
  BY Zenon DEF OpToRel
<1>. QED
  BY <1>1, NatLessThanWellFounded, Zenon

(* A set of natural numbers has a least element, which carries the
   inductions.                                                             *)
LEMMA LeastNat ==
    ASSUME NEW T, T \subseteq Nat, T # {}
    PROVE  \E x \in T : \A y \in T : x <= y
<1>1. PICK R : IsWellFoundedOn(R, Nat) /\ \A x, y \in Nat : x < y => <<x, y>> \in R
  BY NatOrder
<1>2. PICK x \in T : \A y \in T : ~(<<y, x>> \in R)
  <2>1. ASSUME NEW Q, NEW S, IsWellFoundedOn(Q, S), NEW U, U \subseteq S, U # {}
        PROVE  \E x \in U : \A y \in U : ~ (<<y, x>> \in Q)
    BY <2>1, WFMin, Zenon
  <2>2. \A Q, S, U : IsWellFoundedOn(Q, S) /\ U \subseteq S /\ U # {}
                        => \E x \in U : \A y \in U : ~ (<<y, x>> \in Q)
    BY <2>1
  <2>3. IsWellFoundedOn(R, Nat) /\ T \subseteq Nat /\ T # {}
    BY <1>1
  <2>. QED
    BY <2>2, <2>3
<1>3. \A y \in T : y \in Nat /\ x \in Nat /\ ~(y < x)
  BY <1>1, <1>2
<1>. QED
  BY <1>3

(* Min of a set of natural numbers that is not empty is one of them.       *)
LEMMA MinIsMember ==
    ASSUME NEW T, T \subseteq Nat, T # {}
    PROVE  Min(T) \in T /\ \A x \in T : Min(T) <= x
  BY LeastNat DEF Min

\* f begins with z and goes from one stage to the next by step.
ByStages(f, z, step, n) == f[0] = z /\ \A i \in 1..n : f[i] = step[i][f[i - 1]]

(* The recursive functions of the model are defined by stages, and exist.   *)
LEMMA StagesExist ==
    ASSUME NEW S, NEW n \in Nat, NEW z \in S, NEW step \in [1..n -> [S -> S]]
    PROVE  \E f \in [0..n -> S] : ByStages(f, z, step, n)
<1> DEFINE Upto(f, m) ==
               /\ f \in [0..m -> S]
               /\ f[0] = z
               /\ \A i \in 1..m : f[i] = step[i][f[i - 1]]
           T == {m \in 0..n : ~ \E f : Upto(f, m)}
<1>1. ASSUME NEW m \in T, \A y \in T : m <= y
      PROVE  FALSE
  <2>1. m \in 0..n /\ ~ \E f : Upto(f, m)
    OBVIOUS
  <2>2. CASE m = 0
    <3>1. Upto([i \in 0..0 |-> z], 0)
      OBVIOUS
    <3>. QED
      BY <2>1, <2>2, <3>1
  <2>3. CASE m # 0
    <3>1. m - 1 \in 0..n /\ m - 1 \notin T
      <4>1. m - 1 \in 0..n /\ ~(m <= m - 1)
        BY <2>1, <2>3
      <4> HIDE DEF T
      <4>. QED
        BY <1>1, <4>1
    <3>2. PICK f : Upto(f, m - 1)
      BY <3>1
    <3>3. step[m] \in [S -> S] /\ f[m - 1] \in S
      BY <2>1, <2>3, <3>2
    <3> DEFINE g == [i \in 0..m |-> IF i = m THEN step[m][f[m - 1]] ELSE f[i]]
    <3>4. g \in [0..m -> S]
      <4>1. ASSUME NEW i \in 0..m, i # m PROVE f[i] \in S
        <5>1. i \in 0..(m - 1)
          BY <2>1, <4>1
        <5>. QED
          BY <3>2, <5>1
      <4>. QED
        BY <3>3, <4>1
    <3>5. g[0] = z
      BY <2>1, <2>3, <3>2
    <3>6. ASSUME NEW i \in 1..m
          PROVE  g[i] = step[i][g[i - 1]]
      <4>1. i - 1 \in 0..m /\ i - 1 # m
        BY <2>1
      <4>2. g[i - 1] = f[i - 1]
        BY <4>1
      <4>3. CASE i = m
        BY <4>2, <4>3
      <4>4. CASE i # m
        <5>1. i \in 1..(m - 1)
          BY <2>1, <4>4
        <5>2. f[i] = step[i][f[i - 1]]
          BY <3>2, <5>1
        <5>. QED
          BY <4>2, <4>4, <5>2
      <4>. QED
        BY <4>3, <4>4
    <3>7. Upto(g, m)
      BY <3>4, <3>5, <3>6
    <3>. QED
      BY <2>1, <3>7
  <2>. QED
    BY <2>2, <2>3
<1>2. T = {}
  <2>1. T \subseteq Nat
    OBVIOUS
  <2> HIDE DEF T
  <2>. QED
    BY <1>1, <2>1, LeastNat
<1>3. PICK f : Upto(f, n)
  <2>1. n \in 0..n
    OBVIOUS
  <2>2. ~(n \in T)
    BY <1>2, Zenon
  <2>. QED
    BY <2>1, <2>2, Zenon
<1>. QED
  BY <1>3 DEF ByStages

-----------------------------------------------------------------------------
(* The rules of .crabtainerignore and the walk of a COPY.  The way up from a
   path is the least set with it that is closed under Parent.              *)
ClosedUp(S) == \A r \in S \ {Root} : Parent[r] \in S

\* The way up from a path is the least set that has it and is closed.
LEMMA WayUp ==
    ASSUME NEW p \in Paths \cup {Root}
    PROVE  /\ Ancestors[p] \subseteq Paths \cup {Root}
           /\ p \in Ancestors[p]
           /\ ClosedUp(Ancestors[p])
           /\ \A S \in SUBSET (Paths \cup {Root}) :
                 p \in S /\ ClosedUp(S) => Ancestors[p] \subseteq S
<1>1. Ancestors[p] = {q \in Paths \cup {Root} : \A S \in SUBSET (Paths \cup {Root}) :
                          p \in S /\ ClosedUp(S) => q \in S}
  BY DEF Ancestors, ClosedUp
<1>2. ASSUME NEW r \in Ancestors[p] \ {Root}
      PROVE  Parent[r] \in Ancestors[p]
  <2>1. r \in Paths /\ Parent[r] \in Paths \cup {Root}
    BY <1>1, <1>2, TreeConstants
  <2>2. ASSUME NEW S \in SUBSET (Paths \cup {Root}), p \in S, ClosedUp(S)
        PROVE  Parent[r] \in S
    BY <1>1, <2>2 DEF ClosedUp
  <2>. QED
    BY <1>1, <2>1, <2>2
<1>. QED
  BY <1>1, <1>2 DEF ClosedUp

\* Nothing is above the root.
LEMMA WayUpFromRoot == Ancestors[Root] = {Root}
<1>1. ClosedUp({Root})
  BY DEF ClosedUp
<1>. QED
  BY <1>1, WayUp

(* The way up of a path is the path and the way up of its directory, which
   the path is not on.                                                     *)
LEMMA WayUpOfDirectory ==
    ASSUME NEW p \in Paths
    PROVE  /\ Parent[p] \in Dirs \cup {Root}
           /\ Parent[p] \in Paths \cup {Root}
           /\ Ancestors[p] = {p} \cup Ancestors[Parent[p]]
           /\ p \notin Ancestors[Parent[p]]
<1>1. Parent[p] \in Dirs \cup {Root} /\ Parent[p] \in Paths \cup {Root} /\ p # Root
  BY TreeConstants
<1> DEFINE d == Parent[p]
<1>2. Ancestors[d] \subseteq Paths \cup {Root} /\ d \in Ancestors[d] /\ ClosedUp(Ancestors[d])
  BY <1>1, WayUp
<1>3. Ancestors[p] \subseteq {p} \cup Ancestors[d]
  <2>1. ClosedUp({p} \cup Ancestors[d])
    BY <1>2 DEF ClosedUp
  <2>2. {p} \cup Ancestors[d] \in SUBSET (Paths \cup {Root})
    BY <1>2
  <2>. QED
    BY <2>1, <2>2, WayUp
<1>4. p \in Ancestors[p] /\ d \in Ancestors[p]
  BY <1>1, WayUp DEF ClosedUp
<1>5. Ancestors[d] \subseteq Ancestors[p]
  BY <1>1, <1>4, WayUp
<1>6. ASSUME p \in Ancestors[d] PROVE FALSE
  <2> DEFINE D == {q \in Paths \cup {Root} : p \in Ancestors[q]}
  <2>1. ASSUME NEW q \in D \ {Root} PROVE Parent[q] \in D
    <3>1. q \in Paths /\ p \in Ancestors[q]
      OBVIOUS
    <3>2. Parent[q] \in Paths \cup {Root}
      BY <3>1, TreeConstants
    <3>3. CASE q = p
      BY <1>1, <1>6, <3>3
    <3>4. CASE q # p
      <4> DEFINE U == {q} \cup Ancestors[Parent[q]]
      <4>1. /\ Ancestors[Parent[q]] \subseteq Paths \cup {Root}
            /\ Parent[q] \in Ancestors[Parent[q]]
            /\ ClosedUp(Ancestors[Parent[q]])
        BY <3>2, WayUp
      <4>2. U \in SUBSET (Paths \cup {Root}) /\ q \in U
        BY <3>1, <4>1
      <4>3. ClosedUp(U)
        BY <4>1 DEF ClosedUp
      <4>4. Ancestors[q] \subseteq U
        BY <3>1, <4>2, <4>3, WayUp
      <4>. QED
        BY <3>1, <3>2, <3>4, <4>4
    <3>. QED
      BY <3>3, <3>4
  <2>2. p \in D
    BY <1>4
  <2>3. ClosedUp(D) /\ D \in SUBSET (Paths \cup {Root})
    BY <2>1 DEF ClosedUp
  <2> HIDE DEF D
  <2>4. Ancestors[p] \subseteq D
    BY <2>2, <2>3, WayUp
  <2>5. Root \in D
    BY <2>4, TreeIsRooted
  <2>6. p \in Ancestors[Root]
    BY <2>5 DEF D
  <2>. QED
    BY <1>1, <2>6, WayUpFromRoot
<1>. QED
  BY <1>1, <1>3, <1>4, <1>5, <1>6

\* The last of the first m rules that match p is not negated.
LastMatchIgnores(rls, p, m) ==
    \E i \in 1..m : /\ p \in rls[i].hits /\ ~rls[i].negated
                    /\ \A j \in 1..m : j > i => p \notin rls[j].hits

\* A rule that matches decides, any other leaves the verdict as it was.
LEMMA RulesSoFar ==
    ASSUME NEW rls \in Seq(RuleSet), NEW p, NEW m \in 1..Len(rls)
    PROVE  LastMatchIgnores(rls, p, m) <=>
              IF p \in rls[m].hits THEN ~rls[m].negated ELSE LastMatchIgnores(rls, p, m - 1)
<1>1. m \in Nat /\ m - 1 \in Nat /\ \A i : i \in 1..m <=> i \in 1..(m - 1) \/ i = m
  OBVIOUS
<1>2. CASE p \in rls[m].hits
  <2>1. ASSUME NEW i \in 1..m, \A j \in 1..m : j > i => p \notin rls[j].hits
        PROVE  i = m
    BY <1>1, <1>2, <2>1
  <2>2. m \in 1..m /\ \A j \in 1..m : ~(j > m)
    OBVIOUS
  <2>. QED
    BY <1>2, <2>1, <2>2 DEF LastMatchIgnores
<1>3. CASE p \notin rls[m].hits
  <2>1. ASSUME LastMatchIgnores(rls, p, m) PROVE LastMatchIgnores(rls, p, m - 1)
    BY <1>1, <1>3, <2>1 DEF LastMatchIgnores
  <2>2. ASSUME LastMatchIgnores(rls, p, m - 1) PROVE LastMatchIgnores(rls, p, m)
    BY <1>1, <1>3, <2>2 DEF LastMatchIgnores
  <2>. QED
    BY <1>3, <2>1, <2>2
<1>. QED
  BY <1>2, <1>3

(* The loop of is_ignored ends with the verdict of the last rule that
   matches.                                                                *)
LEMMA LastRuleDecides ==
    ASSUME NEW rls \in Seq(RuleSet), NEW p
    PROVE  IsIgnored(rls, p) <=> Ignores(rls, p)
<1> DEFINE n == Len(rls)
           Rec(f) == f = [i \in 0..n |-> IF i = 0 THEN FALSE
                             ELSE IF p \in rls[i].hits THEN ~rls[i].negated ELSE f[i - 1]]
           v == CHOOSE f : Rec(f)
<1>1. n \in Nat /\ \A i \in 1..n : rls[i].negated \in BOOLEAN
  <2>1. \A i \in 1..n : rls[i] \in RuleSet
    OBVIOUS
  <2>. QED
    BY <2>1 DEF RuleSet
<1>2. IsIgnored(rls, p) <=> (p = IgnoreFile \/ v[n])
  BY DEF IsIgnored
<1>3. \E f : Rec(f)
  <2> DEFINE step == [i \in 1..n |-> [x \in BOOLEAN |->
                          IF p \in rls[i].hits THEN ~rls[i].negated ELSE x]]
  <2>1. step \in [1..n -> [BOOLEAN -> BOOLEAN]]
    OBVIOUS
  <2>2. FALSE \in BOOLEAN
    OBVIOUS
  <2> HIDE DEF step
  <2>3. PICK f \in [0..n -> BOOLEAN] : ByStages(f, FALSE, step, n)
    <3>1. \A S, z : z \in S /\ step \in [1..n -> [S -> S]] =>
             \E f \in [0..n -> S] : ByStages(f, z, step, n)
      BY <1>1, StagesExist
    <3>. QED
      BY <2>1, <2>2, <3>1, Zenon
  <2>4. ASSUME NEW i \in 0..n
        PROVE  f[i] = IF i = 0 THEN FALSE
                      ELSE IF p \in rls[i].hits THEN ~rls[i].negated ELSE f[i - 1]
    <3>1. CASE i = 0
      BY <2>3, <3>1 DEF ByStages
    <3>2. CASE i # 0
      <4>1. i \in 1..n /\ i - 1 \in 0..n
        BY <3>2
      <4>2. f[i - 1] \in BOOLEAN
        BY <2>3, <4>1
      <4>3. f[i] = step[i][f[i - 1]]
        BY <2>3, <4>1 DEF ByStages
      <4>. QED
        BY <3>2, <4>1, <4>2, <4>3 DEF step
    <3>. QED
      BY <3>1, <3>2
  <2>5. Rec(f)
    BY <2>3, <2>4
  <2>. QED
    BY <2>5
<1>4. Rec(v)
  BY <1>3
<1> HIDE DEF v
<1>5. v[0] = FALSE /\ \A i \in 1..n :
          v[i] = IF p \in rls[i].hits THEN ~rls[i].negated ELSE v[i - 1]
  <2>1. 0 \in 0..n /\ \A i \in 1..n : i \in 0..n /\ i # 0
    BY <1>1
  <2>. QED
    BY <1>4, <2>1
<1> DEFINE Good(m) == v[m] = LastMatchIgnores(rls, p, m)
           T == {m \in 0..n : ~Good(m)}
<1>6. ASSUME NEW m \in T, \A y \in T : m <= y
      PROVE  FALSE
  <2>1. m \in 0..n /\ ~Good(m)
    OBVIOUS
  <2>2. CASE m = 0
    <3>1. LastMatchIgnores(rls, p, 0) = FALSE
      BY DEF LastMatchIgnores
    <3>. QED
      BY <1>5, <2>1, <2>2, <3>1
  <2>3. CASE m # 0
    <3>1. m \in 1..n /\ m - 1 \in 0..n /\ m - 1 \notin T
      <4>1. m \in 1..n /\ m - 1 \in 0..n /\ ~(m <= m - 1)
        BY <1>1, <2>1, <2>3
      <4> HIDE DEF T
      <4>. QED
        BY <1>6, <4>1
    <3>2. v[m - 1] = LastMatchIgnores(rls, p, m - 1)
      BY <3>1
    <3>3. v[m] = IF p \in rls[m].hits THEN ~rls[m].negated ELSE v[m - 1]
      BY <1>5, <3>1
    <3>4. v[m] = LastMatchIgnores(rls, p, m)
      <4>1. LastMatchIgnores(rls, p, m) \in BOOLEAN
        BY DEF LastMatchIgnores
      <4>2. rls[m].negated \in BOOLEAN
        BY <1>1, <3>1
      <4>3. CASE p \in rls[m].hits
        <5>1. LastMatchIgnores(rls, p, m) <=> ~rls[m].negated
          BY <3>1, <4>3, RulesSoFar
        <5>. QED
          BY <3>3, <4>1, <4>2, <4>3, <5>1
      <4>4. CASE p \notin rls[m].hits
        <5>1. LastMatchIgnores(rls, p, m) <=> LastMatchIgnores(rls, p, m - 1)
          BY <3>1, <4>4, RulesSoFar
        <5>2. LastMatchIgnores(rls, p, m - 1) \in BOOLEAN
          BY DEF LastMatchIgnores
        <5>3. v[m] = LastMatchIgnores(rls, p, m - 1)
          BY <3>2, <3>3, <4>4
        <5>. QED
          BY <4>1, <5>1, <5>2, <5>3
      <4>. QED
        BY <4>3, <4>4
    <3>. QED
      BY <2>1, <3>4
  <2>. QED
    BY <2>2, <2>3
<1>7. Good(n)
  <2>1. T \subseteq Nat
    BY <1>1
  <2>2. T = {}
    <3> HIDE DEF T
    <3>. QED
      BY <1>6, <2>1, LeastNat
  <2>3. n \in 0..n
    BY <1>1
  <2>. QED
    BY <2>2, <2>3
<1>8. Ignores(rls, p) <=> (p = IgnoreFile \/ LastMatchIgnores(rls, p, n))
  <2>1. DOMAIN rls = 1..n
    OBVIOUS
  <2>. QED
    BY <2>1 DEF Ignores, LastMatchIgnores
<1>. QED
  BY <1>2, <1>7, <1>8

(* Above a directory there are only directories.                           *)
LEMMA WayUpOfDirs ==
    ASSUME NEW d \in Dirs \cup {Root}
    PROVE  Ancestors[d] \subseteq Dirs \cup {Root}
<1>1. ClosedUp(Dirs \cup {Root})
  BY TreeConstants DEF ClosedUp
<1>2. Dirs \cup {Root} \in SUBSET (Paths \cup {Root}) /\ d \in Paths \cup {Root}
  BY TreeConstants
<1>. QED
  BY <1>1, <1>2, WayUp

\* What a walk down from src reaches lies below it, through nothing ignored.
Reached(rls, src) ==
    {p \in Paths : /\ src \in Ancestors[p]
                   /\ \A q \in Ancestors[p] \ Ancestors[src] : ~Ignores(rls, q)}

\* The sets of paths the walk of collect_files does not leave.
ClosedDown(rls, src) ==
    {S \in SUBSET Paths :
        \A p \in Paths : ~IsIgnored(rls, p) /\ Parent[p] \in S \cup {src} => p \in S}

\* The walk finds nothing but what it should.
LEMMA WalkStaysBelow ==
    ASSUME NEW rls \in Seq(RuleSet), NEW src \in Dirs \cup {Root}
    PROVE  Reached(rls, src) \in ClosedDown(rls, src)
<1> DEFINE R == Reached(rls, src)
<1>1. src \in Paths \cup {Root} /\ src \in Ancestors[src]
  BY TreeConstants, WayUp
<1>2. ASSUME NEW p \in Paths, ~IsIgnored(rls, p), Parent[p] \in R \cup {src}
      PROVE  p \in R
  <2>1. ~Ignores(rls, p)
    BY <1>2, LastRuleDecides
  <2>2. Ancestors[p] = {p} \cup Ancestors[Parent[p]]
    BY WayUpOfDirectory
  <2>3. CASE Parent[p] = src
    <3>1. src \in Ancestors[p] /\ Ancestors[p] \ Ancestors[src] \subseteq {p}
      BY <1>1, <2>2, <2>3
    <3>. QED
      BY <2>1, <3>1 DEF Reached
  <2>4. CASE Parent[p] \in R
    <3>1. /\ src \in Ancestors[Parent[p]]
          /\ \A q \in Ancestors[Parent[p]] \ Ancestors[src] : ~Ignores(rls, q)
      BY <2>4 DEF Reached
    <3>. QED
      BY <2>1, <2>2, <3>1 DEF Reached
  <2>. QED
    BY <1>2, <2>3, <2>4
<1>3. R \subseteq Paths
  BY DEF Reached
<1>. QED
  BY <1>2, <1>3 DEF ClosedDown

\* The walk finds all it should.
LEMMA WalkReachesAll ==
    ASSUME NEW rls \in Seq(RuleSet), NEW src \in Dirs \cup {Root},
           NEW S \in ClosedDown(rls, src), NEW f \in Files, f \in Reached(rls, src)
    PROVE  f \in S
<1>1. /\ src \in Paths \cup {Root}
      /\ f \in Paths /\ f \notin Dirs
      /\ src \in Ancestors[f]
      /\ \A q \in Ancestors[f] \ Ancestors[src] : ~Ignores(rls, q)
  BY TreeConstants DEF Files, Reached
<1>2. /\ S \subseteq Paths
      /\ \A p \in Paths : ~Ignores(rls, p) /\ Parent[p] \in S \cup {src} => p \in S
  BY LastRuleDecides DEF ClosedDown
<1>3. Ancestors[src] \subseteq Dirs \cup {Root} /\ src \in Ancestors[src]
  BY <1>1, WayUpOfDirs, WayUp
<1>4. f \notin Ancestors[src] /\ f # Root
  BY <1>1, <1>3, TreeConstants
<1>5. /\ Ancestors[f] \subseteq Paths \cup {Root} /\ f \in Ancestors[f]
      /\ ClosedUp(Ancestors[f])
  BY <1>1, WayUp
<1> DEFINE Missed == {r \in Ancestors[f] : r \notin S /\ r \notin Ancestors[src]}
           Above  == Ancestors[src] \ {src}
           U      == Missed \cup Above
<1>6. SUFFICES ASSUME f \notin S PROVE FALSE
  OBVIOUS
<1>7. ASSUME NEW r \in Missed, r # Root
      PROVE  Parent[r] \in U
  <2>1. r \in Paths /\ Parent[r] \in Ancestors[f]
    BY <1>5, <1>7 DEF ClosedUp
  <2>2. ~Ignores(rls, r)
    BY <1>1, <1>7
  <2>3. Parent[r] \notin S /\ Parent[r] # src
    BY <1>2, <1>7, <2>1, <2>2
  <2>. QED
    BY <2>1, <2>3
<1>8. ASSUME NEW r \in Above, r # Root
      PROVE  Parent[r] \in U
  <2>1. CASE src = Root
    BY <1>8, <2>1, WayUpFromRoot
  <2>2. CASE src # Root
    <3>1. src \in Paths
      BY <1>1, <2>2
    <3>2. /\ Ancestors[src] = {src} \cup Ancestors[Parent[src]]
          /\ src \notin Ancestors[Parent[src]]
          /\ Parent[src] \in Paths \cup {Root}
      BY <3>1, WayUpOfDirectory
    <3>3. Above = Ancestors[Parent[src]]
      BY <3>2
    <3>4. ClosedUp(Ancestors[Parent[src]])
      BY <3>2, WayUp
    <3>5. Parent[r] \in Above
      BY <1>8, <3>3, <3>4 DEF ClosedUp
    <3>. QED
      BY <3>5
  <2>. QED
    BY <2>1, <2>2
<1>9. ClosedUp(U) /\ U \in SUBSET (Paths \cup {Root}) /\ f \in U
  <2>1. Ancestors[src] \subseteq Paths \cup {Root}
    BY <1>1, WayUp
  <2>2. \A r \in U \ {Root} : Parent[r] \in U
    BY <1>7, <1>8
  <2>. QED
    BY <1>4, <1>5, <1>6, <2>1, <2>2 DEF ClosedUp
<1>10. src \notin U
  BY <1>3
<1> HIDE DEF U
<1>11. Ancestors[f] \subseteq U
  BY <1>1, <1>9, WayUp
<1>. QED
  BY <1>1, <1>10, <1>11

\* The rules dotted paths meet are rules.
LEMMA RulesMet ==
    ASSUME NEW rls \in Seq(RuleSet), NEW dotted \in BOOLEAN
    PROVE  MetBy(rls, dotted) \in Seq(RuleSet)
<1> DEFINE met(i) == [rls[i] EXCEPT !.hits = rls[i].dotted]
<1>1. DOMAIN rls = 1..Len(rls) /\ Len(rls) \in Nat /\ \A i \in 1..Len(rls) : rls[i] \in RuleSet
  OBVIOUS
<1>2. \A i \in 1..Len(rls) : met(i) \in RuleSet
  BY <1>1 DEF RuleSet
<1>3. MetBy(rls, TRUE) = [i \in 1..Len(rls) |-> met(i)] /\ MetBy(rls, FALSE) = rls
  BY <1>1 DEF MetBy
<1> HIDE DEF met
<1>4. [i \in 1..Len(rls) |-> met(i)] \in Seq(RuleSet)
  BY <1>1, <1>2
<1>. QED
  BY <1>3, <1>4

\* One entry of the source of a COPY.
LEMMA EntryIsWanted ==
    ASSUME NEW rls \in Seq(RuleSet), NEW src \in Paths \cup {Root}
    PROVE  WantedOf(rls, src) = IF src \in Files THEN {src} ELSE Collect(rls, src)
<1>1. WantedOf(rls, src) = Files \cap Reached(rls, src)
  BY DEF WantedOf, Reached, Files
<1>2. CASE src \in Files
  <2>1. src \in Ancestors[src]
    BY WayUp
  <2>2. ASSUME NEW f \in Files, src \in Ancestors[f]
        PROVE  f = src
    <3>1. f \in Paths /\ src \in Paths /\ src \notin Dirs /\ src # Root
      BY <1>2, TreeConstants DEF Files
    <3>2. Ancestors[f] = {f} \cup Ancestors[Parent[f]] /\ Parent[f] \in Dirs \cup {Root}
      BY <3>1, WayUpOfDirectory
    <3>3. Ancestors[Parent[f]] \subseteq Dirs \cup {Root}
      BY <3>2, WayUpOfDirs
    <3>. QED
      BY <2>2, <3>1, <3>2, <3>3
  <2>3. WantedOf(rls, src) = {src}
    BY <1>2, <2>1, <2>2 DEF WantedOf
  <2>. QED
    BY <1>2, <2>3
<1>3. CASE src \notin Files
  <2>1. src \in Dirs \cup {Root}
    BY <1>3 DEF Files
  <2>2. Collect(rls, src) = {f \in Files : \A S \in ClosedDown(rls, src) : f \in S}
    BY DEF Collect, ClosedDown
  <2>3. ASSUME NEW f \in Files
        PROVE  (\A S \in ClosedDown(rls, src) : f \in S) <=> f \in Reached(rls, src)
    BY <2>1, WalkStaysBelow, WalkReachesAll
  <2>. QED
    BY <1>1, <1>3, <2>2, <2>3
<1>. QED
  BY <1>2, <1>3

(* A COPY takes the files its documentation promises: the walk with the
   rules applied on the way down finds what no rule applied to the way up
   leaves out.                                                             *)
LEMMA CopiesWhatIsWanted ==
    ASSUME NEW rls \in Seq(RuleSet), NEW src \in Sources
    PROVE  Copies(rls, src) = Wanted(rls, src)
<1> DEFINE met == MetBy(rls, src.dotted)
<1>1. src.entries \subseteq Paths \cup {Root} /\ met \in Seq(RuleSet)
  BY RulesMet DEF Sources
<1>2. \A e \in src.entries :
          WantedOf(met, e) = IF e \in Files THEN {e} ELSE Collect(met, e)
  BY <1>1, EntryIsWanted
<1>3. /\ \A f : f \in Copies(rls, src) <=>
             \/ f \in src.entries \cap Files
             \/ \E e \in src.entries \ Files : f \in Collect(met, e)
      /\ \A f : f \in Wanted(rls, src) <=> \E e \in src.entries : f \in WantedOf(met, e)
  BY DEF Copies, Wanted
<1> HIDE DEF met
<1>4. \A f : f \in Copies(rls, src) <=> f \in Wanted(rls, src)
  BY <1>2, <1>3
<1>5. \A S, T : (\A f : f \in S <=> f \in T) => S = T
  OBVIOUS
<1>. QED
  BY <1>4, <1>5

-----------------------------------------------------------------------------
(* The port specifications.                                                *)
TextPairs == Texts \X Texts
Results   == [result : {"ok", "error", "panic"}, pairs : Seq(TextPairs)]

\* What ParseOne may return: pairs only if it is ok.
Answer(a) == a \in Results /\ (a.result # "ok" => a.pairs = <<>>)

\* A side has a first text, and a second if it is ranged.
LEMMA OneAndTwo ==
    ASSUME NEW n \in Nat, n # 0
    PROVE  1 \in 1..n /\ (n > 1 => 2 \in 1..n) /\ (n > 1 <=> n # 1)
  OBVIOUS

\* A side has one text at least, and a ranged one two.
LEMMA SideFacts ==
    ASSUME NEW side \in Sides
    PROVE  /\ Len(side) \in Nat
           /\ 1 \in 1..Len(side)
           /\ Ranged(side) => 2 \in 1..Len(side)
           /\ Ranged(side) <=> Len(side) # 1
           /\ \A i \in 1..Len(side) : side[i] \in Texts
<1>1. side \in Seq(Texts) /\ side # <<>>
  BY DEF Sides
<1>2. Len(side) \in Nat /\ \A i \in 1..Len(side) : side[i] \in Texts
  BY <1>1
<1>3. Len(side) # 0
  BY <1>1
<1> DEFINE n == Len(side)
<1> HIDE DEF n
<1>4. 1 \in 1..n /\ (n > 1 => 2 \in 1..n) /\ (n > 1 <=> n # 1)
  <2>1. n \in Nat /\ n # 0
    BY <1>2, <1>3 DEF n
  <2>. QED
    BY <2>1, OneAndTwo
<1>. QED
  BY <1>2, <1>4 DEF Ranged, n

\* A number below the width of a u32 does not wrap.
LEMMA SmallerIsItsRest ==
    ASSUME NEW n \in Nat \ {0}, NEW a \in 0..(n - 1)
    PROVE  a % n = a
  OBVIOUS

\* Every port from lo to hi, with itself.
Mirrored(lo, hi) == {<<lo + k, lo + k>> : k \in {j \in 0..U32 : lo + j <= hi}}

\* A range that goes up has one pair for each number.
LEMMA PairsFacts ==
    ASSUME NEW lo \in 0..(U32 - 1), NEW hi \in 0..(U32 - 1)
    PROVE  /\ Pairs(lo, hi) \in Seq(TextPairs)
           /\ lo <= hi => ToSet(Pairs(lo, hi)) = Mirrored(lo, hi)
<1> DEFINE n == IF hi < lo THEN 0 ELSE hi - lo + 1
<1>1. U32 \in Nat \ {0} /\ n \in Nat
  BY PortConstants
<1>2. Pairs(lo, hi) = [i \in 1..n |-> <<lo + i - 1, lo + i - 1>>]
  BY DEF Pairs
<1>3. ASSUME NEW i \in 1..n PROVE <<lo + i - 1, lo + i - 1>> \in TextPairs
  <2>1. lo + i - 1 \in 0..(U32 - 1)
    BY <1>1, <1>3
  <2>. QED
    BY <2>1 DEF TextPairs, Texts
<1>4. Pairs(lo, hi) \in Seq(TextPairs)
  <2> HIDE DEF n
  <2> DEFINE e(i) == <<lo + i - 1, lo + i - 1>>
  <2>1. \A i \in 1..n : e(i) \in TextPairs
    BY <1>3
  <2>2. Pairs(lo, hi) = [i \in 1..n |-> e(i)]
    BY <1>2
  <2> HIDE DEF e
  <2>3. [i \in 1..n |-> e(i)] \in Seq(TextPairs)
    BY <1>1, <2>1
  <2>. QED
    BY <2>2, <2>3
<1>5. ASSUME lo <= hi
      PROVE  ToSet(Pairs(lo, hi)) = Mirrored(lo, hi)
  <2>1. n = hi - lo + 1
    BY <1>5
  <2>2. ToSet(Pairs(lo, hi)) = {<<lo + i - 1, lo + i - 1>> : i \in 1..n}
    BY <1>2 DEF ToSet
  <2>3. ASSUME NEW i \in 1..n
        PROVE  \E k \in {j \in 0..U32 : lo + j <= hi} :
                  <<lo + i - 1, lo + i - 1>> = <<lo + k, lo + k>>
    <3>1. i - 1 \in {j \in 0..U32 : lo + j <= hi} /\ lo + (i - 1) = lo + i - 1
      BY <1>1, <2>1, <2>3
    <3>. QED
      BY <3>1
  <2>4. ASSUME NEW k \in {j \in 0..U32 : lo + j <= hi}
        PROVE  \E i \in 1..n : <<lo + i - 1, lo + i - 1>> = <<lo + k, lo + k>>
    <3>1. k + 1 \in 1..n /\ lo + (k + 1) - 1 = lo + k
      BY <1>1, <2>1, <2>4
    <3>. QED
      BY <3>1
  <2> HIDE DEF n
  <2>5. ASSUME NEW x
        PROVE  x \in ToSet(Pairs(lo, hi)) <=> x \in Mirrored(lo, hi)
    <3>1. x \in ToSet(Pairs(lo, hi)) <=> \E i \in 1..n : x = <<lo + i - 1, lo + i - 1>>
      BY <2>2
    <3>2. x \in Mirrored(lo, hi) <=>
             \E k \in {j \in 0..U32 : lo + j <= hi} : x = <<lo + k, lo + k>>
      BY DEF Mirrored
    <3>. QED
      BY <2>3, <2>4, <3>1, <3>2, Zenon
  <2>. QED
    BY <2>5
<1>. QED
  BY <1>4, <1>5

\* An answer is an error without pairs, or has pairs of texts.
LEMMA ParseOneAnswers ==
    ASSUME NEW spec \in Seq(Sides)
    PROVE  Answer(ParseOne(spec))
<1>1. Answer(Refused) /\ Answer(Panics)
  <2>1. <<>> \in Seq(TextPairs)
    OBVIOUS
  <2>. QED
    BY <2>1 DEF Answer, Results, Refused, Panics
<1>2. ASSUME NEW s \in Seq(TextPairs) PROVE Answer(Ok(s))
  BY <1>2 DEF Answer, Results, Ok
<1>3. CASE Len(spec) # 2
  BY <1>1, <1>3 DEF ParseOne
<1>4. CASE Len(spec) = 2
  <2>1. spec[1] \in Sides /\ spec[2] \in Sides
    BY <1>4
  <2>2. CASE Ranged(spec[1]) /\ Ranged(spec[2])
    <3>1. CASE \E s \in {1, 2}, i \in {1, 2} : spec[s][i] = NaN
      BY <1>1, <1>4, <2>2, <3>1 DEF ParseOne
    <3>2. CASE /\ ~ \E s \in {1, 2}, i \in {1, 2} : spec[s][i] = NaN
               /\ Width(spec[1]) # Width(spec[2])
      BY <1>1, <1>4, <2>2, <3>2 DEF ParseOne
    <3>3. CASE /\ ~ \E s \in {1, 2}, i \in {1, 2} : spec[s][i] = NaN
               /\ Width(spec[1]) = Width(spec[2])
      <4>1. ParseOne(spec) = Ok(Pairs(spec[1][1], spec[1][2]))
        BY <1>4, <2>2, <3>3 DEF ParseOne
      <4>2. spec[1][1] \in 0..(U32 - 1) /\ spec[1][2] \in 0..(U32 - 1)
        <5>1. 1 \in 1..Len(spec[1]) /\ 2 \in 1..Len(spec[1])
          BY <2>1, <2>2, SideFacts
        <5>2. spec[1][1] \in Texts /\ spec[1][2] \in Texts
          BY <2>1, <5>1, SideFacts
        <5>. QED
          BY <3>3, <5>2 DEF Texts
      <4>. QED
        BY <1>2, <4>1, <4>2, PairsFacts
    <3>. QED
      BY <3>1, <3>2, <3>3
  <2>3. CASE ~Ranged(spec[1]) /\ ~Ranged(spec[2])
    <3>1. ParseOne(spec) = Ok(<< <<spec[1][1], spec[2][1]>> >>)
      BY <1>4, <2>3 DEF ParseOne
    <3>2. spec[1][1] \in Texts /\ spec[2][1] \in Texts
      <4>1. 1 \in 1..Len(spec[1]) /\ 1 \in 1..Len(spec[2])
        BY <2>1, SideFacts
      <4>. QED
        BY <2>1, <4>1, SideFacts
    <3>3. << <<spec[1][1], spec[2][1]>> >> \in Seq(TextPairs)
      BY <3>2 DEF TextPairs
    <3>. QED
      BY <1>2, <3>1, <3>3
  <2>4. CASE Ranged(spec[1]) # Ranged(spec[2])
    <3>1. ParseOne(spec) = Refused
      BY <1>4, <2>4 DEF ParseOne, Ranged
    <3>. QED
      BY <1>1, <3>1
  <2>. QED
    BY <2>2, <2>3, <2>4 DEF Ranged
<1>. QED
  BY <1>3, <1>4

(* One specification that is no exception to the rule is taken as it is
   meant, or refused.                                                      *)
LEMMA ParseOneMeans ==
    ASSUME NEW spec \in Seq(Sides), Regular(spec)
    PROVE  /\ ParseOne(spec).result = "ok" <=> IsPair(spec) \/ IsRange(spec)
           /\ ParseOne(spec).result = "ok" => ToSet(ParseOne(spec).pairs) = Meant(spec)
<1>1. Refused.result # "ok" /\ Panics.result # "ok"
  BY DEF Refused, Panics
<1>2. \A s : Ok(s).result = "ok" /\ Ok(s).pairs = s
  BY DEF Ok
<1>3. CASE Len(spec) # 2
  BY <1>1, <1>3 DEF ParseOne, IsPair, IsRange
<1>4. CASE Len(spec) = 2
  <2> DEFINE a == spec[1]
             b == spec[2]
  <2>1. a \in Sides /\ b \in Sides
    BY <1>4
  <2>2. /\ Ranged(a) <=> Len(a) # 1
        /\ Ranged(b) <=> Len(b) # 1
    BY <2>1, SideFacts
  <2>3. CASE Ranged(a) /\ Ranged(b)
    <3>1. /\ Len(a) = 2 /\ Len(b) = 2
          /\ NaN \in {a[1], a[2]} \/ a[1] <= a[2]
          /\ NaN \in {b[1], b[2]} \/ b[1] <= b[2]
          /\ IsRange(spec) => a = b
      BY <1>4, <2>3 DEF Regular
    <3>2. ~IsPair(spec)
      BY <3>1 DEF IsPair
    <3>3. /\ a[1] \in Texts /\ a[2] \in Texts
          /\ b[1] \in Texts /\ b[2] \in Texts
      BY <2>1, <2>3, SideFacts
    <3>4. (\E s \in {1, 2}, i \in {1, 2} : spec[s][i] = NaN)
             <=> NaN \in {a[1], a[2], b[1], b[2]}
      OBVIOUS
    <3>5. CASE NaN \in {a[1], a[2], b[1], b[2]}
      <4>1. ParseOne(spec) = Panics
        BY <1>4, <2>3, <3>4, <3>5 DEF ParseOne
      <4>2. ~IsRange(spec)
        BY <3>4, <3>5 DEF IsRange
      <4>. QED
        BY <1>1, <3>2, <4>1, <4>2
    <3>6. CASE NaN \notin {a[1], a[2], b[1], b[2]}
      <4>1. /\ a[1] \in 0..(U32 - 1) /\ a[2] \in 0..(U32 - 1) /\ a[1] <= a[2]
            /\ b[1] \in 0..(U32 - 1) /\ b[2] \in 0..(U32 - 1) /\ b[1] <= b[2]
        BY <3>1, <3>3, <3>6 DEF Texts
      <4>2. Width(a) = a[2] - a[1] /\ Width(b) = b[2] - b[1]
        <5>1. U32 \in Nat \ {0}
          BY PortConstants
        <5>2. a[2] - a[1] \in 0..(U32 - 1) /\ b[2] - b[1] \in 0..(U32 - 1)
          <6>1. \A p, q \in 0..(U32 - 1) : p <= q => q - p \in 0..(U32 - 1)
            BY <5>1
          <6> HIDE DEF a, b
          <6>. QED
            BY <4>1, <6>1
        <5>3. ASSUME NEW x \in 0..(U32 - 1) PROVE x % U32 = x
          BY <5>1, SmallerIsItsRest
        <5>4. Width(a) = (a[2] - a[1]) % U32 /\ Width(b) = (b[2] - b[1]) % U32
          BY DEF Width
        <5>5. (a[2] - a[1]) % U32 = a[2] - a[1] /\ (b[2] - b[1]) % U32 = b[2] - b[1]
          BY <5>2, <5>3
        <5>. QED
          BY <5>4, <5>5
      <4>3. IsRange(spec) <=> Width(a) = Width(b)
        <5>1. \A s, i \in {1, 2} : spec[s][i] # NaN
          BY <3>4, <3>6
        <5>. QED
          BY <1>4, <3>1, <4>2, <5>1 DEF IsRange
      <4>4. CASE Width(a) # Width(b)
        <5>1. ParseOne(spec) = Refused
          BY <1>4, <2>3, <3>4, <3>6, <4>4 DEF ParseOne
        <5>. QED
          BY <1>1, <3>2, <4>3, <4>4, <5>1
      <4>5. CASE Width(a) = Width(b)
        <5>1. ParseOne(spec) = Ok(Pairs(a[1], a[2]))
          BY <1>4, <2>3, <3>4, <3>6, <4>5 DEF ParseOne
        <5>2. a = b
          BY <3>1, <4>3, <4>5
        <5>3. Meant(spec) = Mirrored(a[1], a[2])
          BY <3>2, <5>2 DEF Meant, Mirrored
        <5>4. ToSet(Pairs(a[1], a[2])) = Mirrored(a[1], a[2])
          BY <4>1, PairsFacts
        <5>. QED
          BY <1>2, <4>3, <4>5, <5>1, <5>3, <5>4
      <4>. QED
        BY <4>4, <4>5
    <3>. QED
      BY <3>5, <3>6
  <2>4. CASE ~Ranged(a) /\ ~Ranged(b)
    <3>1. IsPair(spec)
      BY <1>4, <2>2, <2>4 DEF IsPair
    <3>2. ParseOne(spec) = Ok(<< <<a[1], b[1]>> >>)
      BY <1>4, <2>4 DEF ParseOne
    <3>3. ToSet(<< <<a[1], b[1]>> >>) = {<<a[1], b[1]>>}
      BY DEF ToSet
    <3>. QED
      BY <1>2, <3>1, <3>2, <3>3 DEF Meant
  <2>5. CASE Ranged(a) # Ranged(b)
    <3>1. ParseOne(spec) = Refused
      BY <1>4, <2>5 DEF ParseOne, Ranged
    <3>2. ~IsPair(spec) /\ ~IsRange(spec)
      BY <2>2, <2>5 DEF IsPair, IsRange, Ranged
    <3>. QED
      BY <1>1, <3>1, <3>2
  <2>. QED
    BY <2>3, <2>4, <2>5 DEF Ranged
<1>. QED
  BY <1>3, <1>4

\* What add_port_forwarding publishes: all pairs, if iptables takes them, and no
\* other pairs; more pairs behind them do not matter.
LEMMA BeforeFacts ==
    ASSUME NEW s \in Seq(TextPairs)
    PROVE  /\ Before(s) \subseteq UpTo(s) /\ UpTo(s) \subseteq ToSet(s)
           /\ ToSet(s) \cap Unfit = {} => ToSet(s) \subseteq Before(s)
           /\ \A u \in Seq(TextPairs) : Before(s) \subseteq Before(s \o u)
<1>1. DOMAIN s = 1..Len(s) /\ Len(s) \in Nat
  OBVIOUS
<1>2. \A j \in 1..Len(s) : 1..(j-1) \subseteq 1..j /\ 1..j \subseteq 1..Len(s)
  BY <1>1
<1>3. Before(s) \subseteq UpTo(s) /\ UpTo(s) \subseteq ToSet(s)
  <2>1. \A j \in 1..Len(s) :
            (\A k \in 1..j : s[k] \notin Unfit) => \A k \in 1..(j-1) : s[k] \notin Unfit
    BY <1>2
  <2>. QED
    BY <1>1, <2>1 DEF Before, UpTo, ToSet
<1>4. ASSUME ToSet(s) \cap Unfit = {} PROVE ToSet(s) \subseteq Before(s)
  <2>1. \A k \in 1..Len(s) : s[k] \notin Unfit
    BY <1>1, <1>4 DEF ToSet
  <2>2. \A j \in 1..Len(s) : \A k \in 1..j : s[k] \notin Unfit
    BY <1>2, <2>1
  <2>. QED
    BY <1>1, <2>2 DEF Before, ToSet
<1>5. ASSUME NEW u \in Seq(TextPairs), NEW x \in Before(s) PROVE x \in Before(s \o u)
  <2>1. PICK j \in 1..Len(s) : x = s[j] /\ \A k \in 1..j : s[k] \notin Unfit
    BY <1>1, <1>5 DEF Before
  <2>2. /\ \A k \in 1..Len(s) : (s \o u)[k] = s[k]
        /\ DOMAIN (s \o u) = 1..(Len(s) + Len(u)) /\ Len(u) \in Nat
    OBVIOUS
  <2>3. \A k \in 1..j : k \in 1..Len(s)
    BY <1>2
  <2>4. j \in DOMAIN (s \o u)
    BY <1>1, <2>2
  <2>. QED
    BY <2>1, <2>2, <2>3, <2>4 DEF Before
<1>. QED
  BY <1>3, <1>4, <1>5

\* What the loop of handle_ports has made of the first m specifications.
OkUpTo(specs, m) == \A i \in 1..m : ParseOne(specs[i]).result = "ok"
NoneUnfit(specs, m) == \A i \in 1..m : ToSet(ParseOne(specs[i]).pairs) \cap Unfit = {}
Handled(a, specs, m) ==
    /\ Answer(a)
    /\ a.result = "ok" <=> OkUpTo(specs, m)
    /\ a.result = "ok" => \A x : x \in ToSet(a.pairs) <=>
                              \E i \in 1..m : x \in ToSet(ParseOne(specs[i]).pairs)
    /\ a.result = "ok" => \A i \in 1..m : NoneUnfit(specs, i) =>
                              ToSet(ParseOne(specs[i]).pairs) \subseteq Before(a.pairs)

\* The body of that loop.
NextAnswer(sofar, one) ==
    CASE sofar.result # "ok" -> sofar
      [] sofar.result = "ok" /\ one.result # "ok" -> one
      [] OTHER -> Ok(sofar.pairs \o one.pairs)

\* One specification more adds its pairs, unless something was wrong.
LEMMA AnswersAddUp ==
    ASSUME NEW a, Answer(a), NEW b, Answer(b)
    PROVE  /\ Answer(NextAnswer(a, b))
           /\ NextAnswer(a, b).result = "ok" <=> a.result = "ok" /\ b.result = "ok"
           /\ a.result = "ok" /\ b.result = "ok" => NextAnswer(a, b).pairs = a.pairs \o b.pairs
           /\ a.result = "ok" /\ b.result = "ok" =>
                 \A x : x \in ToSet(NextAnswer(a, b).pairs) <=>
                        x \in ToSet(a.pairs) \/ x \in ToSet(b.pairs)
<1>1. CASE a.result # "ok"
  BY <1>1 DEF NextAnswer
<1>2. CASE a.result = "ok" /\ b.result # "ok"
  BY <1>2 DEF NextAnswer
<1>3. CASE a.result = "ok" /\ b.result = "ok"
  <2> DEFINE s == a.pairs
             t == b.pairs
  <2>1. s \in Seq(TextPairs) /\ t \in Seq(TextPairs)
    BY DEF Answer, Results
  <2>2. NextAnswer(a, b) = Ok(s \o t)
    BY <1>3 DEF NextAnswer
  <2> HIDE DEF s, t
  <2>3. s \o t \in Seq(TextPairs)
    BY <2>1
  <2>4. Ok(s \o t).result = "ok" /\ Ok(s \o t).pairs = s \o t
    BY DEF Ok
  <2>5. Answer(Ok(s \o t))
    BY <2>3 DEF Answer, Results, Ok
  <2>6. ASSUME NEW x
        PROVE  x \in ToSet(s \o t) <=> x \in ToSet(s) \/ x \in ToSet(t)
    <3>1. /\ DOMAIN s = 1..Len(s) /\ DOMAIN t = 1..Len(t)
          /\ DOMAIN (s \o t) = 1..(Len(s) + Len(t))
          /\ Len(s) \in Nat /\ Len(t) \in Nat
      BY <2>1
    <3>2. ASSUME NEW i \in 1..(Len(s) + Len(t))
          PROVE  (s \o t)[i] \in ToSet(s) \/ (s \o t)[i] \in ToSet(t)
      <4>1. CASE i <= Len(s)
        <5>1. i \in 1..Len(s) /\ (s \o t)[i] = s[i]
          BY <2>1, <3>1, <4>1
        <5>. QED
          BY <3>1, <5>1 DEF ToSet
      <4>2. CASE i > Len(s)
        <5>1. i - Len(s) \in 1..Len(t) /\ (s \o t)[i] = t[i - Len(s)]
          BY <2>1, <3>1, <4>2
        <5>. QED
          BY <3>1, <5>1 DEF ToSet
      <4>. QED
        BY <3>1, <4>1, <4>2
    <3>3. ASSUME NEW i \in 1..Len(s) PROVE s[i] \in ToSet(s \o t)
      <4>1. i \in 1..(Len(s) + Len(t)) /\ (s \o t)[i] = s[i]
        BY <2>1, <3>1
      <4>. QED
        BY <3>1, <4>1 DEF ToSet
    <3>4. ASSUME NEW i \in 1..Len(t) PROVE t[i] \in ToSet(s \o t)
      <4>1. /\ i + Len(s) \in 1..(Len(s) + Len(t))
            /\ (s \o t)[i + Len(s)] = t[i]
        BY <2>1, <3>1
      <4>. QED
        BY <3>1, <4>1 DEF ToSet
    <3>5. ASSUME x \in ToSet(s \o t) PROVE x \in ToSet(s) \/ x \in ToSet(t)
      <4>1. PICK i \in 1..(Len(s) + Len(t)) : x = (s \o t)[i]
        BY <3>1, <3>5 DEF ToSet
      <4>. QED
        BY <3>2, <4>1
    <3>6. ASSUME x \in ToSet(s) \/ x \in ToSet(t) PROVE x \in ToSet(s \o t)
      <4>1. (\E i \in 1..Len(s) : x = s[i]) \/ (\E i \in 1..Len(t) : x = t[i])
        BY <3>1, <3>6 DEF ToSet
      <4>. QED
        BY <3>3, <3>4, <4>1
    <3>. QED
      BY <3>5, <3>6
  <2>. QED
    BY <1>3, <2>2, <2>4, <2>5, <2>6 DEF s, t
<1>. QED
  BY <1>1, <1>2, <1>3

\* The loop collects the pairs of all specifications, or stops at the first wrong one.
LEMMA LoopOfHandlePorts ==
    ASSUME NEW specs \in Seq(Seq(Sides))
    PROVE  Handled(HandlePorts(specs), specs, Len(specs))
<1> DEFINE n == Len(specs)
           one(i) == ParseOne(specs[i])
           Rec(f) == f = [i \in 0..n |-> IF i = 0 THEN Ok(<<>>)
                                          ELSE NextAnswer(f[i - 1], one(i))]
           after == CHOOSE f : Rec(f)
<1>1. n \in Nat /\ \A i \in 1..n : Answer(one(i))
  <2>1. \A i \in 1..n : specs[i] \in Seq(Sides)
    OBVIOUS
  <2>. QED
    BY <2>1, ParseOneAnswers
<1>2. HandlePorts(specs) = after[n]
  BY DEF HandlePorts, NextAnswer
<1>3. Answer(Ok(<<>>))
  <2>1. <<>> \in Seq(TextPairs)
    OBVIOUS
  <2>. QED
    BY <2>1 DEF Answer, Results, Ok
<1>4. \E f : Rec(f)
  <2> DEFINE S == {a \in Results : Answer(a)}
             step == [i \in 1..n |-> [a \in S |-> NextAnswer(a, one(i))]]
  <2> HIDE DEF one
  <2>1. step \in [1..n -> [S -> S]]
    <3>1. ASSUME NEW i \in 1..n, NEW a \in S PROVE NextAnswer(a, one(i)) \in S
      BY <1>1, AnswersAddUp DEF Answer
    <3>. QED
      BY <3>1
  <2>2. Ok(<<>>) \in S
    BY <1>3 DEF Answer
  <2> HIDE DEF step, S
  <2>3. PICK f \in [0..n -> S] : ByStages(f, Ok(<<>>), step, n)
    <3>1. \A T, z : z \in T /\ step \in [1..n -> [T -> T]] =>
             \E f \in [0..n -> T] : ByStages(f, z, step, n)
      BY <1>1, StagesExist
    <3>. QED
      BY <2>1, <2>2, <3>1, Zenon
  <2>4. ASSUME NEW i \in 0..n
        PROVE  f[i] = IF i = 0 THEN Ok(<<>>) ELSE NextAnswer(f[i - 1], one(i))
    <3>1. CASE i = 0
      BY <2>3, <3>1 DEF ByStages
    <3>2. CASE i # 0
      <4>1. i \in 1..n /\ i - 1 \in 0..n
        BY <1>1, <3>2
      <4>2. f[i - 1] \in S
        BY <2>3, <4>1
      <4>3. f[i] = step[i][f[i - 1]]
        BY <2>3, <4>1 DEF ByStages
      <4>. QED
        BY <3>2, <4>1, <4>2, <4>3 DEF step
    <3>. QED
      BY <3>1, <3>2
  <2>5. Rec(f)
    BY <2>3, <2>4
  <2>. QED
    BY <2>5
<1>5. Rec(after)
  BY <1>4
<1> HIDE DEF after
<1>6. /\ after[0] = Ok(<<>>)
      /\ \A i \in 1..n : after[i] = NextAnswer(after[i - 1], one(i))
  <2>1. 0 \in 0..n /\ \A i \in 1..n : i \in 0..n /\ i # 0
    BY <1>1
  <2> HIDE DEF one
  <2>. QED
    BY <1>5, <2>1
<1> DEFINE T == {m \in 0..n : ~Handled(after[m], specs, m)}
<1>7. ASSUME NEW m \in T, \A y \in T : m <= y
      PROVE  FALSE
  <2>1. m \in 0..n /\ ~Handled(after[m], specs, m)
    OBVIOUS
  <2>2. CASE m = 0
    <3>1. OkUpTo(specs, 0) /\ Ok(<<>>).result = "ok" /\ ToSet(Ok(<<>>).pairs) = {}
      BY DEF OkUpTo, Ok, ToSet
    <3>2. Handled(Ok(<<>>), specs, 0)
      BY <1>3, <3>1 DEF Handled
    <3>. QED
      BY <1>6, <2>1, <2>2, <3>2
  <2>3. CASE m # 0
    <3>1. m \in 1..n /\ m - 1 \in 0..n /\ m - 1 \notin T
      <4>1. m \in 1..n /\ m - 1 \in 0..n /\ ~(m <= m - 1)
        BY <1>1, <2>1, <2>3
      <4> HIDE DEF T
      <4>. QED
        BY <1>7, <4>1
    <3>2. Handled(after[m - 1], specs, m - 1)
      BY <3>1
    <3> DEFINE a == after[m - 1]
               b == one(m)
    <3>3. after[m] = NextAnswer(a, b) /\ Answer(a) /\ Answer(b)
      BY <1>1, <1>6, <3>1, <3>2 DEF Handled
    <3>4. \A i : i \in 1..m <=> i \in 1..(m - 1) \/ i = m
      BY <1>1, <3>1
    <3>5. OkUpTo(specs, m) <=> a.result = "ok" /\ b.result = "ok"
      BY <3>2, <3>4 DEF OkUpTo, Handled
    <3>6. ASSUME a.result = "ok", NEW x
          PROVE  (\E i \in 1..m : x \in ToSet(one(i).pairs)) <=>
                     x \in ToSet(a.pairs) \/ x \in ToSet(b.pairs)
      <4>1. x \in ToSet(a.pairs) <=> \E i \in 1..(m - 1) : x \in ToSet(one(i).pairs)
        BY <3>2, <3>6 DEF Handled
      <4>. QED
        BY <3>4, <4>1, Zenon
    <3> HIDE DEF a, b
    <3>7. /\ Answer(NextAnswer(a, b))
          /\ NextAnswer(a, b).result = "ok" <=> a.result = "ok" /\ b.result = "ok"
          /\ a.result = "ok" /\ b.result = "ok" => NextAnswer(a, b).pairs = a.pairs \o b.pairs
          /\ a.result = "ok" /\ b.result = "ok" =>
                \A x : x \in ToSet(NextAnswer(a, b).pairs) <=>
                       x \in ToSet(a.pairs) \/ x \in ToSet(b.pairs)
      BY <3>3, AnswersAddUp
    <3>8. ASSUME a.result = "ok", b.result = "ok", NEW i \in 1..m, NoneUnfit(specs, i)
          PROVE  ToSet(one(i).pairs) \subseteq Before(NextAnswer(a, b).pairs)
      <4>1. a.pairs \in Seq(TextPairs) /\ b.pairs \in Seq(TextPairs)
        BY <3>3 DEF Answer, Results
      <4>2. a.pairs \o b.pairs \in Seq(TextPairs)
        BY <4>1
      <4>3. CASE i \in 1..(m - 1)
        <5>1. ToSet(one(i).pairs) \subseteq Before(a.pairs)
          BY <3>2, <3>8, <4>3 DEF Handled, a
        <5>. QED
          BY <3>7, <3>8, <4>1, <5>1, BeforeFacts
      <4>4. CASE i = m
        <5>1. \A x \in ToSet(NextAnswer(a, b).pairs) : \E j \in 1..m : x \in ToSet(one(j).pairs)
          BY <3>6, <3>7, <3>8
        <5>2. ToSet(NextAnswer(a, b).pairs) \cap Unfit = {}
          BY <3>8, <4>4, <5>1 DEF NoneUnfit
        <5>3. ToSet(one(i).pairs) \subseteq ToSet(NextAnswer(a, b).pairs)
          BY <3>6, <3>7, <3>8
        <5>. QED
          BY <3>7, <3>8, <4>2, <5>2, <5>3, BeforeFacts
      <4>. QED
        BY <3>4, <4>3, <4>4
    <3>9. Handled(NextAnswer(a, b), specs, m)
      BY <3>5, <3>6, <3>7, <3>8 DEF Handled
    <3>. QED
      BY <2>1, <3>3, <3>9
  <2>. QED
    BY <2>2, <2>3
<1>8. n \notin T
  <2>1. T \subseteq Nat
    BY <1>1
  <2> HIDE DEF T
  <2>. QED
    BY <1>7, <2>1, LeastNat
<1>. QED
  BY <1>1, <1>2, <1>8

(* The ports of regular specifications are the ones they mean, or none, and
   what comes before a refused pair is published.                          *)
LEMMA PortsMeant ==
    ASSUME NEW specs \in Seq(Seq(Sides)), \A spec \in ToSet(specs) : Regular(spec)
    PROVE  /\ ToSet(HandlePorts(specs).pairs) =
                 IF \A spec \in ToSet(specs) : IsPair(spec) \/ IsRange(spec)
                 THEN UNION {Meant(spec) : spec \in ToSet(specs)} ELSE {}
           /\ (\A spec \in ToSet(specs) : IsPair(spec) \/ IsRange(spec)) =>
                 \A m \in 1..Len(specs) : FitUpTo(specs, m) =>
                     Meant(specs[m]) \subseteq Before(HandlePorts(specs).pairs)
<1> DEFINE h == HandlePorts(specs)
           n == Len(specs)
<1>1. Handled(h, specs, n)
  BY LoopOfHandlePorts
<1>2. ToSet(specs) = {specs[i] : i \in 1..n}
  <2>1. DOMAIN specs = 1..n
    OBVIOUS
  <2>. QED
    BY <2>1 DEF ToSet
<1>3. ASSUME NEW i \in 1..n
      PROVE  /\ ParseOne(specs[i]).result = "ok" <=> IsPair(specs[i]) \/ IsRange(specs[i])
             /\ ParseOne(specs[i]).result = "ok" =>
                    ToSet(ParseOne(specs[i]).pairs) = Meant(specs[i])
  <2>1. specs[i] \in Seq(Sides) /\ Regular(specs[i])
    BY <1>2
  <2>. QED
    BY <2>1, ParseOneMeans
<1> HIDE DEF h
<1>4. h.result = "ok" <=> \A spec \in ToSet(specs) : IsPair(spec) \/ IsRange(spec)
  BY <1>1, <1>2, <1>3 DEF Handled, OkUpTo
<1>5. CASE h.result = "ok"
  <2>1. \A i \in 1..n : ToSet(ParseOne(specs[i]).pairs) = Meant(specs[i])
    BY <1>1, <1>3, <1>5 DEF Handled, OkUpTo
  <2>2. \A x : x \in ToSet(h.pairs) <=> \E i \in 1..n : x \in Meant(specs[i])
    BY <1>1, <1>5, <2>1 DEF Handled
  <2>3. \A x : x \in ToSet(h.pairs) <=> x \in UNION {Meant(spec) : spec \in ToSet(specs)}
    BY <1>2, <2>2
  <2>4. ToSet(h.pairs) = UNION {Meant(spec) : spec \in ToSet(specs)}
    <3> DEFINE L == ToSet(h.pairs)
               R == UNION {Meant(spec) : spec \in ToSet(specs)}
    <3>1. \A x : x \in L <=> x \in R
      BY <2>3
    <3> HIDE DEF L, R
    <3>2. L = R
      BY <3>1
    <3>. QED
      BY <3>2 DEF L, R
  <2>5. ASSUME NEW m \in 1..n, FitUpTo(specs, m)
        PROVE  Meant(specs[m]) \subseteq Before(h.pairs)
    <3>1. \A i \in 1..m : i \in 1..n
      OBVIOUS
    <3>2. NoneUnfit(specs, m)
      BY <2>1, <2>5, <3>1 DEF FitUpTo, NoneUnfit
    <3>. QED
      BY <1>1, <1>5, <2>1, <3>2 DEF Handled
  <2>. QED
    BY <1>4, <1>5, <2>4, <2>5 DEF h
<1>6. CASE h.result # "ok"
  <2>1. ToSet(h.pairs) = {}
    BY <1>1, <1>6 DEF Handled, Answer, ToSet
  <2>. QED
    BY <1>4, <1>6, <2>1 DEF h
<1>. QED
  BY <1>5, <1>6

-----------------------------------------------------------------------------
(* The instructions of a Crabtainerfile and the lines they stand on.  s lists
   the members of S, a set of line numbers, in ascending order.            *)
Ascending(pos, n, S) ==
    /\ pos \in [1..n -> S]
    /\ \A i \in S : \E k \in 1..n : pos[k] = i
    /\ \A j, k \in 1..n : j < k => pos[j] < pos[k]

Enumerates(s, lines, S) ==
    /\ s \in Seq(FileLines)
    /\ \E pos : Ascending(pos, Len(s), S) /\ \A k \in 1..Len(s) : s[k] = lines[pos[k]]

Instructive(lines, a, b) == {i \in a..b : ~Skipped(lines[i])}

\* A line after all others is appended.
LEMMA EnumeratesOneMore ==
    ASSUME NEW s, NEW lines, NEW S \in SUBSET Nat, Enumerates(s, lines, S),
           NEW m \in Nat, lines[m] \in FileLines, \A i \in S : i < m
    PROVE  Enumerates(Append(s, lines[m]), lines, S \cup {m})
<1> DEFINE n == Len(s)
           t == Append(s, lines[m])
<1>1. s \in Seq(FileLines) /\ n \in Nat
  BY DEF Enumerates
<1>2. PICK pos : Ascending(pos, n, S) /\ \A k \in 1..n : s[k] = lines[pos[k]]
  BY DEF Enumerates
<1>3. /\ t \in Seq(FileLines) /\ Len(t) = n + 1 /\ t[n + 1] = lines[m]
      /\ \A k \in 1..n : t[k] = s[k]
  BY <1>1
<1> HIDE DEF n, t
<1> DEFINE p == [k \in 1..(n + 1) |-> IF k = n + 1 THEN m ELSE pos[k]]
<1>4. \A k \in 1..(n + 1) : k = n + 1 \/ k \in 1..n
  BY <1>1
<1>5. /\ p[n + 1] = m /\ n + 1 \in 1..(n + 1)
      /\ \A k \in 1..n : k \in 1..(n + 1) /\ p[k] = pos[k] /\ pos[k] \in S
  BY <1>1, <1>2 DEF Ascending
<1>6. Ascending(p, n + 1, S \cup {m})
  <2>1. p \in [1..(n + 1) -> S \cup {m}]
    BY <1>4, <1>5
  <2> HIDE DEF p
  <2>2. ASSUME NEW i \in S \cup {m} PROVE \E k \in 1..(n + 1) : p[k] = i
    <3>1. CASE i = m
      BY <1>5, <3>1
    <3>2. CASE i \in S
      <4>1. PICK k \in 1..n : pos[k] = i
        BY <1>2, <3>2 DEF Ascending
      <4>. QED
        BY <1>5, <4>1
    <3>. QED
      BY <3>1, <3>2
  <2>3. ASSUME NEW j \in 1..(n + 1), NEW k \in 1..(n + 1), j < k PROVE p[j] < p[k]
    <3>1. j \in 1..n
      BY <1>1, <2>3
    <3>2. CASE k = n + 1
      BY <1>5, <3>1, <3>2
    <3>3. CASE k \in 1..n
      BY <1>2, <1>5, <2>3, <3>1, <3>3 DEF Ascending
    <3>. QED
      BY <1>4, <3>2, <3>3
  <2>. QED
    BY <2>1, <2>2, <2>3 DEF Ascending
<1>7. \A k \in 1..(n + 1) : t[k] = lines[p[k]]
  BY <1>2, <1>3, <1>4, <1>5
<1> HIDE DEF p
<1>. QED
  BY <1>3, <1>6, <1>7 DEF Enumerates, t

\* The head of an enumeration is the first line of the set, the tail has the others.
LEMMA EnumerationGoesOn ==
    ASSUME NEW s, NEW lines, NEW S \in SUBSET Nat, Enumerates(s, lines, S), s # <<>>
    PROVE  \E j \in S : /\ Head(s) = lines[j]
                        /\ \A i \in S : j <= i
                        /\ Enumerates(Tail(s), lines, S \ {j})
<1> DEFINE n == Len(s)
           t == Tail(s)
<1>1. s \in Seq(FileLines)
  BY DEF Enumerates
<1>2. n \in Nat /\ n # 0
  BY <1>1
<1>3. PICK pos : Ascending(pos, n, S) /\ \A k \in 1..n : s[k] = lines[pos[k]]
  BY DEF Enumerates
<1>4. /\ t \in Seq(FileLines) /\ Len(t) = n - 1
      /\ \A k \in 1..(n - 1) : t[k] = s[k + 1]
      /\ Head(s) = s[1]
  BY <1>1, <1>2
<1> HIDE DEF n, t
<1>5. 1 \in 1..n /\ \A k \in 1..(n - 1) : k + 1 \in 1..n /\ 1 < k + 1
  BY <1>2
<1>6. \A i \in S : pos[1] <= i
  <2>1. ASSUME NEW i \in S PROVE pos[1] <= i
    <3>1. PICK k \in 1..n : pos[k] = i
      BY <1>3 DEF Ascending
    <3>2. k = 1 \/ 1 < k
      BY <1>2
    <3>3. pos[1] \in Nat /\ (1 < k => pos[1] < pos[k])
      BY <1>3, <1>5 DEF Ascending
    <3>. QED
      BY <3>1, <3>2, <3>3
  <2>. QED
    BY <2>1
<1> DEFINE p == [k \in 1..(n - 1) |-> pos[k + 1]]
<1>7. Ascending(p, n - 1, S \ {pos[1]})
  <2>1. p \in [1..(n - 1) -> S \ {pos[1]}]
    <3>1. ASSUME NEW k \in 1..(n - 1) PROVE pos[k + 1] \in S \ {pos[1]}
      <4>1. pos[k + 1] \in S /\ pos[1] \in S /\ pos[1] < pos[k + 1]
        BY <1>3, <1>5 DEF Ascending
      <4>2. pos[1] # pos[k + 1]
        <5>1. pos[1] \in Nat /\ pos[k + 1] \in Nat
          BY <4>1
        <5>. QED
          BY <4>1, <5>1
      <4>. QED
        BY <4>1, <4>2
    <3>. QED
      BY <3>1
  <2>2. ASSUME NEW i \in S \ {pos[1]} PROVE \E k \in 1..(n - 1) : p[k] = i
    <3>1. PICK k \in 1..n : pos[k] = i
      BY <1>3 DEF Ascending
    <3>2. k - 1 \in 1..(n - 1) /\ (k - 1) + 1 = k
      <4>1. k # 1
        BY <2>2, <3>1
      <4>. QED
        BY <1>2, <4>1
    <3>3. p[k - 1] = i
      BY <3>1, <3>2
    <3>. QED
      BY <3>2, <3>3
  <2>3. ASSUME NEW j \in 1..(n - 1), NEW k \in 1..(n - 1), j < k PROVE p[j] < p[k]
    <3>1. j + 1 \in 1..n /\ k + 1 \in 1..n /\ j + 1 < k + 1
      BY <1>5, <2>3
    <3>. QED
      BY <1>3, <3>1 DEF Ascending
  <2> HIDE DEF p
  <2>. QED
    BY <2>1, <2>2, <2>3 DEF Ascending
<1>8. \A k \in 1..(n - 1) : t[k] = lines[p[k]]
  BY <1>3, <1>4, <1>5
<1>9. pos[1] \in S /\ Head(s) = lines[pos[1]]
  BY <1>3, <1>4, <1>5 DEF Ascending
<1> HIDE DEF p
<1>10. Enumerates(t, lines, S \ {pos[1]})
  BY <1>4, <1>7, <1>8 DEF Enumerates
<1>. QED
  BY <1>6, <1>9, <1>10 DEF t

\* The empty sequence enumerates no lines.
LEMMA NothingIsLeft ==
    ASSUME NEW lines, NEW S, Enumerates(<<>>, lines, S)
    PROVE  S = {}
<1>1. PICK pos : Ascending(pos, Len(<<>>), S)
  BY DEF Enumerates
<1>2. \A i \in S : \E k \in 1..0 : pos[k] = i
  BY <1>1 DEF Ascending
<1>. QED
  BY <1>2

(* The instructions are the lines that are not skipped, in their order.     *)
LEMMA InstructionsInOrder ==
    ASSUME NEW lines \in Seq(FileLines)
    PROVE  Enumerates(Instructions(lines), lines, Instructive(lines, 1, Len(lines)))
<1> DEFINE n == Len(lines)
           Rec(f) == f = [i \in 0..n |-> IF i = 0 THEN <<>>
                             ELSE IF Skipped(lines[i]) THEN f[i - 1]
                             ELSE Append(f[i - 1], lines[i])]
           pushed == CHOOSE f : Rec(f)
           Lists == Seq(FileLines)
<1>1. n \in Nat /\ \A i \in 1..n : lines[i] \in FileLines
  OBVIOUS
<1>2. Instructions(lines) = pushed[n]
  BY DEF Instructions
<1>3. <<>> \in Lists
  OBVIOUS
<1>4. \E f : Rec(f)
  <2> DEFINE step == [i \in 1..n |-> [s \in Lists |->
                          IF Skipped(lines[i]) THEN s ELSE Append(s, lines[i])]]
  <2>1. step \in [1..n -> [Lists -> Lists]]
    <3>1. ASSUME NEW i \in 1..n, NEW s \in Lists
          PROVE  (IF Skipped(lines[i]) THEN s ELSE Append(s, lines[i])) \in Lists
      BY <1>1
    <3> HIDE DEF Lists
    <3>. QED
      BY <3>1
  <2> HIDE DEF step, Lists
  <2>2. PICK f \in [0..n -> Lists] : ByStages(f, <<>>, step, n)
    <3>1. \A T, z : z \in T /\ step \in [1..n -> [T -> T]] =>
             \E f \in [0..n -> T] : ByStages(f, z, step, n)
      BY <1>1, StagesExist
    <3>. QED
      BY <1>3, <2>1, <3>1, Zenon
  <2>3. ASSUME NEW i \in 0..n
        PROVE  f[i] = IF i = 0 THEN <<>>
                      ELSE IF Skipped(lines[i]) THEN f[i - 1] ELSE Append(f[i - 1], lines[i])
    <3>1. CASE i = 0
      BY <2>2, <3>1 DEF ByStages
    <3>2. CASE i # 0
      <4>1. i \in 1..n /\ i - 1 \in 0..n
        BY <1>1, <3>2
      <4>2. f[i - 1] \in Lists
        BY <2>2, <4>1
      <4>3. f[i] = step[i][f[i - 1]]
        BY <2>2, <4>1 DEF ByStages
      <4>. QED
        BY <3>2, <4>1, <4>2, <4>3 DEF step
    <3>. QED
      BY <3>1, <3>2
  <2>4. Rec(f)
    BY <2>2, <2>3
  <2>. QED
    BY <2>4
<1>5. Rec(pushed)
  BY <1>4
<1> HIDE DEF pushed
<1>6. /\ pushed[0] = <<>>
      /\ \A i \in 1..n : pushed[i] = IF Skipped(lines[i]) THEN pushed[i - 1]
                                     ELSE Append(pushed[i - 1], lines[i])
  <2>1. 0 \in 0..n /\ \A i \in 1..n : i \in 0..n /\ i # 0
    BY <1>1
  <2>. QED
    BY <1>5, <2>1
<1> DEFINE Good(m) == Enumerates(pushed[m], lines, Instructive(lines, 1, m))
           T == {m \in 0..n : ~Good(m)}
<1>7. ASSUME NEW m \in T, \A y \in T : m <= y
      PROVE  FALSE
  <2>1. m \in 0..n /\ ~Good(m)
    OBVIOUS
  <2>2. CASE m = 0
    <3>1. Instructive(lines, 1, 0) = {}
      BY DEF Instructive
    <3>2. Ascending([k \in 1..0 |-> 0], 0, {})
      BY DEF Ascending
    <3>3. Len(<<>>) = 0
      OBVIOUS
    <3>4. Enumerates(<<>>, lines, {})
      BY <1>3, <3>2, <3>3 DEF Enumerates
    <3>. QED
      BY <1>6, <2>1, <2>2, <3>1, <3>4
  <2>3. CASE m # 0
    <3>1. m \in 1..n /\ m - 1 \in 0..n /\ m - 1 \notin T
      <4>1. m \in 1..n /\ m - 1 \in 0..n /\ ~(m <= m - 1)
        BY <1>1, <2>1, <2>3
      <4> HIDE DEF T
      <4>. QED
        BY <1>7, <4>1
    <3>2. Enumerates(pushed[m - 1], lines, Instructive(lines, 1, m - 1))
      BY <3>1
    <3>3. \A i : i \in 1..m <=> i \in 1..(m - 1) \/ i = m
      BY <1>1, <3>1
    <3>4. CASE Skipped(lines[m])
      <4>1. Instructive(lines, 1, m) = Instructive(lines, 1, m - 1)
        BY <3>3, <3>4 DEF Instructive
      <4>. QED
        BY <1>6, <2>1, <3>1, <3>2, <3>4, <4>1
    <3>5. CASE ~Skipped(lines[m])
      <4>1. Instructive(lines, 1, m) = Instructive(lines, 1, m - 1) \cup {m}
        BY <3>3, <3>5 DEF Instructive
      <4>2. /\ Instructive(lines, 1, m - 1) \in SUBSET Nat
            /\ \A i \in Instructive(lines, 1, m - 1) : i < m
        BY <1>1, <3>1 DEF Instructive
      <4>3. m \in Nat /\ lines[m] \in FileLines
        BY <1>1, <3>1
      <4>4. Enumerates(Append(pushed[m - 1], lines[m]), lines,
                       Instructive(lines, 1, m - 1) \cup {m})
        BY <3>2, <4>2, <4>3, EnumeratesOneMore
      <4>. QED
        BY <1>6, <2>1, <3>1, <3>5, <4>1, <4>4
    <3>. QED
      BY <3>4, <3>5
  <2>. QED
    BY <2>2, <2>3
<1>8. n \notin T
  <2>1. T \subseteq Nat
    BY <1>1
  <2> HIDE DEF T
  <2>. QED
    BY <1>7, <2>1, LeastNat
<1>. QED
  BY <1>1, <1>2, <1>8

-----------------------------------------------------------------------------
(* What a Crabtainerfile says line by line.                                *)
LEMMA MaxIsMember ==
    ASSUME NEW T \in SUBSET Nat, NEW j \in Nat, \A i \in T : i < j
    PROVE  Max(T \cup {j}) = j
<1> DEFINE U == T \cup {j}
<1>1. j \in U /\ \A i \in U : j >= i
  OBVIOUS
<1>2. ASSUME NEW x \in U, \A i \in U : x >= i PROVE x = j
  <2>1. x \in Nat /\ x >= j /\ (x = j \/ x < j)
    BY <1>1, <1>2
  <2>. QED
    BY <2>1
<1> HIDE DEF U
<1>3. Max(U) = j
  BY <1>1, <1>2 DEF Max
<1>. QED
  BY <1>3 DEF U

\* Line j follows line m, but for lines that are skipped.
Follows(m, j) == /\ m \in Nat /\ j \in Nat /\ m < j
                 /\ \A i \in (m + 1)..(j - 1) : Skipped(file[i])

\* With the next instruction the lines of its keyword are one more.
LEMMA LinesGrow ==
    ASSUME NEW m, NEW j, Follows(m, j), NEW key, key # "blank"
    PROVE  /\ LinesOf(key, j) = LinesOf(key, m) \cup (IF file[j].key = key THEN {j} ELSE {})
           /\ LinesOf(key, m) \in SUBSET Nat
           /\ \A i \in LinesOf(key, m) : i < j
<1>1. \A i : i \in 1..j <=> i \in 1..m \/ i \in (m + 1)..(j - 1) \/ i = j
  BY DEF Follows
<1>2. \A i \in (m + 1)..(j - 1) : file[i].key # key
  BY DEF Follows, Skipped
<1>3. \A i : i \in LinesOf(key, j) <=> i \in LinesOf(key, m) \/ (i = j /\ file[j].key = key)
  BY <1>1, <1>2 DEF LinesOf
<1>4. \A i \in 1..m : i \in Nat /\ i < j
  BY DEF Follows
<1>. QED
  BY <1>3, <1>4 DEF LinesOf

\* With the next instruction the last of its keyword is its own.
LEMMA LastGrows ==
    ASSUME NEW m, NEW j, Follows(m, j), NEW key, key # "blank"
    PROVE  LastOf(key, j) = IF file[j].key = key THEN {file[j].arg} ELSE LastOf(key, m)
<1>1. CASE file[j].key = key
  <2>1. LinesOf(key, j) = LinesOf(key, m) \cup {j}
    BY <1>1, LinesGrow
  <2>2. Max(LinesOf(key, m) \cup {j}) = j
    BY LinesGrow, MaxIsMember DEF Follows
  <2>3. LinesOf(key, j) # {}
    BY <2>1
  <2>. QED
    BY <1>1, <2>1, <2>2, <2>3 DEF LastOf
<1>2. CASE file[j].key # key
  <2>1. LinesOf(key, j) = LinesOf(key, m)
    BY <1>2, LinesGrow
  <2>. QED
    BY <1>2, <2>1 DEF LastOf
<1>. QED
  BY <1>1, <1>2

\* The base images the first n lines name.
ImagesKnown(n) == \A i \in 1..n : file[i].key = "FROM" => file[i].arg[1] \in DOMAIN ImageConfig
TheConfig(i)   == CHOOSE image \in ImageConfig[i] : TRUE

\* An image that can be read has one config.
LEMMA OneConfig ==
    ASSUME NEW i \in DOMAIN ImageConfig, ImageConfig[i] # {}
    PROVE  ImageConfig[i] = {TheConfig(i)} /\ TheConfig(i).envs \in Seq(EnvVars)
<1>1. TheConfig(i) \in ImageConfig[i]
  BY DEF TheConfig
<1>. QED
  BY <1>1, OptionConstants

\* An entry is unset exactly if no image sets it.
LEMMA FirstIsSaid ==
    ASSUME NEW n \in Nat, ImagesKnown(n), NEW entry, NEW none
    PROVE  FirstImage(entry, none, n) = none <=> Images(entry, none, n) = {}
<1> DEFINE T == Images(entry, none, n)
<1>1. CASE T = {}
  BY <1>1 DEF FirstImage
<1>2. CASE T # {}
  <2>1. T \subseteq Nat
    BY DEF Images, LinesOf
  <2>2. Min(T) \in T
    BY <1>2, <2>1, MinIsMember
  <2> DEFINE i == file[Min(T)].arg[1]
  <2>3. i \in DOMAIN ImageConfig /\ \E image \in ImageConfig[i] : image[entry] # none
    BY <2>2 DEF Images, LinesOf, ImagesKnown
  <2>4. TheConfig(i)[entry] # none
    BY <2>3, OneConfig
  <2>5. FirstImage(entry, none, n) = TheConfig(i)[entry]
    BY <1>2 DEF FirstImage, TheConfig
  <2>. QED
    BY <1>2, <2>4, <2>5
<1>. QED
  BY <1>1, <1>2

\* A FROM counts only for what no image before it has set.
LEMMA FirstGrows ==
    ASSUME NEW m, NEW j, Follows(m, j), ImagesKnown(j), NEW entry, NEW none
    PROVE  FirstImage(entry, none, j) =
              IF \/ FirstImage(entry, none, m) # none
                 \/ file[j].key # "FROM"
                 \/ ImageConfig[file[j].arg[1]] = {}
              THEN FirstImage(entry, none, m)
              ELSE TheConfig(file[j].arg[1])[entry]
<1> DEFINE T == Images(entry, none, m)
           U == Images(entry, none, j)
           i == file[j].arg[1]
           Says == \E image \in ImageConfig[i] : image[entry] # none
<1>1. m \in Nat /\ j \in Nat /\ m < j /\ j \in 1..j
  BY DEF Follows
<1>2. ImagesKnown(m)
  BY <1>1 DEF ImagesKnown
<1>3. FirstImage(entry, none, m) = none <=> T = {}
  BY <1>1, <1>2, FirstIsSaid
<1>4. LinesOf("FROM", j) = LinesOf("FROM", m) \cup (IF file[j].key = "FROM" THEN {j} ELSE {})
  BY LinesGrow
<1>5. U = T \cup (IF file[j].key = "FROM" /\ Says THEN {j} ELSE {})
  BY <1>4 DEF Images
<1>6. T \subseteq Nat /\ \A k \in T : k < j
  BY <1>1 DEF Images, LinesOf
<1>7. CASE T # {}
  <2> HIDE DEF T
  <2>1. Min(T) \in T /\ \A k \in T : Min(T) <= k
    BY <1>6, <1>7, MinIsMember
  <2>2. U # {} /\ U \subseteq Nat
    BY <1>1, <1>5, <1>6, <1>7
  <2> HIDE DEF U
  <2>3. Min(U) \in U /\ \A k \in U : Min(U) <= k
    BY <2>2, MinIsMember
  <2>4. Min(U) = Min(T)
    <3>1. Min(T) \in U /\ Min(T) < j
      BY <1>5, <1>6, <2>1
    <3>2. Min(U) <= Min(T) /\ Min(U) \in Nat /\ Min(T) \in Nat
      BY <1>6, <2>1, <2>2, <2>3, <3>1
    <3>3. Min(U) # j
      BY <1>1, <3>1, <3>2
    <3>4. Min(U) \in T
      BY <1>5, <2>3, <3>3
    <3>. QED
      BY <2>1, <3>2, <3>4
  <2>5. FirstImage(entry, none, j) = FirstImage(entry, none, m)
    BY <1>7, <2>2, <2>4 DEF FirstImage, T, U
  <2>. QED
    BY <1>3, <1>7, <2>5
<1>8. CASE T = {} /\ (file[j].key # "FROM" \/ ~Says)
  <2>1. U = {}
    BY <1>5, <1>8
  <2>2. FirstImage(entry, none, j) = none /\ FirstImage(entry, none, m) = none
    BY <1>8, <2>1 DEF FirstImage
  <2>3. CASE file[j].key = "FROM" /\ ImageConfig[i] # {}
    <3>1. i \in DOMAIN ImageConfig
      BY <1>1, <2>3 DEF ImagesKnown
    <3>2. TheConfig(i) \in ImageConfig[i]
      BY <2>3, <3>1, OneConfig
    <3>3. TheConfig(i)[entry] = none
      BY <1>8, <2>3, <3>2
    <3>. QED
      BY <2>2, <2>3, <3>3
  <2>4. CASE file[j].key # "FROM" \/ ImageConfig[i] = {}
    BY <2>2, <2>4
  <2>. QED
    BY <2>3, <2>4
<1>9. CASE T = {} /\ file[j].key = "FROM" /\ Says
  <2>1. U = {j}
    BY <1>5, <1>9
  <2>2. Min({j}) = j
    BY <1>1, MinIsMember
  <2>3. FirstImage(entry, none, j) = TheConfig(i)[entry]
    BY <2>1, <2>2 DEF FirstImage, TheConfig
  <2>4. ImageConfig[i] # {}
    BY <1>9
  <2>. QED
    BY <1>3, <1>9, <2>3, <2>4
<1>. QED
  BY <1>7, <1>8, <1>9

(* A bounded set of numbers that is not empty has a largest one.           *)
LEMMA LargestIsMember ==
    ASSUME NEW n \in Nat, NEW T, T \subseteq 0..n, T # {}
    PROVE  Max(T) \in T /\ \A i \in T : Max(T) >= i
<1> DEFINE Bounds == {x \in Nat : \A i \in T : x >= i}
<1>1. Bounds \subseteq Nat /\ n \in Bounds
  OBVIOUS
<1>2. PICK u \in Bounds : \A y \in Bounds : u <= y
  <2> HIDE DEF Bounds
  <2>. QED
    BY <1>1, LeastNat
<1>3. u \in Nat /\ \A i \in T : u >= i
  BY <1>2
<1>4. u \in T
  <2>1. SUFFICES ASSUME u \notin T PROVE FALSE
    OBVIOUS
  <2>2. PICK t : t \in T
    OBVIOUS
  <2>3. u - 1 \in Nat /\ ~(u <= u - 1)
    BY <1>3, <2>1, <2>2
  <2>4. \A i \in T : u - 1 >= i
    <3>1. \A i \in T : i \in Nat /\ u >= i /\ u # i
      BY <1>3, <2>1
    <3>. QED
      BY <1>3, <3>1
  <2>5. u - 1 \in Bounds
    BY <2>3, <2>4
  <2>. QED
    BY <1>2, <2>3, <2>5
<1>5. \E x \in T : \A i \in T : x >= i
  BY <1>3, <1>4
<1>. QED
  BY <1>5 DEF Max

\* The last instruction of a keyword is on some line.
LEMMA LastIsALine ==
    ASSUME NEW n \in Nat, NEW key, LastOf(key, n) # {}
    PROVE  \E i \in 1..n : file[i].key = key /\ LastOf(key, n) = {file[i].arg}
<1> DEFINE T == LinesOf(key, n)
<1>1. T # {}
  BY DEF LastOf
<1>2. T \subseteq 0..n
  BY DEF LinesOf
<1>3. Max(T) \in T
  <2> HIDE DEF T
  <2>. QED
    BY <1>1, <1>2, LargestIsMember
<1>. QED
  BY <1>1, <1>3 DEF LastOf, LinesOf

\* The options the first n lines add up to.
FirstArgs(args) == {arg[1] : arg \in args}
SizeArgs(args)  == {Bytes(arg[1]) : arg \in args}

Told(n) ==
    [args   |-> Or(LastOf("CMD", n), FirstImage("args", <<>>, n)),
     cpu    |-> FirstArgs(LastOf("CPU_LIMIT", n)),
     memory |-> SizeArgs(LastOf("MEMORY_LIMIT", n)),
     cwd    |-> IF LastOf("WORKDIR", n) = {} THEN FirstImage("cwd", {}, n)
                ELSE FirstArgs(LastOf("WORKDIR", n)),
     envs   |-> FirstImage("envs", <<>>, n)]

AllValid(n) == \A i \in 1..n : Skipped(file[i]) \/ Valid(file[i])

\* No lines say nothing.
LEMMA ToldBefore == Told(0) = NoOpts
<1>1. \A key : LinesOf(key, 0) = {}
  BY DEF LinesOf
<1>2. \A key : LastOf(key, 0) = {}
  BY <1>1 DEF LastOf
<1>3. \A entry, none : FirstImage(entry, none, 0) = none
  BY <1>1 DEF FirstImage, Images
<1>. QED
  BY <1>2, <1>3 DEF Told, NoOpts, Or, FirstArgs, SizeArgs

\* What lines add up to is LayoutOpts, entry by entry; some of them are replaced.
LEMMA ToldFields ==
    ASSUME NEW n
    PROVE  Told(n) = [args |-> Told(n).args, cpu |-> Told(n).cpu, memory |-> Told(n).memory,
                      cwd |-> Told(n).cwd, envs |-> Told(n).envs]
  BY DEF Told

LEMMA ReplaceField ==
    ASSUME NEW o, NEW x, o = [args |-> o.args, cpu |-> o.cpu, memory |-> o.memory,
                              cwd |-> o.cwd, envs |-> o.envs]
    PROVE  /\ [o EXCEPT !.args = x] = [args |-> x, cpu |-> o.cpu, memory |-> o.memory,
                                       cwd |-> o.cwd, envs |-> o.envs]
           /\ [o EXCEPT !.cpu = x] = [args |-> o.args, cpu |-> x, memory |-> o.memory,
                                      cwd |-> o.cwd, envs |-> o.envs]
           /\ [o EXCEPT !.memory = x] = [args |-> o.args, cpu |-> o.cpu, memory |-> x,
                                         cwd |-> o.cwd, envs |-> o.envs]
           /\ [o EXCEPT !.cwd = x] = [args |-> o.args, cpu |-> o.cpu, memory |-> o.memory,
                                      cwd |-> x, envs |-> o.envs]
  OBVIOUS

LEMMA ReplaceThree ==
    ASSUME NEW o, NEW a, NEW e, NEW w,
           o = [args |-> o.args, cpu |-> o.cpu, memory |-> o.memory,
                cwd |-> o.cwd, envs |-> o.envs]
    PROVE  [o EXCEPT !.args = a, !.envs = e, !.cwd = w] =
              [args |-> a, cpu |-> o.cpu, memory |-> o.memory, cwd |-> w, envs |-> e]
<1>1. PICK r : r = [args |-> a, cpu |-> o.cpu, memory |-> o.memory, cwd |-> o.cwd, envs |-> o.envs]
  OBVIOUS
<1>2. [o EXCEPT !.args = a] = r
  BY <1>1
<1>3. PICK q : q = [args |-> a, cpu |-> o.cpu, memory |-> o.memory, cwd |-> o.cwd, envs |-> e]
  OBVIOUS
<1>4. [r EXCEPT !.envs = e] = q
  BY <1>1, <1>3
<1>5. [q EXCEPT !.cwd = w] =
         [args |-> a, cpu |-> o.cpu, memory |-> o.memory, cwd |-> w, envs |-> e]
  BY <1>3
<1>. QED
  BY <1>2, <1>4, <1>5, Zenon

(* An instruction does to the options what its line says.                  *)
LEMMA ExecuteTells ==
    ASSUME NEW m, NEW j, Follows(m, j), ImagesKnown(j), AllValid(j), ~Skipped(file[j])
    PROVE  Told(j) = Execute(Told(m), file[j])
<1> DEFINE line == file[j]
           o == Told(m)
<1>1. m \in Nat /\ j \in Nat /\ j \in 1..j /\ \A i \in 1..m : i \in 1..j
  BY DEF Follows
<1>2. Valid(line)
  BY <1>1 DEF AllValid
<1>3. \A x, y : Or({x}, y) = x
  BY DEF Or
<1>11. o = [args |-> o.args, cpu |-> o.cpu, memory |-> o.memory, cwd |-> o.cwd, envs |-> o.envs]
  BY ToldFields
<1>4. CASE line.key = "FROM"
  <2> DEFINE i == line.arg[1]
             image == TheConfig(i)
  <2>1. i \in DOMAIN ImageConfig
    BY <1>1, <1>4 DEF ImagesKnown
  <2>2. /\ LastOf("CMD", j) = LastOf("CMD", m)
        /\ LastOf("CPU_LIMIT", j) = LastOf("CPU_LIMIT", m)
        /\ LastOf("MEMORY_LIMIT", j) = LastOf("MEMORY_LIMIT", m)
        /\ LastOf("WORKDIR", j) = LastOf("WORKDIR", m)
    BY <1>4, LastGrows
  <2>3. Execute(o, line) = FromImage(o, i)
    BY <1>4 DEF Execute
  <2>4. CASE ImageConfig[i] = {}
    <3>1. \A entry, none : FirstImage(entry, none, j) = FirstImage(entry, none, m)
      BY <2>4, FirstGrows
    <3>2. FromImage(o, i) = o
      BY <2>4 DEF FromImage
    <3>. QED
      BY <2>2, <2>3, <3>1, <3>2 DEF Told
  <2>5. CASE ImageConfig[i] # {}
    <3>1. \A entry, none : FirstImage(entry, none, j) =
             IF FirstImage(entry, none, m) # none THEN FirstImage(entry, none, m)
             ELSE image[entry]
      BY <1>4, <2>5, FirstGrows
    <3> HIDE DEF o
    <3>2. FromImage(o, i) = [o EXCEPT !.args = IF o.args = <<>> THEN image.args ELSE o.args,
                                      !.envs = IF o.envs = <<>> THEN image.envs ELSE o.envs,
                                      !.cwd  = IF o.cwd = {} THEN image.cwd ELSE o.cwd]
      BY <2>5 DEF FromImage, TheConfig, o, Told
    <3>3. Told(j).args = IF o.args = <<>> THEN image.args ELSE o.args
      <4>1. CASE LastOf("CMD", m) = {}
        BY <2>2, <3>1, <4>1 DEF Told, Or, o
      <4>2. CASE LastOf("CMD", m) # {}
        <5>1. PICK k \in 1..m : file[k].key = "CMD" /\ LastOf("CMD", m) = {file[k].arg}
          BY <1>1, <4>2, LastIsALine
        <5>2. file[k].arg # <<>>
          BY <1>1, <5>1 DEF AllValid, Skipped, Valid
        <5>3. o.args = file[k].arg /\ Told(j).args = file[k].arg
          BY <1>3, <2>2, <5>1 DEF Told, o
        <5>. QED
          BY <5>2, <5>3
      <4>. QED
        BY <4>1, <4>2
    <3>4. Told(j).envs = IF o.envs = <<>> THEN image.envs ELSE o.envs
      BY <3>1 DEF Told, o
    <3>5. Told(j).cwd = IF o.cwd = {} THEN image.cwd ELSE o.cwd
      <4>1. CASE LastOf("WORKDIR", m) = {}
        BY <2>2, <3>1, <4>1 DEF Told, o
      <4>2. CASE LastOf("WORKDIR", m) # {}
        <5>1. FirstArgs(LastOf("WORKDIR", m)) # {}
          BY <4>2 DEF FirstArgs
        <5>. QED
          BY <2>2, <4>2, <5>1 DEF Told, o
      <4>. QED
        BY <4>1, <4>2
    <3>6. Told(j).cpu = o.cpu /\ Told(j).memory = o.memory
      BY <2>2 DEF Told, o
    <3>7. FromImage(o, i) = [args |-> Told(j).args, cpu |-> o.cpu, memory |-> o.memory,
                             cwd |-> Told(j).cwd, envs |-> Told(j).envs]
      <4>1. \A a, e, w : [o EXCEPT !.args = a, !.envs = e, !.cwd = w] =
               [args |-> a, cpu |-> o.cpu, memory |-> o.memory, cwd |-> w, envs |-> e]
        BY <1>11, ReplaceThree
      <4>. QED
        BY <3>2, <3>3, <3>4, <3>5, <4>1
    <3>. QED
      BY <2>3, <3>6, <3>7, ToldFields DEF o
  <2>. QED
    BY <2>4, <2>5
<1>5. ASSUME line.key # "FROM"
      PROVE  \A entry, none : FirstImage(entry, none, j) = FirstImage(entry, none, m)
  BY <1>5, FirstGrows
<1>6. CASE line.key = "CMD"
  <2>1. /\ LastOf("CMD", j) = {line.arg}
        /\ LastOf("CPU_LIMIT", j) = LastOf("CPU_LIMIT", m)
        /\ LastOf("MEMORY_LIMIT", j) = LastOf("MEMORY_LIMIT", m)
        /\ LastOf("WORKDIR", j) = LastOf("WORKDIR", m)
    BY <1>6, LastGrows
  <2>2. Execute(o, line) = [o EXCEPT !.args = line.arg]
    BY <1>6 DEF Execute
  <2>3. /\ Told(j).args = line.arg
        /\ Told(j).cpu = o.cpu
        /\ Told(j).memory = o.memory
        /\ Told(j).cwd = o.cwd
        /\ Told(j).envs = o.envs
    BY <1>3, <1>5, <1>6, <2>1 DEF Told
  <2> HIDE DEF o
  <2>4. Execute(o, line) =
           [args |-> line.arg, cpu |-> o.cpu, memory |-> o.memory, cwd |-> o.cwd, envs |-> o.envs]
    BY <1>11, <2>2, ReplaceField
  <2>. QED
    BY <2>3, <2>4, ToldFields DEF o
<1>7. CASE line.key = "CPU_LIMIT"
  <2>1. /\ LastOf("CMD", j) = LastOf("CMD", m)
        /\ LastOf("CPU_LIMIT", j) = {line.arg}
        /\ LastOf("MEMORY_LIMIT", j) = LastOf("MEMORY_LIMIT", m)
        /\ LastOf("WORKDIR", j) = LastOf("WORKDIR", m)
    BY <1>7, LastGrows
  <2>2. Execute(o, line) = [o EXCEPT !.cpu = {line.arg[1]}]
    BY <1>7 DEF Execute
  <2>3. FirstArgs({line.arg}) = {line.arg[1]}
    BY DEF FirstArgs
  <2>4. /\ Told(j).args = o.args
        /\ Told(j).cpu = {line.arg[1]}
        /\ Told(j).memory = o.memory
        /\ Told(j).cwd = o.cwd
        /\ Told(j).envs = o.envs
    BY <1>3, <1>5, <1>7, <2>1, <2>3 DEF Told
  <2> HIDE DEF o
  <2>5. Execute(o, line) =
           [args |-> o.args, cpu |-> {line.arg[1]}, memory |-> o.memory, cwd |-> o.cwd, envs |-> o.envs]
    BY <1>11, <2>2, ReplaceField
  <2>. QED
    BY <2>4, <2>5, ToldFields DEF o
<1>8. CASE line.key = "MEMORY_LIMIT"
  <2>1. /\ LastOf("CMD", j) = LastOf("CMD", m)
        /\ LastOf("CPU_LIMIT", j) = LastOf("CPU_LIMIT", m)
        /\ LastOf("MEMORY_LIMIT", j) = {line.arg}
        /\ LastOf("WORKDIR", j) = LastOf("WORKDIR", m)
    BY <1>8, LastGrows
  <2>2. Execute(o, line) = [o EXCEPT !.memory = {Bytes(line.arg[1])}]
    BY <1>8 DEF Execute
  <2>3. SizeArgs({line.arg}) = {Bytes(line.arg[1])}
    BY DEF SizeArgs
  <2>4. /\ Told(j).args = o.args
        /\ Told(j).cpu = o.cpu
        /\ Told(j).memory = {Bytes(line.arg[1])}
        /\ Told(j).cwd = o.cwd
        /\ Told(j).envs = o.envs
    BY <1>3, <1>5, <1>8, <2>1, <2>3 DEF Told
  <2> HIDE DEF o
  <2>5. Execute(o, line) =
           [args |-> o.args, cpu |-> o.cpu, memory |-> {Bytes(line.arg[1])}, cwd |-> o.cwd, envs |-> o.envs]
    BY <1>11, <2>2, ReplaceField
  <2>. QED
    BY <2>4, <2>5, ToldFields DEF o
<1>9. CASE line.key = "WORKDIR"
  <2>1. /\ LastOf("CMD", j) = LastOf("CMD", m)
        /\ LastOf("CPU_LIMIT", j) = LastOf("CPU_LIMIT", m)
        /\ LastOf("MEMORY_LIMIT", j) = LastOf("MEMORY_LIMIT", m)
        /\ LastOf("WORKDIR", j) = {line.arg}
    BY <1>9, LastGrows
  <2>2. Execute(o, line) = [o EXCEPT !.cwd = {line.arg[1]}]
    BY <1>9 DEF Execute
  <2>3. FirstArgs({line.arg}) = {line.arg[1]} /\ {line.arg} # {}
    BY DEF FirstArgs
  <2>4. /\ Told(j).args = o.args
        /\ Told(j).cpu = o.cpu
        /\ Told(j).memory = o.memory
        /\ Told(j).cwd = {line.arg[1]}
        /\ Told(j).envs = o.envs
    BY <1>3, <1>5, <1>9, <2>1, <2>3 DEF Told
  <2> HIDE DEF o
  <2>5. Execute(o, line) =
           [args |-> o.args, cpu |-> o.cpu, memory |-> o.memory, cwd |-> {line.arg[1]}, envs |-> o.envs]
    BY <1>11, <2>2, ReplaceField
  <2>. QED
    BY <2>4, <2>5, ToldFields DEF o
<1>10. CASE line.key \notin {"FROM", "CMD", "CPU_LIMIT", "MEMORY_LIMIT", "WORKDIR"}
  <2>1. /\ LastOf("CMD", j) = LastOf("CMD", m)
        /\ LastOf("CPU_LIMIT", j) = LastOf("CPU_LIMIT", m)
        /\ LastOf("MEMORY_LIMIT", j) = LastOf("MEMORY_LIMIT", m)
        /\ LastOf("WORKDIR", j) = LastOf("WORKDIR", m)
    BY <1>10, LastGrows
  <2>2. Execute(o, line) = o
    BY <1>10 DEF Execute
  <2>. QED
    BY <1>5, <1>10, <2>1, <2>2 DEF Told
<1>. QED
  BY <1>4, <1>6, <1>7, <1>8, <1>9, <1>10

-----------------------------------------------------------------------------
(* The inductive invariant of Options.  While a layout is built, the
   instructions that are left are those of the lines after some line m, and
   what was done is what the lines up to m say.                            *)
CopiedBy(n) == UNION {Wanted(rules, file[i].arg[1]) : i \in LinesOf("COPY", n)}
Done(n)     == opts = Told(n) /\ copied = CopiedBy(n)

BuildInv ==
    /\ file \in Seq(FileLines) /\ rules \in Seq(RuleSet)
    /\ stage \in {"parse", "build", "refused", "saved", "built"}
    /\ stage \in {"build", "saved"} => AllValid(Len(file))
    /\ stage = "parse" => opts = NoOpts /\ copied = {}
    /\ stage = "build" =>
          \E m \in 0..Len(file) :
             Done(m) /\ Enumerates(todo, file, Instructive(file, m + 1, Len(file)))
    /\ stage = "saved" => Done(Len(file)) /\ layout = {Meaning(Len(file))}
    /\ cfg # {} => stage = "built"

(* A container has the options of its first launch: its environment ends
   with the variables that were given then.                                *)
Kept(a, c) ==
    /\ a.first.args # <<>> => c.args = a.first.args
    /\ c.memory = a.first.memory
    /\ c.ports = a.first.ports /\ c.detached = a.first.detached
    /\ a.first.quota \in Nat /\ c.quota >= a.first.quota
    /\ a.envs \in Seq(EnvVars)
    /\ \E x \in Seq(EnvVars) : c.envs = x \o a.envs

RunInv ==
    /\ \A l \in layout : l.envs \in Seq(EnvVars)
    /\ \A c \in cfg : /\ cfg = {c}
                      /\ c.envs \in Seq(EnvVars) /\ c.ports \in Seq(Seq(Sides))
                      /\ c.quota \in Nat
    /\ \A c \in cfg : published \subseteq ToSet(HandlePorts(c.ports).pairs)
    /\ up => \A c \in cfg : Before(HandlePorts(c.ports).pairs) \subseteq published
    /\ cfg = {} => original = {}
    /\ \A c \in cfg, a \in original : Kept(a, c)


\* Meaning, with its sets named.
Saying(n) ==
    [args   |-> Or(LastOf("CMD", n), FirstImage("args", <<>>, n)),
     quota  |-> (Or(FirstArgs(LastOf("CPU_LIMIT", n)), 10) * Period) \div 10,
     memory |-> Or(SizeArgs(LastOf("MEMORY_LIMIT", n)), Factor ^ 3),
     cwd    |-> Or(FirstArgs(LastOf("WORKDIR", n)), Or(FirstImage("cwd", {}, n), Root)),
     envs   |-> FirstImage("envs", <<>>, n)]

(* What a file says depends on the file alone.                             *)
LEMMA FileIsFixed ==
    ASSUME file' = file, rules' = rules
    PROVE  /\ \A n : Told(n)' = Told(n)
           /\ \A n : CopiedBy(n)' = CopiedBy(n)
           /\ \A n : Meaning(n)' = Meaning(n)
<1>1. \A key, n : LinesOf(key, n)' = LinesOf(key, n)
  BY DEF LinesOf
<1>2. \A key, n : LastOf(key, n)' = LastOf(key, n)
  BY <1>1 DEF LastOf
<1>3. \A entry, none, n : Images(entry, none, n)' = Images(entry, none, n)
  BY <1>1 DEF Images
<1>4. \A entry, none, n : FirstImage(entry, none, n)' = FirstImage(entry, none, n)
  <2>1. ASSUME NEW entry, NEW none, NEW n
        PROVE  FirstImage(entry, none, n)' = FirstImage(entry, none, n)
    <3> DEFINE T == Images(entry, none, n)
    <3>1. T' = T
      BY <1>3
    <3>2. FirstImage(entry, none, n) =
             IF T = {} THEN none ELSE TheConfig(file[Min(T)].arg[1])[entry]
      BY DEF FirstImage, TheConfig
    <3>3. FirstImage(entry, none, n)' =
             IF T' = {} THEN none ELSE TheConfig(file'[Min(T')].arg[1])[entry]
      BY DEF FirstImage, TheConfig
    <3> HIDE DEF T
    <3>. QED
      BY <3>1, <3>2, <3>3
  <2>. QED
    BY <2>1
<1>5. ASSUME NEW n PROVE Told(n)' = Told(n)
  <2>1. /\ FirstArgs(LastOf("CPU_LIMIT", n))' = FirstArgs(LastOf("CPU_LIMIT", n))
        /\ SizeArgs(LastOf("MEMORY_LIMIT", n))' = SizeArgs(LastOf("MEMORY_LIMIT", n))
        /\ FirstArgs(LastOf("WORKDIR", n))' = FirstArgs(LastOf("WORKDIR", n))
    BY <1>2
  <2>. QED
    BY <1>2, <1>4, <2>1 DEF Told, Or
<1>6. ASSUME NEW n PROVE CopiedBy(n)' = CopiedBy(n)
  BY <1>1 DEF CopiedBy, Wanted, WantedOf, MetBy, Ignores
<1>7. ASSUME NEW n PROVE Meaning(n)' = Meaning(n)
  <2>1. /\ FirstArgs(LastOf("CPU_LIMIT", n))' = FirstArgs(LastOf("CPU_LIMIT", n))
        /\ SizeArgs(LastOf("MEMORY_LIMIT", n))' = SizeArgs(LastOf("MEMORY_LIMIT", n))
        /\ FirstArgs(LastOf("WORKDIR", n))' = FirstArgs(LastOf("WORKDIR", n))
    BY <1>2
  <2>2. Meaning(n) = Saying(n)
    BY DEF Meaning, Saying, FirstArgs, SizeArgs
  <2>3. Meaning(n)' = Saying(n)'
    BY DEF Meaning, Saying, FirstArgs, SizeArgs
  <2>4. Saying(n)' = Saying(n)
    BY <1>2, <1>4, <2>1 DEF Saying
  <2>. QED
    BY <2>2, <2>3, <2>4
<1>. QED
  BY <1>5, <1>6, <1>7

\* A valid FROM names an image, a valid COPY a path.
LEMMA LinesAreKnown ==
    ASSUME file \in Seq(FileLines), NEW n \in 0..Len(file), AllValid(n)
    PROVE  /\ ImagesKnown(n)
           /\ \A i \in LinesOf("COPY", n) : file[i].arg[1] \in Sources
<1>1. ASSUME NEW i \in 1..n, file[i].key \in {"FROM", "COPY"}
      PROVE  file[i] \in FileLines /\ file[i].arg # <<>>
  <2>1. i \in 1..Len(file)
    OBVIOUS
  <2>2. ~Skipped(file[i])
    BY <1>1 DEF Skipped
  <2>. QED
    BY <2>1, <2>2 DEF AllValid, Valid
<1>2. ASSUME NEW line \in FileLines, line.arg # <<>>
      PROVE  /\ line.key = "FROM" => line.arg[1] \in DOMAIN ImageConfig
             /\ line.key = "COPY" => line.arg[1] \in Sources
  BY <1>2, OptionConstants
<1>. QED
  BY <1>1, <1>2 DEF ImagesKnown, LinesOf

\* The environment of a layout is a sequence of variables.
LEMMA FirstEnvs ==
    ASSUME NEW n \in Nat, ImagesKnown(n)
    PROVE  FirstImage("envs", <<>>, n) \in Seq(EnvVars)
<1> DEFINE T == Images("envs", <<>>, n)
<1>1. CASE T = {}
  <2>1. <<>> \in Seq(EnvVars)
    OBVIOUS
  <2>. QED
    BY <1>1, <2>1 DEF FirstImage
<1>2. CASE T # {}
  <2>1. T \subseteq Nat
    BY DEF Images, LinesOf
  <2>2. Min(T) \in T
    BY <1>2, <2>1, MinIsMember
  <2> DEFINE i == file[Min(T)].arg[1]
  <2>3. i \in DOMAIN ImageConfig /\ ImageConfig[i] # {}
    BY <2>2 DEF Images, LinesOf, ImagesKnown
  <2>4. TheConfig(i).envs \in Seq(EnvVars)
    BY <2>3, OneConfig
  <2>5. FirstImage("envs", <<>>, n) = TheConfig(i).envs
    BY <1>2 DEF FirstImage, TheConfig
  <2>. QED
    BY <2>4, <2>5
<1>. QED
  BY <1>1, <1>2

(* Lines that are skipped say nothing.                                     *)
LEMMA BlanksSayNothing ==
    ASSUME NEW m \in Nat, NEW n \in Nat, m <= n, \A i \in (m + 1)..n : Skipped(file[i])
    PROVE  Told(n) = Told(m) /\ CopiedBy(n) = CopiedBy(m)
<1>1. \A i : i \in 1..n <=> i \in 1..m \/ i \in (m + 1)..n
  OBVIOUS
<1>2. ASSUME NEW key, key # "blank" PROVE LinesOf(key, n) = LinesOf(key, m)
  BY <1>1, <1>2 DEF LinesOf, Skipped
<1>3. \A key : key # "blank" => LastOf(key, n) = LastOf(key, m)
  BY <1>2 DEF LastOf
<1>4. \A entry, none : Images(entry, none, n) = Images(entry, none, m)
  <2>1. LinesOf("FROM", n) = LinesOf("FROM", m)
    BY <1>2
  <2>. QED
    BY <2>1 DEF Images
<1>5. \A entry, none : FirstImage(entry, none, n) = FirstImage(entry, none, m)
  <2>1. ASSUME NEW entry, NEW none
        PROVE  FirstImage(entry, none, n) = FirstImage(entry, none, m)
    <3>1. ASSUME NEW k
          PROVE  FirstImage(entry, none, k) =
                    IF Images(entry, none, k) = {} THEN none
                    ELSE TheConfig(file[Min(Images(entry, none, k))].arg[1])[entry]
      BY DEF FirstImage, TheConfig
    <3>. QED
      BY <1>4, <3>1
  <2>. QED
    BY <2>1
<1>6. LinesOf("COPY", n) = LinesOf("COPY", m)
  BY <1>2
<1>. QED
  BY <1>3, <1>5, <1>6 DEF Told, CopiedBy

(* The instruction on line j adds what line j says.                        *)
LEMMA InstructionTells ==
    ASSUME file \in Seq(FileLines), rules \in Seq(RuleSet), NEW m, NEW j \in 1..Len(file),
           Follows(m, j), AllValid(j), ~Skipped(file[j]), Done(m)
    PROVE  /\ Told(j) = Execute(opts, file[j])
           /\ CopiedBy(j) = IF file[j].key = "COPY"
                            THEN copied \cup Copies(rules, file[j].arg[1]) ELSE copied
<1>1. ImagesKnown(j) /\ \A i \in LinesOf("COPY", j) : file[i].arg[1] \in Sources
  BY LinesAreKnown
<1>2. Told(j) = Execute(opts, file[j])
  BY <1>1, ExecuteTells DEF Done
<1>3. LinesOf("COPY", j) =
         LinesOf("COPY", m) \cup (IF file[j].key = "COPY" THEN {j} ELSE {})
  BY LinesGrow
<1>4. CASE file[j].key = "COPY"
  <2>1. j \in LinesOf("COPY", j)
    BY <1>3, <1>4
  <2>2. Copies(rules, file[j].arg[1]) = Wanted(rules, file[j].arg[1])
    BY <1>1, <2>1, CopiesWhatIsWanted
  <2>3. LinesOf("COPY", j) = LinesOf("COPY", m) \cup {j}
    BY <1>3, <1>4
  <2>4. CopiedBy(j) = CopiedBy(m) \cup Wanted(rules, file[j].arg[1])
    <3> DEFINE W(i) == Wanted(rules, file[i].arg[1])
    <3>1. CopiedBy(j) = UNION {W(i) : i \in LinesOf("COPY", m) \cup {j}}
      BY <2>3 DEF CopiedBy
    <3>2. CopiedBy(m) = UNION {W(i) : i \in LinesOf("COPY", m)}
      BY DEF CopiedBy
    <3> HIDE DEF W
    <3>3. CopiedBy(j) = CopiedBy(m) \cup W(j)
      BY <3>1, <3>2
    <3>. QED
      BY <3>3 DEF W
  <2>. QED
    BY <1>2, <1>4, <2>2, <2>4 DEF Done
<1>5. CASE file[j].key # "COPY"
  <2>1. LinesOf("COPY", j) = LinesOf("COPY", m)
    BY <1>3, <1>5
  <2>. QED
    BY <1>2, <1>5, <2>1 DEF CopiedBy, Done
<1>. QED
  BY <1>4, <1>5

(* save_config writes what the whole file says.                            *)
LEMMA SavedIsMeant ==
    ASSUME NEW n, opts = Told(n)
    PROVE  Saved(opts) = Meaning(n)
<1>1. /\ opts.args = Or(LastOf("CMD", n), FirstImage("args", <<>>, n))
      /\ opts.cpu = {arg[1] : arg \in LastOf("CPU_LIMIT", n)}
      /\ opts.memory = {Bytes(arg[1]) : arg \in LastOf("MEMORY_LIMIT", n)}
      /\ opts.envs = FirstImage("envs", <<>>, n)
  BY DEF Told, FirstArgs, SizeArgs
<1>2. Or(opts.cwd, Root) = Or({arg[1] : arg \in LastOf("WORKDIR", n)},
                              Or(FirstImage("cwd", {}, n), Root))
  <2> DEFINE W == FirstArgs(LastOf("WORKDIR", n))
  <2>1. W = {} <=> LastOf("WORKDIR", n) = {}
    BY DEF FirstArgs
  <2>2. opts.cwd = IF LastOf("WORKDIR", n) = {} THEN FirstImage("cwd", {}, n) ELSE W
    BY DEF Told
  <2>3. Or(opts.cwd, Root) = Or(W, Or(FirstImage("cwd", {}, n), Root))
    <3>1. CASE W = {}
      <4> HIDE DEF W
      <4>1. opts.cwd = FirstImage("cwd", {}, n)
        BY <2>1, <2>2, <3>1
      <4>2. Or(W, Or(FirstImage("cwd", {}, n), Root)) = Or(FirstImage("cwd", {}, n), Root)
        BY <3>1 DEF Or
      <4>. QED
        BY <4>1, <4>2
    <3>2. CASE W # {}
      <4> HIDE DEF W
      <4>1. opts.cwd = W
        BY <2>1, <2>2, <3>2
      <4>. QED
        BY <3>2, <4>1 DEF Or
    <3>. QED
      BY <3>1, <3>2
  <2>. QED
    BY <2>3 DEF FirstArgs
<1>. QED
  BY <1>1, <1>2 DEF Saved, Meaning

-----------------------------------------------------------------------------
(* Every step of the build keeps BuildInv.                                  *)
LEMMA ParseStep ==
    ASSUME BuildInv, Parse
    PROVE  BuildInv'
<1> DEFINE wrong == {i \in DOMAIN file : ~Skipped(file[i]) /\ ~Valid(file[i])}
<1>1. /\ file \in Seq(FileLines) /\ rules \in Seq(RuleSet)
      /\ stage = "parse" /\ opts = NoOpts /\ copied = {} /\ cfg = {}
      /\ file' = file /\ rules' = rules /\ opts' = opts /\ copied' = copied /\ cfg' = cfg
  BY DEF BuildInv, Parse
<1>2. CASE wrong # {}
  <2>1. stage' = "refused"
    BY <1>2 DEF Parse
  <2>. QED
    BY <1>1, <2>1 DEF BuildInv
<1>3. CASE wrong = {}
  <2>1. stage' = "build" /\ todo' = Instructions(file)
    BY <1>3 DEF Parse
  <2>2. AllValid(Len(file))
    <3>1. DOMAIN file = 1..Len(file)
      BY <1>1
    <3>. QED
      BY <1>3, <3>1 DEF AllValid
  <2>3. AllValid(Len(file))'
    BY <1>1, <2>2 DEF AllValid
  <2>4. Enumerates(todo', file', Instructive(file', 0 + 1, Len(file')))
    <3>1. Enumerates(Instructions(file), file, Instructive(file, 1, Len(file)))
      BY <1>1, InstructionsInOrder
    <3>2. 0 + 1 = 1
      OBVIOUS
    <3>. QED
      BY <1>1, <2>1, <3>1, <3>2
  <2>5. Done(0)'
    <3>1. Told(0)' = Told(0) /\ CopiedBy(0)' = CopiedBy(0)
      BY <1>1, FileIsFixed
    <3>2. CopiedBy(0) = {}
      BY DEF CopiedBy, LinesOf
    <3>. QED
      BY <1>1, <3>1, <3>2, ToldBefore DEF Done
  <2>6. 0 \in 0..Len(file')
    BY <1>1
  <2>7. \E m \in 0..Len(file') :
           Done(m)' /\ Enumerates(todo', file', Instructive(file', m + 1, Len(file')))
    BY <2>4, <2>5, <2>6
  <2>. QED
    BY <1>1, <2>1, <2>3, <2>7 DEF BuildInv
<1>. QED
  BY <1>2, <1>3

\* The first line that is left is executed, and the lines after it are left.
LEMMA InstructionStep ==
    ASSUME BuildInv, Instruction
    PROVE  BuildInv'
<1> DEFINE n == Len(file)
<1>1. /\ file \in Seq(FileLines) /\ rules \in Seq(RuleSet)
      /\ stage = "build" /\ cfg = {} /\ AllValid(n) /\ todo # <<>>
      /\ file' = file /\ rules' = rules /\ stage' = stage /\ cfg' = cfg
      /\ opts' = Execute(opts, Head(todo)) /\ todo' = Tail(todo)
      /\ copied' = IF Head(todo).key = "COPY"
                   THEN copied \cup Copies(rules, Head(todo).arg[1]) ELSE copied
  BY DEF BuildInv, Instruction
<1>2. PICK m \in 0..n : Done(m) /\ Enumerates(todo, file, Instructive(file, m + 1, n))
  BY <1>1 DEF BuildInv
<1> DEFINE S == Instructive(file, m + 1, n)
<1>3. n \in Nat /\ m \in Nat
  BY <1>1
<1>4. S \in SUBSET Nat
  BY <1>3 DEF Instructive
<1>5. PICK j \in S : /\ Head(todo) = file[j]
                     /\ \A i \in S : j <= i
                     /\ Enumerates(Tail(todo), file, S \ {j})
  BY <1>1, <1>2, <1>4, EnumerationGoesOn
<1>6. j \in (m + 1)..n /\ ~Skipped(file[j])
  BY <1>5 DEF Instructive
<1>7. j \in 1..n /\ j \in Nat /\ m < j /\ j \in 0..n
  BY <1>3, <1>6
<1>8. \A i \in (m + 1)..n : i < j => Skipped(file[i])
  <2>1. ASSUME NEW i \in (m + 1)..n, i < j, ~Skipped(file[i]) PROVE FALSE
    <3>1. i \in S
      BY <2>1 DEF Instructive
    <3>2. j <= i
      BY <1>5, <3>1
    <3>. QED
      BY <1>3, <1>7, <2>1, <3>2
  <2>. QED
    BY <2>1
<1>9. Follows(m, j)
  <2>1. \A i \in (m + 1)..(j - 1) : i \in (m + 1)..n /\ i < j
    BY <1>3, <1>7
  <2>. QED
    BY <1>3, <1>7, <1>8, <2>1 DEF Follows
<1>10. S \ {j} = Instructive(file, j + 1, n)
  <2>1. \A i : i \in (m + 1)..n <=> i \in (m + 1)..n /\ (i < j \/ i = j \/ j < i)
    BY <1>3, <1>7
  <2>2. \A i : i \in (j + 1)..n <=> i \in (m + 1)..n /\ j < i
    BY <1>3, <1>7
  <2>3. ~(j < j)
    BY <1>7
  <2>. QED
    BY <1>8, <2>1, <2>2, <2>3 DEF Instructive
<1>11. AllValid(j)
  <2>1. \A i \in 1..j : i \in 1..n
    BY <1>3, <1>7
  <2>. QED
    BY <1>1, <2>1 DEF AllValid
<1>12. /\ Told(j) = Execute(opts, file[j])
       /\ CopiedBy(j) = IF file[j].key = "COPY"
                        THEN copied \cup Copies(rules, file[j].arg[1]) ELSE copied
  BY <1>1, <1>2, <1>6, <1>7, <1>9, <1>11, InstructionTells
<1>13. Done(j)'
  <2>1. Told(j)' = Told(j) /\ CopiedBy(j)' = CopiedBy(j)
    BY <1>1, FileIsFixed
  <2>2. opts' = Told(j) /\ copied' = CopiedBy(j)
    BY <1>1, <1>5, <1>12
  <2>. QED
    BY <2>1, <2>2 DEF Done
<1>14. AllValid(Len(file))'
  BY <1>1 DEF AllValid
<1>15. \E k \in 0..Len(file') :
          Done(k)' /\ Enumerates(todo', file', Instructive(file', k + 1, Len(file')))
  BY <1>1, <1>5, <1>7, <1>10, <1>13
<1>. QED
  BY <1>1, <1>14, <1>15 DEF BuildInv

\* No instruction is left: what was done is what the whole file says.
LEMMA SaveStep ==
    ASSUME BuildInv, Save
    PROVE  BuildInv'
<1> DEFINE n == Len(file)
<1>1. /\ file \in Seq(FileLines) /\ rules \in Seq(RuleSet)
      /\ stage = "build" /\ cfg = {} /\ AllValid(n) /\ todo = <<>>
      /\ file' = file /\ rules' = rules /\ stage' = "saved" /\ cfg' = cfg
      /\ opts' = opts /\ copied' = copied /\ layout' = {Saved(opts)}
  BY DEF BuildInv, Save
<1>2. PICK m \in 0..n : Done(m) /\ Enumerates(todo, file, Instructive(file, m + 1, n))
  BY <1>1 DEF BuildInv
<1>3. Instructive(file, m + 1, n) = {}
  BY <1>1, <1>2, NothingIsLeft
<1>4. n \in Nat /\ m \in Nat /\ m <= n
  BY <1>1
<1>5. \A i \in (m + 1)..n : Skipped(file[i])
  BY <1>3 DEF Instructive
<1>6. Told(n) = Told(m) /\ CopiedBy(n) = CopiedBy(m)
  BY <1>4, <1>5, BlanksSayNothing
<1>7. opts = Told(n) /\ copied = CopiedBy(n)
  BY <1>2, <1>6 DEF Done
<1>8. Saved(opts) = Meaning(n)
  BY <1>7, SavedIsMeant
<1>9. Told(n)' = Told(n) /\ CopiedBy(n)' = CopiedBy(n) /\ Meaning(n)' = Meaning(n)
  BY <1>1, FileIsFixed
<1>10. AllValid(Len(file))'
  BY <1>1 DEF AllValid
<1>11. Done(Len(file))' /\ layout' = {Meaning(Len(file))'}
  <2>1. Done(n)' /\ layout' = {Meaning(n)'}
    BY <1>1, <1>7, <1>8, <1>9 DEF Done
  <2>. QED
    BY <1>1, <2>1
<1>. QED
  BY <1>1, <1>10, <1>11 DEF BuildInv

\* The other steps leave the build alone, or end it.
LEMMA BuildStep ==
    ASSUME BuildInv, OptionsNext \/ UNCHANGED optionVars
    PROVE  BuildInv'
<1>1. CASE BuildFails
  <2>1. /\ stage' = "refused" /\ cfg = {} /\ UNCHANGED <<file, rules, cfg>>
    BY <1>1 DEF BuildFails, BuildInv
  <2>. QED
    BY <2>1 DEF BuildInv
<1>2. CASE Built
  <2>1. /\ stage' = "built" /\ file' = <<>> /\ rules' = <<>>
    BY <1>2 DEF Built
  <2>. QED
    BY <2>1 DEF BuildInv
<1>3. ASSUME UNCHANGED build, cfg' # {} => stage = "built",
             layout' = layout \/ stage = "built"
      PROVE  BuildInv'
  <2>1. /\ file' = file /\ rules' = rules /\ stage' = stage /\ todo' = todo
        /\ opts' = opts /\ copied' = copied
    BY <1>3 DEF build
  <2>2. \A m : Told(m)' = Told(m) /\ CopiedBy(m)' = CopiedBy(m) /\ Meaning(m)' = Meaning(m)
    BY <2>1, FileIsFixed
  <2>3. \A m : Done(m)' <=> Done(m)
    BY <2>1, <2>2 DEF Done
  <2>4. AllValid(Len(file))' <=> AllValid(Len(file))
    BY <2>1 DEF AllValid
  <2>5. stage = "saved" => layout' = layout
    BY <1>3
  <2>. QED
    BY <1>3, <2>1, <2>2, <2>3, <2>4, <2>5 DEF BuildInv
<1>4. ASSUME NEW o, NEW old, Launch(o, old), stage = "built" PROVE BuildInv'
  <2>1. UNCHANGED build /\ layout' = layout
    BY <1>4 DEF Launch
  <2>. QED
    BY <1>3, <1>4, <2>1
<1>5. ASSUME NEW o \in CliOptions, Run(o) PROVE BuildInv'
  BY <1>4, <1>5 DEF Run
<1>6. CASE Start
  BY <1>4, <1>6 DEF Start, BuildInv
<1>7. CASE Exit
  <2>1. UNCHANGED build /\ layout' = layout /\ cfg' = cfg
    BY <1>7 DEF Exit
  <2>. QED
    BY <1>3, <2>1 DEF BuildInv
<1>8. CASE Rebuild
  <2>1. UNCHANGED build /\ cfg' = cfg /\ cfg # {}
    BY <1>8 DEF Rebuild
  <2>. QED
    BY <1>3, <2>1 DEF BuildInv
<1>9. CASE UNCHANGED optionVars
  <2>1. UNCHANGED build /\ layout' = layout /\ cfg' = cfg
    BY <1>9 DEF optionVars
  <2>. QED
    BY <1>3, <2>1 DEF BuildInv
<1>. QED
  BY <1>1, <1>2, <1>5, <1>6, <1>7, <1>8, <1>9, ParseStep, InstructionStep, SaveStep
     DEF OptionsNext

-----------------------------------------------------------------------------
(* Every step keeps RunInv, too.                                            *)
LEMMA OptionsStart == OptionsInit => BuildInv /\ RunInv
<1> SUFFICES ASSUME OptionsInit PROVE BuildInv /\ RunInv
  OBVIOUS
<1>1. file \in Seq(FileLines)
  <2>1. PICK n \in 0..MaxLines : file \in [1..n -> FileLines]
    BY DEF OptionsInit
  <2>2. n \in Nat
    BY OptionConstants
  <2>. QED
    BY <2>1, <2>2
<1>2. rules \in Seq(RuleSet)
  BY OptionConstants DEF OptionsInit
<1>3. BuildInv
  BY <1>1, <1>2 DEF OptionsInit, BuildInv
<1>4. RunInv
  BY DEF OptionsInit, RunInv
<1>. QED
  BY <1>3, <1>4

\* A quota that is taken for cores does not get smaller.
LEMMA QuotaGrows ==
    ASSUME NEW q \in Nat
    PROVE  ((q * 10) \div 10) * Period >= q
<1>1. (q * 10) \div 10 = q
  OBVIOUS
<1>2. Period \in Nat /\ Period >= 1
  BY OptionConstants
<1>3. q * Period >= q
  BY <1>2
<1>. QED
  BY <1>1, <1>3

(* A container that is started with its own options keeps the first ones.   *)
LEMMA StartKeeps ==
    ASSUME NEW a, NEW c, Kept(a, c), c.quota \in Nat,
           NEW l, l.envs \in Seq(EnvVars)
    PROVE  Kept(a, Resolved(StartOptions(c), l))
<1> DEFINE o == StartOptions(c)
<1> DEFINE r == Resolved(o, l)
<1>1. /\ o.args = c.args /\ o.cpu = {c.quota * 10} /\ o.memory = {c.memory}
      /\ o.envs = c.envs /\ o.ports = c.ports /\ o.detached = c.detached
  BY DEF StartOptions
<1>2. /\ r.args = IF o.args = <<>> THEN l.args ELSE o.args
      /\ r.quota = IF o.cpu = {} THEN l.quota ELSE (Or(o.cpu, 0) \div 10) * Period
      /\ r.memory = Or(o.memory, l.memory)
      /\ r.envs = l.envs \o o.envs
      /\ r.ports = o.ports /\ r.detached = o.detached
  BY DEF Resolved
<1> HIDE DEF o, r
<1>3. a.first.args # <<>> => r.args = a.first.args
  BY <1>1, <1>2 DEF Kept
<1>4. r.memory = a.first.memory /\ r.ports = a.first.ports /\ r.detached = a.first.detached
  <2>1. \A x, y : Or({x}, y) = x
    BY DEF Or
  <2>2. r.memory = c.memory /\ r.ports = c.ports /\ r.detached = c.detached
    BY <1>1, <1>2, <2>1
  <2>. QED
    BY <2>2 DEF Kept
<1>5. r.quota >= a.first.quota /\ a.first.quota \in Nat
  <2>1. \A x, y : Or({x}, y) = x
    BY DEF Or
  <2>2. r.quota = ((c.quota * 10) \div 10) * Period
    <3>1. o.cpu # {} /\ Or(o.cpu, 0) = c.quota * 10
      BY <1>1, <2>1
    <3>2. r.quota = (Or(o.cpu, 0) \div 10) * Period
      BY <1>2, <3>1
    <3>. QED
      BY <3>1, <3>2
  <2>3. r.quota >= c.quota
    BY <2>2, QuotaGrows
  <2>4. a.first.quota \in Nat /\ c.quota >= a.first.quota
    BY DEF Kept
  <2>5. r.quota \in Int
    BY <2>2, OptionConstants
  <2>. QED
    BY <2>3, <2>4, <2>5
<1>6. a.envs \in Seq(EnvVars) /\ \E x \in Seq(EnvVars) : r.envs = x \o a.envs
  <2>1. PICK x \in Seq(EnvVars) : c.envs = x \o a.envs
    BY DEF Kept
  <2>2. a.envs \in Seq(EnvVars)
    BY DEF Kept
  <2>3. l.envs \o (x \o a.envs) = (l.envs \o x) \o a.envs
    <3>1. \A s, t, u \in Seq(EnvVars) : (s \o t) \o u = s \o (t \o u)
      BY ConcatAssociative, SMTT(30)
    <3>. QED
      BY <2>2, <3>1
  <2>4. l.envs \o x \in Seq(EnvVars)
    OBVIOUS
  <2>. QED
    BY <1>1, <1>2, <2>1, <2>2, <2>3, <2>4
<1> HIDE DEF o, r
<1>7. Kept(a, r)
  BY <1>3, <1>4, <1>5, <1>6 DEF Kept
<1>. QED
  BY <1>7 DEF r, o

\* A first launch fixes the options, a later one is given those of the config.
LEMMA LaunchStep ==
    ASSUME RunInv, NEW o, o.envs \in Seq(EnvVars), o.ports \in Seq(Seq(Sides)), NEW old,
           \/ cfg = {} /\ old = {}
           \/ ~up /\ old \subseteq published /\ \E c \in cfg : o = StartOptions(c),
           Launch(o, old)
    PROVE  RunInv'
<1> DEFINE pairs == HandlePorts(o.ports).pairs
<1>0. PICK l \in layout :
         LET r      == Resolved(o, l)
             fits   == r.quota \in MinQuota..MaxQuota
             begins == fits /\ (o.detached \/ AllPublished(o.ports))
         IN  /\ IF o.detached /\ ~fits THEN published' = old
                ELSE \E now \in {Before(pairs), UpTo(pairs)} : published' = old \cup now
             /\ IF begins
                THEN /\ cfg' = {r}
                     /\ up' = TRUE
                     /\ original' = IF original = {} THEN {[first |-> r, envs |-> o.envs]}
                                    ELSE original
                ELSE UNCHANGED <<cfg, up, original>>
             /\ UNCHANGED <<build, layout>>
  BY DEF Launch
<1> DEFINE r == Resolved(o, l)
<1> DEFINE fits == r.quota \in MinQuota..MaxQuota
<1> DEFINE begins == fits /\ (o.detached \/ AllPublished(o.ports))
<1>1. /\ begins => /\ cfg' = {r}
                   /\ original' = IF original = {} THEN {[first |-> r, envs |-> o.envs]} ELSE original
      /\ ~begins => UNCHANGED <<cfg, up, original>>
      /\ layout' = layout
  BY <1>0
<1>p. /\ Before(pairs) \subseteq ToSet(pairs) /\ published' \subseteq old \cup ToSet(pairs)
      /\ fits => Before(pairs) \subseteq published'
  <2>1. pairs \in Seq(TextPairs)
    BY LoopOfHandlePorts DEF Handled, Answer, Results
  <2>2. Before(pairs) \subseteq UpTo(pairs) /\ UpTo(pairs) \subseteq ToSet(pairs)
    BY <2>1, BeforeFacts
  <2>. QED
    BY <1>0, <2>2
<1>q. \A c \in cfg : ~up /\ old \subseteq published /\ o.ports = c.ports
  BY DEF StartOptions, RunInv
<1>s. \A c \in cfg : published' \subseteq ToSet(HandlePorts(c.ports).pairs)
  BY <1>p, <1>q DEF RunInv
<1> HIDE DEF pairs
<1>2. layout' = layout /\ \A k \in layout : k.envs \in Seq(EnvVars)
  BY <1>1 DEF RunInv
<1>3. CASE ~begins
  <2>1. UNCHANGED <<cfg, up, original>>
    BY <1>1, <1>3
  <2>. QED
    BY <1>2, <1>q, <1>s, <2>1 DEF RunInv, Kept
<1>4. CASE begins
  <2>1. /\ cfg' = {r}
        /\ original' = IF original = {} THEN {[first |-> r, envs |-> o.envs]} ELSE original
    BY <1>1, <1>4
  <2>2. r.quota \in Nat
    BY <1>4, OptionConstants
  <2>3. r.envs = l.envs \o o.envs /\ r.ports = o.ports
    BY DEF Resolved
  <2>4. r.envs \in Seq(EnvVars)
    BY <1>2, <2>3
  <2>5. ASSUME NEW a \in original' PROVE Kept(a, r)
    <3>1. CASE original = {}
      <4>1. a = [first |-> r, envs |-> o.envs]
        BY <2>1, <2>5, <3>1
      <4>2. a.first = r /\ a.envs = o.envs
        BY <4>1
      <4>3. r.envs = l.envs \o a.envs /\ l.envs \in Seq(EnvVars) /\ a.envs \in Seq(EnvVars)
        BY <1>2, <2>3, <4>2
      <4> HIDE DEF r
      <4>. QED
        <5>1. a.first.quota \in Nat /\ r.quota >= a.first.quota
          BY <2>2, <4>2
        <5>2. \E x \in Seq(EnvVars) : r.envs = x \o a.envs
          BY <4>3
        <5>. QED
          BY <4>2, <4>3, <5>1, <5>2 DEF Kept
    <3>2. CASE original # {}
      <4>1. PICK c \in cfg : o = StartOptions(c)
        BY <3>2 DEF RunInv
      <4>2. a \in original
        BY <2>1, <2>5, <3>2
      <4>3. Kept(a, c) /\ c.quota \in Nat
        BY <4>2 DEF RunInv
      <4>4. Kept(a, Resolved(StartOptions(c), l))
        BY <1>2, <4>3, StartKeeps
      <4>. QED
        BY <4>1, <4>4
    <3>. QED
      BY <3>1, <3>2
  <2> HIDE DEF r
  <2>6. \A c \in cfg' : c = r
    BY <2>1
  <2>7. \A c \in cfg', a \in original' : Kept(a, c)
    BY <2>5, <2>6
  <2>8. \A c \in cfg' : /\ cfg' = {c}
                        /\ c.envs \in Seq(EnvVars) /\ c.ports \in Seq(Seq(Sides))
                        /\ c.quota \in Nat
    BY <2>1, <2>2, <2>3, <2>4, <2>6
  <2>9. \A c \in cfg' : /\ published' \subseteq ToSet(HandlePorts(c.ports).pairs)
                        /\ Before(HandlePorts(c.ports).pairs) \subseteq published'
    <3>1. old \subseteq ToSet(pairs)
      BY <1>q DEF RunInv, pairs
    <3>2. published' \subseteq ToSet(pairs) /\ Before(pairs) \subseteq published'
      BY <1>4, <1>p, <3>1
    <3>. QED
      BY <2>3, <2>6, <3>2 DEF pairs
  <2>10. cfg' # {}
    BY <2>1
  <2>11. \A k \in layout' : k.envs \in Seq(EnvVars)
    BY <1>2
  <2>. QED
    BY <2>7, <2>8, <2>9, <2>10, <2>11 DEF RunInv
<1>. QED
  BY <1>3, <1>4

\* The other steps touch layouts, or stop the container.
LEMMA RunStep ==
    ASSUME BuildInv, RunInv, OptionsNext \/ UNCHANGED optionVars
    PROVE  RunInv'
<1>1. ASSUME UNCHANGED <<cfg, published, original>>, up' => up,
             \A l \in layout' : l.envs \in Seq(EnvVars)
      PROVE  RunInv'
  BY <1>1 DEF RunInv, Kept
<1>2. \A l \in layout : l.envs \in Seq(EnvVars)
  BY DEF RunInv
<1>3. CASE Parse \/ Instruction \/ BuildFails \/ Built \/ UNCHANGED optionVars
  <2>1. UNCHANGED <<layout, cfg, up, published, original>>
    BY <1>3 DEF Parse, Instruction, BuildFails, Built, optionVars
  <2>. QED
    BY <1>1, <1>2, <2>1
<1>4. CASE Save
  <2>1. /\ UNCHANGED <<cfg, up, published, original>> /\ layout' = {Saved(opts)}
        /\ stage = "build" /\ file \in Seq(FileLines) /\ AllValid(Len(file))
    BY <1>4 DEF Save, BuildInv
  <2>2. PICK m \in 0..Len(file) : Done(m)
    BY <2>1 DEF BuildInv
  <2>3. m \in Nat /\ m <= Len(file) /\ Len(file) \in Nat
    BY <2>1
  <2>4. AllValid(m)
    <3>1. \A i \in 1..m : i \in 1..Len(file)
      BY <2>3
    <3>. QED
      BY <2>1, <3>1 DEF AllValid
  <2>5. ImagesKnown(m)
    BY <2>1, <2>4, LinesAreKnown
  <2>6. FirstImage("envs", <<>>, m) \in Seq(EnvVars)
    BY <2>3, <2>5, FirstEnvs
  <2>7. opts.envs = FirstImage("envs", <<>>, m)
    BY <2>2 DEF Done, Told
  <2>8. Saved(opts).envs = opts.envs
    BY DEF Saved
  <2>. QED
    BY <1>1, <2>1, <2>6, <2>7, <2>8
<1>5. ASSUME NEW o \in CliOptions, Run(o) PROVE RunInv'
  <2>1. o.envs \in Seq(EnvVars) /\ o.ports \in Seq(Seq(Sides))
    BY OptionConstants
  <2>. QED
    BY <1>5, <2>1, LaunchStep DEF Run
<1>6. CASE Start
  <2>1. PICK c \in cfg, old \in {published, {}} : Launch(StartOptions(c), old)
    BY <1>6 DEF Start
  <2>4. ~up /\ old \subseteq published
    BY <1>6 DEF Start
  <2>2. StartOptions(c).envs = c.envs /\ StartOptions(c).ports = c.ports
    BY DEF StartOptions
  <2>3. c.envs \in Seq(EnvVars) /\ c.ports \in Seq(Seq(Sides))
    BY DEF RunInv
  <2>. QED
    BY <2>1, <2>2, <2>3, <2>4, LaunchStep
<1>7. CASE Exit
  <2>1. UNCHANGED <<layout, cfg, original>> /\ ~up' /\ published' \subseteq published
    BY <1>7 DEF Exit
  <2>. QED
    BY <2>1 DEF RunInv, Kept
<1>8. CASE Rebuild
  <2>1. UNCHANGED <<cfg, up, published, original>>
    BY <1>8 DEF Rebuild
  <2>2. PICK l \in Rebuilt : layout' = {l}
    BY <1>8 DEF Rebuild
  <2>3. l.envs \in Seq(EnvVars)
    BY OptionConstants
  <2>. QED
    BY <1>1, <2>1, <2>2, <2>3
<1>. QED
  BY <1>3, <1>4, <1>5, <1>6, <1>7, <1>8 DEF OptionsNext

\* Both invariants always hold.
LEMMA OptionsInv == OptionsSpec => [](BuildInv /\ RunInv)
<1>1. OptionsInit => BuildInv /\ RunInv
  BY OptionsStart
<1>2. BuildInv /\ RunInv /\ [OptionsNext]_optionVars => BuildInv' /\ RunInv'
  BY BuildStep, RunStep
<1>. QED
  BY <1>1, <1>2, PTL DEF OptionsSpec

-----------------------------------------------------------------------------
(* builder.rs, save_config: a layout has what its Crabtainerfile says, and a
   file with a wrong line builds none.                                      *)
THEOREM LayoutsAreAsWritten == OptionsSpec => []LayoutIsAsWritten
<1>1. BuildInv => LayoutIsAsWritten
  <2> SUFFICES ASSUME BuildInv, stage = "saved"
               PROVE  /\ \A i \in DOMAIN file : Skipped(file[i]) \/ Valid(file[i])
                      /\ layout = {Meaning(Len(file))}
    BY DEF LayoutIsAsWritten
  <2>1. file \in Seq(FileLines) /\ AllValid(Len(file)) /\ layout = {Meaning(Len(file))}
    BY DEF BuildInv
  <2>2. DOMAIN file = 1..Len(file)
    BY <2>1
  <2>. QED
    BY <2>1, <2>2 DEF AllValid
<1>. QED
  BY <1>1, OptionsInv, PTL

(* copy.rs, copy_to_layout: the COPY instructions of a build take the files
   the documentation of .crabtainerignore lets them take, and no others.    *)
THEOREM CopiesTakeTheRest == OptionsSpec => []CopyTakesTheRest
<1>1. BuildInv => CopyTakesTheRest
  BY DEF BuildInv, Done, CopiedBy, CopyTakesTheRest
<1>. QED
  BY <1>1, OptionsInv, PTL

(* network.rs, handle_ports and add_port_forwarding: a container that runs
   has no ports but those its options ask for, and all that come before the
   first one iptables refuses, if each specification is of a kind the
   documentation describes.                                                *)
THEOREM PortsAreAsMeant == OptionsSpec => []PortsAsMeant
<1>1. RunInv => PortsAsMeant
  <2> SUFFICES ASSUME RunInv, NEW c \in cfg, up,
                      \A spec \in ToSet(c.ports) : Regular(spec)
               PROVE  IF \A spec \in ToSet(c.ports) : IsPair(spec) \/ IsRange(spec)
                      THEN /\ published \subseteq UNION {Meant(spec) : spec \in ToSet(c.ports)}
                           /\ \A n \in DOMAIN c.ports :
                                 FitUpTo(c.ports, n) => Meant(c.ports[n]) \subseteq published
                      ELSE published = {}
    BY DEF PortsAsMeant
  <2>1. /\ c.ports \in Seq(Seq(Sides)) /\ DOMAIN c.ports = 1..Len(c.ports)
        /\ published \subseteq ToSet(HandlePorts(c.ports).pairs)
        /\ Before(HandlePorts(c.ports).pairs) \subseteq published
    BY DEF RunInv
  <2>2. CASE \A spec \in ToSet(c.ports) : IsPair(spec) \/ IsRange(spec)
    <3>1. ToSet(HandlePorts(c.ports).pairs) = UNION {Meant(spec) : spec \in ToSet(c.ports)}
      BY <2>1, <2>2, PortsMeant
    <3>2. \A m \in 1..Len(c.ports) : FitUpTo(c.ports, m) =>
              Meant(c.ports[m]) \subseteq Before(HandlePorts(c.ports).pairs)
      BY <2>1, <2>2, PortsMeant
    <3>3. published \subseteq UNION {Meant(spec) : spec \in ToSet(c.ports)}
      BY <2>1, <3>1
    <3>. QED
      BY <2>1, <2>2, <3>2, <3>3
  <2>3. CASE ~ \A spec \in ToSet(c.ports) : IsPair(spec) \/ IsRange(spec)
    <3>1. ToSet(HandlePorts(c.ports).pairs) = {}
      BY <2>1, <2>3, PortsMeant
    <3>. QED
      BY <2>1, <2>3, <3>1
  <2>. QED
    BY <2>2, <2>3
<1>. QED
  BY <1>1, OptionsInv, PTL

(* The last variable of a name is the same in what is put before.           *)
LEMMA LastValue ==
    ASSUME NEW x \in Seq(EnvVars), NEW s \in Seq(EnvVars), NEW given \in ToSet(s)
    PROVE  ValueOf(given[1], x \o s) = ValueOf(given[1], s)
<1> DEFINE name == given[1]
<1> DEFINE e == x \o s
<1> DEFINE T == {i \in DOMAIN s : s[i][1] = name}
<1> DEFINE U == {i \in DOMAIN e : e[i][1] = name}
<1>1. /\ Len(x) \in Nat /\ Len(s) \in Nat
      /\ DOMAIN s = 1..Len(s) /\ DOMAIN e = 1..(Len(x) + Len(s))
  OBVIOUS
<1>2. \A i \in 1..Len(s) : e[Len(x) + i] = s[i]
  OBVIOUS
<1>3. T # {}
  <2>1. PICK i \in 1..Len(s) : given = s[i]
    BY <1>1 DEF ToSet
  <2>. QED
    BY <1>1, <2>1
<1>4. T \subseteq 0..Len(s)
  BY <1>1
<1>5. Max(T) \in T /\ \A i \in T : Max(T) >= i
  <2> HIDE DEF T
  <2>. QED
    BY <1>1, <1>3, <1>4, LargestIsMember
<1> DEFINE m == Max(T)
<1> DEFINE u == Max(U)
<1>6. m \in 1..Len(s) /\ s[m][1] = name
  BY <1>1, <1>5
<1> HIDE DEF m
<1>7. Len(x) + m \in U
  <2>1. Len(x) + m \in 1..(Len(x) + Len(s))
    BY <1>1, <1>6
  <2>2. e[Len(x) + m] = s[m]
    BY <1>2, <1>6
  <2>. QED
    BY <1>1, <1>6, <2>1, <2>2
<1>8. U \subseteq 0..(Len(x) + Len(s))
  BY <1>1
<1>9. Max(U) \in U /\ \A i \in U : Max(U) >= i
  <2>1. Len(x) + Len(s) \in Nat
    BY <1>1
  <2> HIDE DEF U
  <2>. QED
    BY <1>7, <1>8, <2>1, LargestIsMember
<1>10. u \in 1..(Len(x) + Len(s)) /\ e[u][1] = name /\ u >= Len(x) + m
  BY <1>1, <1>7, <1>9
<1> HIDE DEF u
<1>11. u - Len(x) \in 1..Len(s) /\ Len(x) + (u - Len(x)) = u
  BY <1>1, <1>6, <1>10
<1>12. u - Len(x) \in T
  <2>1. e[u] = s[u - Len(x)]
    BY <1>2, <1>11
  <2>. QED
    BY <1>1, <1>10, <1>11, <2>1
<1>13. m >= u - Len(x)
  BY <1>5, <1>12 DEF m
<1>14. u = Len(x) + m
  BY <1>1, <1>6, <1>10, <1>13
<1>15. e[u] = s[m]
  BY <1>2, <1>6, <1>14
<1>. QED
  BY <1>15 DEF ValueOf, u, m

(* start.rs, start_container: a container is started again with the command,
   the memory limit, the ports and the variables of its first launch, and a
   CPU limit not below it, whatever has become of its layout.               *)
THEOREM StartsKeepTheOptions == OptionsSpec => []StartsWithItsOptions
<1>1. RunInv => StartsWithItsOptions
  <2> SUFFICES ASSUME RunInv, NEW c \in cfg, NEW a \in original
               PROVE  /\ a.first.args # <<>> => c.args = a.first.args
                      /\ c.memory = a.first.memory
                      /\ c.ports = a.first.ports /\ c.detached = a.first.detached
                      /\ c.quota >= a.first.quota
                      /\ \A given \in ToSet(a.envs) :
                            ValueOf(given[1], c.envs) = ValueOf(given[1], a.envs)
    BY DEF StartsWithItsOptions
  <2>1. Kept(a, c)
    BY DEF RunInv
  <2>2. PICK x \in Seq(EnvVars) : c.envs = x \o a.envs
    BY <2>1 DEF Kept
  <2>3. a.envs \in Seq(EnvVars)
    BY <2>1 DEF Kept
  <2>4. \A given \in ToSet(a.envs) : ValueOf(given[1], c.envs) = ValueOf(given[1], a.envs)
    BY <2>2, <2>3, LastValue
  <2>. QED
    BY <2>1, <2>4 DEF Kept
<1>. QED
  BY <1>1, OptionsInv, PTL
=============================================================================
