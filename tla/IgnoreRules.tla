----------------------------- MODULE IgnoreRules -----------------------------
(***************************************************************************)
(* Which files a COPY takes (engine/build/instructions/copy.rs): the rules *)
(* of .crabtainerignore, in order, and the walk that leaves out what they  *)
(* ignore.  Paths are members of a tree; a rule without a wildcard names a *)
(* path and stands for all below it, a glob for any set of paths.          *)
(*                                                                         *)
(* Rules are matched against the text of a path, which the walk makes from *)
(* the text of the source: below "." or "./x" every path has a "/./" in    *)
(* it.  Such paths, sources and rules are called dotted.                   *)
(***************************************************************************)
EXTENDS Naturals, Sequences

CONSTANTS
    Root,      \* the build directory
    Parent,    \* path -> the directory it is in
    Dirs,      \* the paths that are directories
    IgnoreFile \* .crabtainerignore

Paths == DOMAIN Parent
Files == Paths \ Dirs

ASSUME TreeConstants == /\ \A p \in Paths : Parent[p] \in Dirs \cup {Root}
                        /\ Dirs \subseteq Paths /\ Root \notin Paths

\* What is on the way from p up to the root: the members of every set that has
\* p and the directory of every path in it.
Ancestors == [p \in Paths \cup {Root} |->
    {q \in Paths \cup {Root} :
        \A S \in SUBSET (Paths \cup {Root}) :
            p \in S /\ (\A r \in S \ {Root} : Parent[r] \in S) => q \in S}]

ASSUME TreeIsRooted == \A p \in Paths : Root \in Ancestors[p]

\* A rule is what it matches, of paths and of dotted paths, and whether it begins
\* with "!".
RuleSet == [hits : SUBSET Paths, dotted : SUBSET Paths, negated : BOOLEAN]
Below(p) == {q \in Paths : p \in Ancestors[q]}
PathRule(p, neg)    == [hits |-> Below(p), dotted |-> {}, negated |-> neg]
DottedRule(p, neg)  == [hits |-> {}, dotted |-> Below(p), negated |-> neg]
GlobRule(S, D, neg) == [hits |-> S, dotted |-> D, negated |-> neg]

\* The source of a COPY: what it names or its glob finds ("*" and "." are the
\* root), and whether it is dotted.
Sources == [entries : SUBSET (Paths \cup {Root}), dotted : BOOLEAN]

\* The rules, as dotted or other paths meet them.
MetBy(rules, dotted) ==
    IF dotted THEN [i \in DOMAIN rules |-> [rules[i] EXCEPT !.hits = rules[i].dotted]]
    ELSE rules

\* Mutant: the first rule that matches decides.
IsIgnoredFirst(rules, p) ==
    \/ p = IgnoreFile
    \/ \E i \in DOMAIN rules :
          /\ p \in rules[i].hits /\ ~rules[i].negated
          /\ \A j \in 1..(i-1) : p \notin rules[j].hits

\* is_ignored: each rule that matches overturns the verdict so far.
IsIgnored(rules, p) ==
    LET verdict[i \in 0..Len(rules)] ==
            IF i = 0 THEN FALSE
            ELSE IF p \in rules[i].hits THEN ~rules[i].negated ELSE verdict[i-1]
    IN  p = IgnoreFile \/ verdict[Len(rules)]

\* collect_files: the files the walk down from a directory finds, when what is
\* ignored is not entered.
Collect(rules, from) ==
    LET kept   == {p \in Paths : ~IsIgnored(rules, p)}
        closed == {S \in SUBSET Paths : \A p \in kept : Parent[p] \in S \cup {from} => p \in S}
    IN  {f \in Files : \A S \in closed : f \in S}

\* copy_to_layout.  What is named or found by a glob is looked up by its relative
\* path, which no rule matches: rules hold below it only.
Copies(rules, src) ==
    (src.entries \cap Files)
        \cup UNION {Collect(MetBy(rules, src.dotted), e) : e \in src.entries \ Files}

-----------------------------------------------------------------------------
(* What the documentation says: a path is ignored if the last rule that
   matches it is not negated; a file is copied unless it, or a directory
   between it and an entry of the source, is ignored.                      *)
Ignores(rules, p) ==
    p = IgnoreFile \/ \E i \in DOMAIN rules :
        /\ p \in rules[i].hits /\ ~rules[i].negated
        /\ \A j \in DOMAIN rules : j > i => p \notin rules[j].hits

WantedOf(rules, e) ==
    {f \in Files : /\ e \in Ancestors[f]
                   /\ \A p \in Ancestors[f] \ Ancestors[e] : ~Ignores(rules, p)}

Wanted(rules, src) == UNION {WantedOf(MetBy(rules, src.dotted), e) : e \in src.entries}
=============================================================================
