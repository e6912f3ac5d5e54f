----------------------------- MODULE MCOptions -----------------------------
(* A small instance of Options: two images, a build directory with one     *)
(* subdirectory, u32 with eight values, ports up to 5.                     *)
EXTENDS Options

CONSTANTS dir, topFile, subFile, keepFile, a1, a2, a3, k1, old, new

Tree == dir :> "root" @@ topFile :> "root" @@ "ignore" :> "root"
        @@ subFile :> dir @@ keepFile :> dir

Source(entries, dotted) == [entries |-> entries, dotted |-> dotted]
Line(key, arg) == [key |-> key, arg |-> arg]
Lines ==
    {Line("blank", <<>>), Line("ADD", <<a1>>), Line("CMD", <<>>),
     Line("FROM", <<"i1">>), Line("FROM", <<"i2">>), Line("FROM", <<"i3">>),
     Line("CMD", <<a1>>), Line("CMD", <<a1, a2>>),
     Line("CPU_LIMIT", <<15>>), Line("CPU_LIMIT", <<0>>), Line("CPU_LIMIT", <<NaN>>),
     Line("MEMORY_LIMIT", <<[num |-> 3, unit |-> "k"]>>),
     Line("MEMORY_LIMIT", <<[num |-> NaN, unit |-> "b"]>>),
     Line("WORKDIR", <<"w">>),
     Line("COPY", <<Source({"root"}, FALSE), "/">>), Line("COPY", <<Source({"root"}, TRUE), "/">>),
     Line("COPY", <<Source({dir, topFile}, FALSE), "/">>),
     Line("COPY", <<Source({dir}, FALSE), "/">>), Line("COPY", <<Source({topFile}, FALSE)>>),
     Line("DOWNLOAD", <<"ref", "AS", "i1">>), Line("DOWNLOAD", <<"ref", "i1">>)}

ImageChoices ==
    [i1 |-> {[args |-> <<a2>>, envs |-> << <<k1, old>> >>, cwd |-> {}]},
     i2 |-> {[args |-> <<>>, envs |-> <<>>, cwd |-> {"v"}]},
     i3 |-> {}]

RuleChoices == {PathRule(dir, FALSE), PathRule(topFile, FALSE), PathRule(keepFile, TRUE),
                DottedRule(keepFile, TRUE),
                GlobRule({topFile, subFile, keepFile}, {subFile, keepFile}, FALSE)}
FewRules == UNION {[1..n -> RuleChoices] : n \in 0..2}

Env == {k1} \X {old, new}

Anew == {[args |-> <<a3>>, quota |-> 20, memory |-> 7, cwd |-> "v",
          envs |-> << <<k1, old>> >>]}

Pair(h, g)       == << <<h>>, <<g>> >>
Ranges(l, h, m, i) == << <<l, h>>, <<m, i>> >>
TooHigh == {<<h, g>> \in Texts \X Texts : {h, g} \cap {NaN, 6, 7} # {}}
PortLists ==
    {<<>>, <<Pair(1, 1), Pair(NaN, 2), Pair(2, 5)>>, <<Ranges(4, 7, 4, 7), Pair(2, 5)>>,
     <<Pair(2, 5)>>, <<Ranges(2, 4, 2, 4), Pair(1, 1)>>, <<Pair(1, 1), Ranges(2, 4, 2, 5)>>,
     <<Ranges(2, 3, NaN, 3)>>, <<Pair(2, 5), << <<3>> >> >>, << << <<2, 3>>, <<4>> >> >>,
     <<Ranges(4, 2, 4, 2)>>, <<Ranges(2, 3, 4, 5)>>, <<Pair(2, 2), Ranges(2, 3, 2, 3)>>,
     <<Ranges(2, 3, 2, 3), << <<1, 2, 3>>, <<1, 2>> >> >>}

Given == [args : {<<>>, <<a3>>}, cpu : {{}, {5}, {15}}, memory : {{}, {9}},
            envs : {<<>>, << <<k1, new>> >>}, ports : PortLists, detached : BOOLEAN]
=============================================================================
