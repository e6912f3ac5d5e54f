------------------------------ MODULE MCStore ------------------------------
(* Small instances of Store.                                               *)
EXTENDS Store, TLC

CONSTANTS k1, k2

\* One builds, and also launches, pulls images anew or publishes; the other
\* removes: layouts, and images where no container is launched.
BuilderAndRemover ==
    {k1 :> {"build", "run"} @@ k2 :> {"rm"}} \cup
    {k1 :> {"build", also} @@ k2 :> {"rmi", "rm"} : also \in {"pull", "publish"}}

\* An image of two layers, then of one.
TwoThenOne == "v1" :> 2 @@ "v2" :> 1

WholeScript == <<"download", "from", "copy", "run">>
=============================================================================
