---------------------------- MODULE MCProjection ----------------------------
(***************************************************************************)
(* Projection for TLC: the relation of cmd/test/main.go without its second *)
(* int column, all expressions of up to three operators (and two that do   *)
(* not fit the relation), and all pairs of smaller ones.                   *)
(***************************************************************************)
EXTENDS Projection

TheSchema == <<[name |-> "a", typ |-> "int"], [name |-> "c", typ |-> "float"]>>

TheTuples == {<< <<>>, <<>> >>, << <<1, -2>>, <<3, 1>> >>}

Leaves == {[k |-> "attr", name |-> "a", typ |-> "int"],
           [k |-> "attr", name |-> "c", typ |-> "float"],
           [k |-> "const", typ |-> "int", v |-> 1]}

Bins(L, R) == {[k |-> "bin", op |-> o, l |-> x, r |-> y] :
                 o \in {"+", "-"}, x \in L, y \in R}

Small == Leaves \cup Bins(Leaves, Leaves)

\* An attribute that the relation does not have, and one declared as a float.
Wrong == {[k |-> "attr", name |-> "b", typ |-> "int"],
          [k |-> "bin", op |-> "+", l |-> [k |-> "attr", name |-> "a", typ |-> "float"],
           r |-> [k |-> "const", typ |-> "int", v |-> 1]]}

Extends(A, E) == {[alias |-> a, e |-> x] : a \in A, x \in E}

TheProjections ==
    {<<x>> : x \in Extends({"A", "a"}, Bins(Small, Small) \cup Wrong)}
    \cup {<<x, y>> : x, y \in Extends({"", "A", "a"}, Small)}

TheRequests == {<<>>} \cup {<<x>> : x \in {"a", "A", "c"}}
                      \cup {<<x, y>> : x, y \in {"a", "A"}}
=============================================================================
