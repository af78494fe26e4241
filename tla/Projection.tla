----------------------------- MODULE Projection -----------------------------
(***************************************************************************)
(* The projection operator of the execution exercise                       *)
(* (matrixone/execution/homework): a relation of typed columns, the        *)
(* expressions over them, and a projection that reads the relation once.   *)
(*                                                                         *)
(* An Int has Width bits and wraps around; a Float is an exact number.  A  *)
(* Go panic ends the program.                                              *)
(***************************************************************************)
EXTENDS Integers, SequencesExt

CONSTANTS
    Schema,        \* metadata.Attrs: a sequence of [name, typ]
    Tuples,        \* what load may pass to AddTuples
    Projections,   \* the lists of [alias, e] given to projection.New
    Requests,      \* the names passed to Read
    Width,         \* bits of an int (64 in the code)
    MaxSegments    \* bound on calls of AddTuples

ASSUME ProjectionAssumption ==
    /\ Len(Schema) > 0
    /\ Width \in Nat \ {0}
    /\ MaxSegments \in Nat \ {0}

VARIABLES
    es,        \* projection.es
    isCheck,   \* projection.isCheck
    open,      \* relation.r # nil
    as,        \* per attribute: its segments
    result     \* what the last Read returned

vars == <<es, isCheck, open, as, result>>

Ints == -(2^(Width - 1)) .. 2^(Width - 1) - 1

\* Mutant: an int without a width.
Unbounded(x) == x

\* int64.
Wrap(x) == ((x + 2^(Width - 1)) % (2^Width)) - 2^(Width - 1)

-----------------------------------------------------------------------------
(* util *)

\* xs followed by ys, each name once.
MergeAttributes(xs, ys) ==
    FoldLeft(LAMBDA rs, x : IF Contains(rs, x) THEN rs ELSE Append(rs, x),
             <<>>, xs \o ys)

Contain(xs, ys) == ToSet(xs) \subseteq ToSet(ys)

-----------------------------------------------------------------------------
(* overload: what the operators are defined for *)

BinOp(l, r, t) == [left |-> l, right |-> r, ret |-> t]

\* The same three for Plus and Minus.
BinOps == {BinOp("int", "int", "int"), BinOp("int", "float", "float"),
           BinOp("float", "int", "float")}

\* Mutant: minus with its operands swapped.
Swapped(op, t, x, y) ==
    LET z == IF op = "+" THEN x + y ELSE y - x
    IN  [t |-> t, v |-> IF t = "int" THEN Wrap(z) ELSE z]

\* Fn of a BinOp on one row.
Fn(op, t, x, y) ==
    LET z == IF op = "+" THEN x + y ELSE x - y
    IN  [t |-> t, v |-> IF t = "int" THEN Wrap(z) ELSE z]

\* What an evaluation returns: values and their type, an error or a panic.
Values(vs, t) == [st |-> "ok", vs |-> vs, t |-> t]
Failed(st) == [st |-> st, vs |-> <<>>, t |-> "null"]

BinaryEval(op, lt, rt, xs, ys) ==
    LET os == {o \in BinOps : o.left = lt /\ o.right = rt}
    IN  IF os = {} THEN Failed("err")
        ELSE LET o == CHOOSE o \in os : TRUE
             IN  IF \E i \in DOMAIN xs : xs[i].t # lt \/ ys[i].t # rt
                 THEN Failed("panic")    \* MustBeInt, MustBeFloat
                 ELSE Values([i \in DOMAIN xs |-> Fn(op, o.ret, xs[i].v, ys[i].v)],
                             o.ret)

-----------------------------------------------------------------------------
(* extend: expressions *)

RECURSIVE Attributes(_)
Attributes(e) ==
    CASE e.k = "attr"  -> <<e.name>>
      [] e.k = "const" -> <<>>
      [] e.k = "bin"   -> MergeAttributes(Attributes(e.l), Attributes(e.r))

\* Mutant: the type of the left operand.
LeftType(x, y) == x

\* returnType.
RetType(x, y) ==
    IF x = y THEN x ELSE IF x \in {"int", "float"} THEN y ELSE x

RECURSIVE ReturnType(_)
ReturnType(e) ==
    IF e.k = "bin" THEN RetType(ReturnType(e.l), ReturnType(e.r)) ELSE e.typ

\* The number of rows of a block; all its columns have the same.
length(mp) == IF DOMAIN mp = {} THEN 0 ELSE Len(mp[CHOOSE a \in DOMAIN mp : TRUE])

RECURSIVE Eval(_, _)
Eval(e, mp) ==
    CASE e.k = "attr" ->
           IF e.name \in DOMAIN mp THEN Values(mp[e.name], e.typ) ELSE Failed("err")
      [] e.k = "const" ->
           Values([i \in 1..length(mp) |-> [t |-> e.typ, v |-> e.v]], e.typ)
      [] e.k = "bin" ->
           LET l == Eval(e.l, mp)
               r == Eval(e.r, mp)
           IN  IF l.st # "ok" THEN l
               ELSE IF r.st # "ok" THEN r
               ELSE BinaryEval(e.op, l.t, r.t, l.vs, r.vs)

-----------------------------------------------------------------------------
(* storage.relation, and the relation operator above it *)

\* mp: a name that is not there gives the first column.
Column(a) ==
    LET is == {i \in DOMAIN Schema : Schema[i].name = a}
    IN  IF is = {} THEN 1 ELSE CHOOSE i \in is : \A j \in is : j <= i

\* ValueList of segment 0.
ValueList(i) == [j \in DOMAIN as[i][1] |-> [t |-> Schema[i].typ, v |-> as[i][1][j]]]

RelationRead(attrs) == [a \in ToSet(attrs) |-> ValueList(Column(a))]

\* load: a column for every attribute.
AddTuples(ts) ==
    /\ result.st # "panic"
    /\ Len(as[1]) < MaxSegments
    /\ as' = [i \in DOMAIN as |-> Append(as[i], ts[i])]
    /\ UNCHANGED <<es, isCheck, open, result>>

-----------------------------------------------------------------------------
(* projection *)

AliasOf(x) == IF x.e.k = "attr" /\ x.alias = "" THEN x.e.name ELSE x.alias

aliasList == [i \in DOMAIN es |-> AliasOf(es[i])]

attributeList(xs) ==
    FoldLeft(LAMBDA rs, x : MergeAttributes(rs, Attributes(x.e)), <<>>, xs)

subExtend(attrs) == SelectSeq(es, LAMBDA x : Contains(attrs, AliasOf(x)))

\* check and Contain: "ok", an error, or the panic of Attributes on a relation
\* that was read.
Check(as0, attrs) ==
    IF \E i \in DOMAIN es : Attributes(es[i].e) = <<>> THEN "err"
    ELSE IF ~open THEN "panic"
    ELSE IF ~Contain(as0, [i \in DOMAIN Schema |-> Schema[i].name]) THEN "err"
    ELSE IF ~Contain(attrs, aliasList) THEN "err"
    ELSE "ok"

\* Mutant: it looks at the last name that is asked for.
LastEmpty(mp, attrs) == Last(attrs) \notin DOMAIN mp \/ mp[Last(attrs)] = <<>>

\* Read looks up the first name of its result in the block it has read.
NoRows(mp, attrs) == attrs[1] \notin DOMAIN mp \/ mp[attrs[1]] = <<>>

\* Expressions of the same alias are put behind each other.
Collect(xs, evals) ==
    [a \in {AliasOf(xs[i]) : i \in DOMAIN xs} |->
       FoldLeft(LAMBDA rs, i : IF AliasOf(xs[i]) = a THEN rs \o evals[i].vs ELSE rs,
                <<>>, [i \in DOMAIN xs |-> i])]

NoColumns == [a \in {} |-> <<>>]

Answer(st, cols, attrs) == [st |-> st, cols |-> cols, attrs |-> attrs, fresh |-> open]

\* What Read returns once it has a block mp.
Evaluate(xs, mp, attrs) ==
    LET evals == [i \in DOMAIN xs |-> Eval(xs[i].e, mp)]
        bad   == SelectSeq(evals, LAMBDA v : v.st # "ok")
    IN  IF attrs = <<>> THEN Answer("panic", NoColumns, attrs)
        ELSE IF NoRows(mp, attrs) THEN Answer("none", NoColumns, attrs)
        ELSE IF bad # <<>> THEN Answer(bad[1].st, NoColumns, attrs)
        ELSE Answer("rows", Collect(xs, evals), attrs)

\* Mutant: the check is made every time.
CheckAgain == FALSE

\* Later Reads are not checked.
Checked == TRUE

Read(names) ==
    LET attrs == MergeAttributes(names, <<>>)
        xs    == subExtend(attrs)
        as0   == attributeList(xs)
        chk   == IF isCheck THEN "ok" ELSE Check(as0, attrs)
    IN  /\ result.st # "panic"
        /\ \/ /\ chk # "ok"
              /\ result' = Answer(chk, NoColumns, attrs)
              /\ UNCHANGED <<isCheck, open>>
           \/ /\ chk = "ok"
              /\ isCheck' = Checked
              /\ open' = FALSE
              /\ result' =
                   IF ~open THEN Answer("none", NoColumns, attrs)
                   ELSE IF as[1] = <<>> /\ as0 # <<>>
                        THEN Answer("panic", NoColumns, attrs)
                   ELSE Evaluate(xs, RelationRead(as0), attrs)
        /\ UNCHANGED <<es, as>>

Init ==
    /\ es \in Projections
    /\ isCheck = FALSE
    /\ open = TRUE
    /\ as = [i \in DOMAIN Schema |-> <<>>]
    /\ result = [st |-> "none", cols |-> NoColumns, attrs |-> <<>>, fresh |-> FALSE]

Next ==
    \/ \E ts \in Tuples : AddTuples(ts)
    \/ \E names \in Requests : Read(names)

Spec == Init /\ [][Next]_vars

-----------------------------------------------------------------------------
(* Properties *)

\* The reference: an expression on row j, computed on its own.
RECURSIVE RowValue(_, _)
RowValue(e, j) ==
    CASE e.k = "attr"  -> [t |-> e.typ, v |-> as[Column(e.name)][1][j]]
      [] e.k = "const" -> [t |-> e.typ, v |-> e.v]
      [] e.k = "bin"   ->
           LET x == RowValue(e.l, j)
               y == RowValue(e.r, j)
               t == IF x.t = "int" /\ y.t = "int" THEN "int" ELSE "float"
               z == IF e.op = "+" THEN x.v + y.v ELSE x.v - y.v
           IN  [t |-> t, v |-> IF t = "int"
                               THEN CHOOSE w \in Ints : (w - z) % (2^Width) = 0
                               ELSE z]

Rows == IF as[1] = <<>> THEN 0 ELSE Len(as[1][1])

Named(a) == SelectSeq(es, LAMBDA x : AliasOf(x) = a)

\* The types and widths of the values in the answer.
TypeOK ==
    /\ isCheck \in BOOLEAN
    /\ open \in BOOLEAN
    /\ \A i \in DOMAIN as : Len(as[i]) \in 0..MaxSegments
    /\ result.st \in {"rows", "none", "err", "panic"}
    /\ \A a \in DOMAIN result.cols : \A i \in DOMAIN result.cols[a] :
         result.cols[a][i].t = "int" => result.cols[a][i].v \in Ints

\* A Read that answers has a column for every name that was asked for and for
\* no other, and each value in it is that of its expression on its row.
RowsRight ==
    result.st = "rows" =>
      /\ DOMAIN result.cols = ToSet(result.attrs)
      /\ \A a \in ToSet(result.attrs) :
           Len(Named(a)) = 1 =>
             result.cols[a] = [j \in 1..Rows |-> RowValue(Named(a)[1].e, j)]

\* The subexpressions of e.
RECURSIVE Parts(_)
Parts(e) == {e} \cup (IF e.k = "bin" THEN Parts(e.l) \cup Parts(e.r) ELSE {})

ExprType(e) == IF \E p \in Parts(e) : p.k # "bin" /\ p.typ = "float"
               THEN "float" ELSE "int"

\* No operator has two float operands (there is no overload for that), and
\* attributes are declared with the types that the relation has.
Supported(e) ==
    \A p \in Parts(e) :
      /\ p.k = "bin" => ~(ExprType(p.l) = "float" /\ ExprType(p.r) = "float")
      /\ p.k = "attr" => Schema[Column(p.name)].typ = p.typ

\* An expression that uses the relation, and only what is in it.
OnRelation(e) ==
    /\ Attributes(e) # <<>>
    /\ Contain(Attributes(e), [i \in DOMAIN Schema |-> Schema[i].name])

\* The first Read of supported expressions over a loaded relation, for names
\* that the projection has, neither fails nor panics; and no later one does.
Served ==
    /\ \A i \in DOMAIN es : Supported(es[i].e) /\ OnRelation(es[i].e)
    /\ result.attrs # <<>>
    /\ Contain(result.attrs, aliasList)
    /\ as[1] # <<>>
    => result.st \in {"rows", "none"}

\* The first Read of a relation with rows answers with none only when the first
\* name it was asked for is not the name of a column that it read: an alias.
EmptyExplained ==
    result.st = "none" /\ result.fresh =>
      \/ Rows = 0
      \/ result.attrs[1] \notin ToSet(attributeList(subExtend(result.attrs)))

\* Somewhere in e an int is added to, or subtracted from, a float.
FloatThenInt(e) ==
    \E p \in Parts(e) :
      p.k = "bin" /\ ExprType(p.l) = "float" /\ ExprType(p.r) = "int"

\* Attributes() announces the type that the values have, except when an int
\* stands to the right of a float.
TypeDeclared ==
    result.st = "rows" =>
      \A i \in DOMAIN es :
        AliasOf(es[i]) \in DOMAIN result.cols /\ ~FloatThenInt(es[i].e)
          /\ Len(Named(AliasOf(es[i]))) = 1 =>
          \A j \in DOMAIN result.cols[AliasOf(es[i])] :
            result.cols[AliasOf(es[i])][j].t = ReturnType(es[i].e)
=============================================================================
