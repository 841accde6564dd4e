---------------------------- MODULE ExprScanner ----------------------------
(***************************************************************************)
(* find_expr_references_walker of src/backend/catalog/dependency.c: the   *)
(* walk of an expression or query tree that appends every catalog object   *)
(* the tree mentions to context->addrs, resolving Vars through the stack  *)
(* of range tables context->rtables (innermost first).                     *)
(*                                                                         *)
(* A tree is given by two functions: Node maps node ids to node records,  *)
(* Rte maps range-table-entry ids to RTE records.  The node kinds that    *)
(* only add fixed addresses and then fall through to expression_tree_     *)
(* walker (FuncExpr, OpExpr, DistinctExpr, ScalarArrayOpExpr, NullIfExpr,  *)
(* Aggref, WindowRef, Param, RelabelType, ConvertRowtypeExpr, RowExpr,     *)
(* RowCompareExpr, CoerceToDomain, and every other node) are one kind      *)
(* "Ref": the addresses it adds, then its arguments.                       *)
(***************************************************************************)
EXTENDS Integers, Sequences, ClassRegistry

CONSTANTS
  Node,      \* node id -> [tag, refs, args, varno, lvl, attno, type, isnull,
             \*             value, rtable]
  Rte,       \* rte id -> [kind, relid, aliases, coltypes, sub, func]
  Existing   \* the [cls, oid] pairs the catalog holds (caql_getcount > 0)

NoNode == 0

Addr(c, o, s) == [cls |-> c, oid |-> o, sub |-> s]

(* The OID-alias types whose non-null constants name a catalog object,   *)
(* and the catalog each one names (0 for every other type).               *)
REGPROCOID == 24
REGPROCEDUREOID == 2202
REGOPEROID == 2203
REGOPERATOROID == 2204
REGCLASSOID == 2205
REGTYPEOID == 2206

RegClassOf(t) ==
  CASE t \in {REGPROCOID, REGPROCEDUREOID} -> ProcedureRelationId
    [] t \in {REGOPEROID, REGOPERATOROID}  -> OperatorRelationId
    [] t = REGCLASSOID                     -> RelationRelationId
    [] t = REGTYPEOID                      -> TypeRelationId
    [] OTHER                               -> 0

(* The walker's context: the range-table stack, the addresses found, and *)
(* the error an elog(ERROR) raised ("none" while the walk goes on).       *)
AddTo(ctx, a) == [ctx EXCEPT !.addrs = Append(@, a)]
Raise(ctx, e) == [ctx EXCEPT !.err = e]

(* The whole-relation and function-column-type references of a Query's   *)
(* own range table, added before its substructure is walked.              *)
RtableRefs(rt) ==
  LET RefsOf(r) ==
        CASE Rte[r].kind = "RELATION" -> <<Addr(RelationRelationId, Rte[r].relid, 0)>>
          [] Rte[r].kind \in {"FUNCTION", "TABLEFUNCTION"} ->
               [i \in 1..Len(Rte[r].coltypes) |-> Addr(TypeRelationId, Rte[r].coltypes[i], 0)]
          [] OTHER -> <<>>
      RECURSIVE Cat(_)
      Cat(i) == IF i > Len(rt) THEN <<>> ELSE RefsOf(rt[i]) \o Cat(i + 1)
  IN  Cat(1)

(* The subtrees query_tree_walker visits besides the query's own lists:  *)
(* subquery and function RTEs, never join alias lists (QTW_IGNORE_        *)
(* JOINALIASES).                                                          *)
RtableChildren(rt) ==
  LET ChildOf(r) ==
        CASE Rte[r].kind = "SUBQUERY" -> <<Rte[r].sub>>
          [] Rte[r].kind \in {"FUNCTION", "TABLEFUNCTION"} -> <<Rte[r].func>>
          [] OTHER -> <<>>
      RECURSIVE Cat(_)
      Cat(i) == IF i > Len(rt) THEN <<>> ELSE ChildOf(rt[i]) \o Cat(i + 1)
  IN  Cat(1)

RECURSIVE Walk(_, _), WalkList(_, _), JoinAlias(_, _, _), JoinAliasNoTrim(_, _, _),
          WalkQuery(_, _), WalkExpr(_, _)

(* Walk the nodes of ns in order, threading the context.                  *)
WalkList(ns, ctx) ==
  IF ns = <<>> \/ ctx.err # "none" THEN ctx
  ELSE WalkList(Tail(ns), Walk(Head(ns), ctx))

(* A mutation of JoinAlias: the alias is resolved in the Var's scope     *)
(* instead of the join's (list_copy_tail forgotten).                     *)
JoinAliasNoTrim(v, r, ctx) ==
  IF v.attno <= 0 \/ v.attno > Len(r.aliases) THEN Raise(ctx, "InvalidVarattno")
  ELSE Walk(r.aliases[v.attno], ctx)

(* A Var of a join RTE: walk the join's alias expression with the range- *)
(* table stack trimmed to the join's level, then restore the stack.      *)
JoinAlias(v, r, ctx) ==
  LET inner == [ctx EXCEPT !.rtables = SubSeq(@, v.lvl + 1, Len(@))]
  IN  IF v.attno <= 0 \/ v.attno > Len(r.aliases)
      THEN Raise(inner, "InvalidVarattno")
      ELSE [Walk(r.aliases[v.attno], inner) EXCEPT !.rtables = ctx.rtables]

(* A Query (an RTE subquery or a sublink): record its relations and the  *)
(* column types of its functions, push its range table, walk its lists   *)
(* and subquery/function RTEs, pop the range table.                       *)
WalkQuery(v, ctx) ==
  LET found == [ctx EXCEPT !.addrs = @ \o RtableRefs(v.rtable)]
      pushed == [found EXCEPT !.rtables = <<v.rtable>> \o @]
      walked == WalkList(v.args \o RtableChildren(v.rtable), pushed)
  IN  [walked EXCEPT !.rtables = Tail(@)]

(* Any other node: the operator, function, type or opclass addresses it  *)
(* names, then expression_tree_walker over its arguments.                 *)
WalkExpr(v, ctx) == WalkList(v.args, [ctx EXCEPT !.addrs = @ \o v.refs])

(* find_expr_references_walker(n, ctx).                                    *)
Walk(n, ctx) ==
  IF n = NoNode \/ ctx.err # "none" THEN ctx
  ELSE
  LET v == Node[n] IN
  CASE v.tag = "Var" ->
         IF v.lvl >= Len(ctx.rtables) THEN Raise(ctx, "InvalidVarLevel")
         ELSE LET rt == ctx.rtables[v.lvl + 1] IN
         IF v.varno <= 0 \/ v.varno > Len(rt) THEN Raise(ctx, "InvalidVarno")
         ELSE LET r == Rte[rt[v.varno]] IN
         IF v.attno = 0 THEN ctx
         ELSE IF r.kind = "RELATION" THEN AddTo(ctx, Addr(RelationRelationId, r.relid, v.attno))
         ELSE IF r.kind = "JOIN" THEN JoinAlias(v, r, ctx)
         ELSE ctx
    [] v.tag = "Const" ->
         LET withType == AddTo(ctx, Addr(TypeRelationId, v.type, 0))
             c == RegClassOf(v.type)
         IN  IF ~v.isnull /\ c # 0 /\ [cls |-> c, oid |-> v.value] \in Existing
             THEN AddTo(withType, Addr(c, v.value, 0))
             ELSE withType
    [] v.tag = "SubPlan" -> Raise(ctx, "Unsupported")
    [] v.tag = "Query" -> WalkQuery(v, ctx)
    [] OTHER -> WalkExpr(v, ctx)

(* The context recordDependencyOnExpr starts the walk with.               *)
StartContext(rtable) == [rtables |-> <<rtable>>, addrs |-> <<>>, err |-> "none"]

-----------------------------------------------------------------------------
(* The reference meaning of a tree, written with the scope as a parameter *)
(* instead of a context mutated and restored around each recursion: the  *)
(* set of objects it mentions, and whether some node in it is malformed.  *)
(* A Var at level l names a column of the l-th enclosing range table; a  *)
(* join alias means what its alias expression means at the join's level. *)
RECURSIVE Meaning(_, _)
Meaning(n, env) ==
  LET None == [bad |-> FALSE, refs |-> {}]
      Bad == [bad |-> TRUE, refs |-> {}]
      Join(rs) == [bad |-> \E r \in rs : r.bad, refs |-> UNION {r.refs : r \in rs}]
      SeqSet(s) == {s[i] : i \in DOMAIN s}
      v == Node[n]
  IN
  IF n = NoNode THEN None
  ELSE CASE v.tag = "Var" ->
              IF v.lvl >= Len(env) \/ v.varno <= 0 \/ v.varno > Len(env[v.lvl + 1])
              THEN Bad
              ELSE LET r == Rte[env[v.lvl + 1][v.varno]] IN
                   CASE v.attno = 0 -> None
                     [] r.kind = "RELATION" ->
                          [bad |-> FALSE, refs |-> {Addr(RelationRelationId, r.relid, v.attno)}]
                     [] r.kind = "JOIN" ->
                          IF v.attno \in 1..Len(r.aliases)
                          THEN Meaning(r.aliases[v.attno], SubSeq(env, v.lvl + 1, Len(env)))
                          ELSE Bad
                     [] OTHER -> None
         [] v.tag = "Const" ->
              LET named == {c \in {RegClassOf(v.type)} :
                              c # 0 /\ ~v.isnull /\ [cls |-> c, oid |-> v.value] \in Existing}
              IN  [bad |-> FALSE,
                   refs |-> {Addr(TypeRelationId, v.type, 0)} \cup {Addr(c, v.value, 0) : c \in named}]
         [] v.tag = "SubPlan" -> Bad
         [] v.tag = "Query" ->
              LET inner == Join({Meaning(c, <<v.rtable>> \o env) :
                                   c \in SeqSet(v.args \o RtableChildren(v.rtable))})
              IN  [inner EXCEPT !.refs = @ \cup SeqSet(RtableRefs(v.rtable))]
         [] OTHER ->
              LET inner == Join({Meaning(c, env) : c \in SeqSet(v.args)})
              IN  [inner EXCEPT !.refs = @ \cup SeqSet(v.refs)]

=============================================================================
