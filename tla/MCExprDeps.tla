----------------------------- MODULE MCExprDeps -----------------------------
(***************************************************************************)
(* Expression trees of a view over t1 JOIN t2 and of a CHECK constraint  *)
(* on t1, for recordDependencyOnExpr and recordDependencyOnSingleRelExpr. *)
(***************************************************************************)
EXTENDS ExprDeps

t1 == 16384
t2 == 16385
int4 == 23
f == 1000
srf == 1001
plus == 551
eq == 96

V(varno, lvl, attno) ==
  [tag |-> "Var", varno |-> varno, lvl |-> lvl, attno |-> attno]
C(type, value) ==
  [tag |-> "Const", type |-> type, value |-> value, isnull |-> FALSE]
R(refs, args) == [tag |-> "Ref", refs |-> refs, args |-> args]
Q(rtable, args) == [tag |-> "Query", rtable |-> rtable, args |-> args]

(* Range-table entries: 1, 2, 3 are the view's t1, t2 and their join;   *)
(* 4 is t2 in a sublink; 5 a function in FROM; 6 the bogus entry of     *)
(* recordDependencyOnSingleRelExpr for t1.                                *)
MCRte ==
  [r \in 1..6 |->
    CASE r = 1 -> [kind |-> "RELATION", relid |-> t1]
      [] r = 2 -> [kind |-> "RELATION", relid |-> t2]
      [] r = 3 -> [kind |-> "JOIN", aliases |-> <<2, 3>>]
      [] r = 4 -> [kind |-> "RELATION", relid |-> t2]
      [] r = 5 -> [kind |-> "FUNCTION", coltypes |-> <<int4, 25>>, func |-> 16]
      [] r = 6 -> [kind |-> "RELATION", relid |-> t1]]

MCNode ==
  [n \in 1..25 |->
    CASE n = 1  -> V(1, 0, 1)                       \* t1.a
      [] n = 2  -> V(1, 0, 2)                       \* join alias 1: t1.b
      [] n = 3  -> V(2, 0, 1)                       \* join alias 2: t2.a
      [] n = 4  -> C(int4, 5)
      [] n = 5  -> R(<<Addr(ProcedureRelationId, f, 0)>>, <<1>>)
      [] n = 6  -> R(<<Addr(OperatorRelationId, plus, 0)>>, <<5, 4>>)
      [] n = 7  -> C(REGCLASSOID, t2)                \* 't2'::regclass
      [] n = 8  -> V(3, 0, 2)                       \* join column 2
      [] n = 9  -> V(3, 1, 1)                       \* outer join column 1
      [] n = 10 -> V(1, 0, 1)                       \* t2.a in the sublink
      [] n = 11 -> R(<<Addr(OperatorRelationId, eq, 0)>>, <<10, 9>>)
      [] n = 12 -> Q(<<4>>, <<11>>)                 \* EXISTS (SELECT ...)
      [] n = 13 -> V(1, 0, -1)                      \* t1.ctid
      [] n = 14 -> V(5, 0, 1)                       \* bad varno
      [] n = 15 -> [tag |-> "SubPlan"]
      [] n = 16 -> R(<<Addr(ProcedureRelationId, srf, 0)>>, <<>>)
      [] n = 17 -> Q(<<5>>, <<>>)                   \* SELECT FROM srf()
      [] n = 18 -> R(<<Addr(OperatorRelationId, plus, 0)>>, <<12, 8>>)
      [] n = 19 -> C(REGCLASSOID, 99999)               \* dangling regclass
      [] n = 20 -> V(3, 0, 0)                       \* whole-row join Var
      [] n = 21 -> R(<<Addr(2249, 0, 0)>>, <<19, 20>>)
      [] n = 22 -> V(1, 2, 1)                       \* bad varlevelsup
      [] n = 23 -> V(3, 0, 5)                       \* bad join varattno
      [] n = 24 -> R(<<Addr(OperatorRelationId, eq, 0)>>, <<1, 25>>)
      [] n = 25 -> C(REGCLASSOID, t1)]

MCExisting == {[cls |-> RelationRelationId, oid |-> t] : t \in {t1, t2}}

View(k, e) ==
  [entry |-> "recordDependencyOnExpr", depender |-> Addr(2618, 30000 + k, 0),
   expr |-> e, rtable |-> <<1, 2, 3>>, relid |-> 0, selfrte |-> 0,
   behavior |-> "NORMAL", self |-> "NORMAL"]

Check(k, e, self) ==
  [entry |-> "recordDependencyOnSingleRelExpr", depender |-> Addr(2606, 40000 + k, 0),
   expr |-> e, rtable |-> <<>>, relid |-> t1, selfrte |-> 6,
   behavior |-> "NORMAL", self |-> self]

MCRequests ==
  {View(1, 6), View(2, 7), View(4, 18), View(5, 13), View(6, 14),
   View(7, 15), View(8, 17), View(9, 21), View(10, 22), View(11, 23),
   Check(1, 24, "AUTO"), Check(2, 6, "NORMAL")}

=============================================================================
