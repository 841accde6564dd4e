------------------------------ MODULE ExprDeps ------------------------------
(***************************************************************************)
(* recordDependencyOnExpr and recordDependencyOnSingleRelExpr: walk an    *)
(* expression (ExprScanner), eliminate duplicates (AddressSet) and record *)
(* one pg_depend row from the depender to each address found.  Each       *)
(* request is one CREATE statement; an elog(ERROR) in the walk aborts it  *)
(* and records nothing.                                                   *)
(***************************************************************************)
EXTENDS ExprScanner, FiniteSets

CONSTANTS
  Requests   \* [entry, depender, expr, rtable, relid, selfrte, behavior, self]

ASSUME \A r \in Requests :
         r.entry = "recordDependencyOnSingleRelExpr"
           => Rte[r.selfrte] = [Rte[r.selfrte] EXCEPT !.kind = "RELATION", !.relid = r.relid]

AS == INSTANCE AddressSet WITH Addrs <- {}, MaxRefs <- 0, refs <- <<>>

VARIABLES
  rows,      \* pg_depend: [dep, ref, kind]
  pending,   \* the requests not yet issued
  failed,    \* the requests whose walk raised an error
  last       \* the request just issued and the walker's final context

vars == <<rows, pending, failed, last>>

NoRequest == [req |-> "none"]

(* recordMultipleDependencies: one row per referenced address.            *)
RecordMultiple(dep, refs, kind) == {[dep |-> dep, ref |-> a, kind |-> kind] : a \in refs}

(* The range-table stack the walk starts with: the caller's range table, *)
(* or the single bogus RELATION entry for relId.                          *)
RtableOf(r) ==
  IF r.entry = "recordDependencyOnExpr" THEN r.rtable ELSE <<r.selfrte>>

IsSelf(r, a) == a.cls = RelationRelationId /\ a.oid = r.relid

(* A mutation of RowsOf: the rows are written with depender and         *)
(* referenced object swapped.                                              *)
RowsOfSwapped(r, refs) ==
  {[dep |-> a, ref |-> r.depender, kind |-> r.behavior] : a \in refs}

(* The rows a request writes from its deduplicated addresses: with two    *)
(* different kinds, the references to relId and its columns take the     *)
(* self kind.                                                              *)
RowsOf(r, refs) ==
  IF r.entry = "recordDependencyOnSingleRelExpr" /\ r.behavior # r.self
  THEN RecordMultiple(r.depender, {a \in refs : IsSelf(r, a)}, r.self)
         \cup RecordMultiple(r.depender, {a \in refs : ~IsSelf(r, a)}, r.behavior)
  ELSE RecordMultiple(r.depender, refs, r.behavior)

Init ==
  /\ rows = {}
  /\ pending = Requests
  /\ failed = {}
  /\ last = NoRequest

(* The final context of a request's walk.                                  *)
WalkOf(r) == Walk(r.expr, StartContext(RtableOf(r)))

(* The rows a request records: the walk, eliminate_duplicate_dependencies *)
(* and recordMultipleDependencies; none when the walk raised an error.    *)
Recorded(r) ==
  LET ctx == WalkOf(r)
      refs == AS!Dedup(ctx.addrs)
  IN  IF ctx.err = "none" THEN RowsOf(r, {refs[i] : i \in DOMAIN refs}) ELSE {}

(* One request, issued once; an error aborts the statement.               *)
Record(r) ==
  /\ r \in pending
  /\ pending' = pending \ {r}
  /\ last' = [req |-> r, ctx |-> WalkOf(r)]
  /\ rows' = rows \cup Recorded(r)
  /\ failed' = IF WalkOf(r).err = "none" THEN failed ELSE failed \cup {r}

Next == \E r \in pending : Record(r)

Spec == Init /\ [][Next]_vars

-----------------------------------------------------------------------------
TypeOK ==
  /\ pending \subseteq Requests
  /\ failed \subseteq Requests \ pending
  /\ \A e \in rows : e.dep \in {r.depender : r \in Requests}
  /\ \A e \in rows : e.kind \in {r.behavior : r \in Requests} \cup {r.self : r \in Requests}

(* The walker, which mutates context->rtables and restores it around each *)
(* subquery and join alias, finds exactly the objects the tree means,    *)
(* fails exactly on malformed trees, and leaves the stack as it found it. *)
WalkAgreesWithMeaning ==
  last # NoRequest =>
    LET m == Meaning(last.req.expr, <<RtableOf(last.req)>>)
    IN  /\ (last.ctx.err # "none") = m.bad
        /\ last.ctx.err = "none" =>
             /\ {last.ctx.addrs[i] : i \in DOMAIN last.ctx.addrs} = m.refs
             /\ last.ctx.rtables = <<RtableOf(last.req)>>

(* Every object a recorded expression mentions is protected by a row of  *)
(* the kind the caller asked for: a DROP of that object (or, for a column,*)
(* of its table) finds the depender, even though duplicate elimination   *)
(* merged a whole-table reference into a column reference.               *)
MentionsRecorded ==
  \A r \in Requests \ (pending \cup failed) :
    \A a \in Meaning(r.expr, <<RtableOf(r)>>).refs :
      \E e \in rows :
        /\ e.dep = r.depender
        /\ e.ref.cls = a.cls /\ e.ref.oid = a.oid
        /\ a.sub = 0 \/ e.ref.sub = a.sub
        /\ e.kind = IF r.entry = "recordDependencyOnSingleRelExpr" /\ IsSelf(r, a)
                    THEN r.self ELSE r.behavior

=============================================================================
