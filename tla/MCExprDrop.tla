----------------------------- MODULE MCExprDrop -----------------------------
(***************************************************************************)
(* The expression recorder and the deletion engine composed over one      *)
(* pg_depend: CREATE VIEW / ADD CONSTRAINT statements record their rows   *)
(* (ExprDeps), then a DROP TABLE or DROP COLUMN runs over what was        *)
(* recorded (DropEngine).  Statements on the same table are serialised    *)
(* by the relation locks their callers take, so a CREATE is one step and  *)
(* none runs while the DROP does.                                          *)
(***************************************************************************)
EXTENDS MCExprDeps

CONSTANTS
  NoObj, NoAddr   \* model values: the zeroed depender, callingObject NULL

VARIABLES edges, dead, live, stack, okd, deleted, req, idx, pc, err, graph0

dropVars == <<edges, dead, live, stack, okd, deleted, req, idx, pc, err, graph0>>
allVars == <<rows, pending, failed, last, dropVars>>

(* An address of the expression recorder as the engine sees it: obj is  *)
(* the pair (classId, objectId).                                          *)
ToDrop(a) == [obj |-> <<a.cls, a.oid>>, sub |-> a.sub]
ToEdge(e) == [dep |-> ToDrop(e.dep), ref |-> ToDrop(e.ref), kind |-> e.kind]

Table(t) == ToDrop(Addr(RelationRelationId, t, 0))
Column(t, n) == ToDrop(Addr(RelationRelationId, t, n))

(* The catalog: both tables, and every object some statement can record. *)
Catalog ==
  {Table(t1), Table(t2)} \cup
    UNION {{ToDrop(e.dep), ToDrop(e.ref)} : e \in UNION {Recorded(r) : r \in Requests}}

DropTable(t, beh) ==
  [entry |-> "performDeletion", targets |-> <<t>>, behavior |-> beh]

(* DROP TABLE t1 RESTRICT/CASCADE, ALTER TABLE t1 DROP COLUMN b CASCADE.  *)
Drops ==
  {DropTable(Table(t1), beh) : beh \in {"RESTRICT", "CASCADE"}}
    \cup {DropTable(Column(t1, 2), "CASCADE")}

(* The classId of an engine object <<classId, objectId>>.                  *)
CatalogClassId(o) == o[1]

D == INSTANCE DropEngine
       WITH Addrs <- Catalog, Graphs <- {{}}, Requests <- Drops, MaxDepth <- 12,
            ClassIdOf <- CatalogClassId

(* Statements a view and constraint author issue on t1 and t2.            *)
Creates ==
  {View(1, 6), View(4, 18), View(5, 13), View(9, 21), View(12, 25),
   Check(1, 24, "AUTO")}

ComposedInit == Init /\ D!Init

(* A CREATE, before the DROP has started: its rows are in pg_depend when  *)
(* the DROP reads it.                                                      *)
Create(r) ==
  /\ pc = "init"
  /\ Record(r)
  /\ edges' = {ToEdge(e) : e \in rows'}
  /\ graph0' = edges'
  /\ UNCHANGED <<dead, live, stack, okd, deleted, req, idx, pc, err>>

Step ==
  \/ \E r \in pending : Create(r)
  \/ D!Next /\ UNCHANGED <<rows, pending, failed, last>>

ComposedSpec == ComposedInit /\ [][Step]_allVars /\ WF_allVars(D!Next /\ UNCHANGED <<rows, pending, failed, last>>)

-----------------------------------------------------------------------------
(* r's expression mentions the dropped address t: a column of t by        *)
(* number, or anything of t when t is a whole table.                       *)
Mentions(r, t) ==
  \E a \in Meaning(r.expr, <<RtableOf(r)>>).refs :
    ToDrop(a).obj = t.obj /\ (t.sub = 0 \/ a.sub = t.sub)

(* A committed DROP takes every view or constraint whose expression uses  *)
(* the dropped table or column with it: the walker's column references,  *)
(* merged by duplicate elimination and matched by the engine's whole-    *)
(* object scans, reach every such depender.                                *)
MentionersDropped ==
  (pc = "done") =>
    \A r \in Requests \ (pending \cup failed) :
      Mentions(r, req.targets[1]) => ToDrop(r.depender) \notin live

(* A DROP COLUMN leaves every view or constraint that does not use that  *)
(* column: the scan for the column's dependents (refobjsubid = the        *)
(* column) passes over rows on other columns and on the whole table, such *)
(* as the one a bare 't1'::regclass records.                              *)
ColumnDropKeepsOthers ==
  (pc = "done" /\ req.targets[1].sub # 0) =>
    \A r \in Requests \ (pending \cup failed) :
      ~Mentions(r, req.targets[1]) => ToDrop(r.depender) \in live

=============================================================================
