-------------------------- MODULE MCConcurrentDrop --------------------------
(***************************************************************************)
(* A CREATE session and a DROP TABLE t2 CASCADE session running at the    *)
(* same time.  A CREATE walks its expression and inserts its pg_depend    *)
(* rows (Record), which the DROP's SnapshotNow scans see only once the    *)
(* CREATE commits.  The only lock between the two is the one their       *)
(* callers take on relations: the parser's AccessShareLock on every       *)
(* relation of a range table, against the AccessExclusiveLock DROP TABLE  *)
(* holds from its start to its end.  Recording reads the catalog and     *)
(* takes no lock (dependency.c lines 1094-1117, 1281-1333).               *)
(***************************************************************************)
EXTENDS MCExprDrop

VARIABLE
  inflight   \* CREATEs whose rows are inserted but not yet committed

cVars == <<rows, pending, failed, last, inflight, dropVars>>

DropT2 == {DropTable(Table(t2), "CASCADE")}

E == INSTANCE DropEngine
       WITH Addrs <- Catalog, Graphs <- {{}}, Requests <- DropT2, MaxDepth <- 12,
            ClassIdOf <- CatalogClassId

(* The relations of a range table, and of every Query in a tree: the     *)
(* relations the parser opened, and locked, to build the statement.       *)
RelsOf(rt) == {Rte[rt[i]].relid : i \in {j \in DOMAIN rt : Rte[rt[j]].kind = "RELATION"}}

RECURSIVE TreeRels(_)
TreeRels(n) ==
  LET v == Node[n]
      Kids(s) == UNION {TreeRels(s[i]) : i \in DOMAIN s}
  IN  CASE n = NoNode -> {}
        [] v.tag = "Query" -> RelsOf(v.rtable) \cup Kids(v.args \o RtableChildren(v.rtable))
        [] v.tag = "Ref" -> Kids(v.args)
        [] OTHER -> {}

ParserLocks(r) ==
  TreeRels(r.expr) \cup
    IF r.entry = "recordDependencyOnExpr" THEN RelsOf(r.rtable) ELSE {r.relid}

(* The CREATE r and the DROP want conflicting locks on the dropped table. *)
Conflicts(r) == req.targets[1].obj[2] \in ParserLocks(r)

(* The DROP holds its relation lock from its first step until it ends.   *)
DropHoldsLock == pc \in {"run", "loop"}

(* A CREATE walks and inserts its rows while the DROP is not finished (the *)
(* existence lookups of the walk then still see the dropped table), unless *)
(* the DROP holds a lock it needs.                                         *)
CreateBegin(r) ==
  /\ pc \in {"init", "run", "loop"}
  /\ ~(DropHoldsLock /\ Conflicts(r))
  /\ Record(r)
  /\ inflight' = IF WalkOf(r).err = "none" THEN inflight \cup {r} ELSE inflight
  /\ UNCHANGED dropVars

(* The CREATE commits: its rows become visible to every scan.             *)
CreateCommit(r) ==
  /\ r \in inflight
  /\ inflight' = inflight \ {r}
  /\ edges' = edges \cup {ToEdge(e) : e \in Recorded(r)}
  /\ graph0' = IF pc = "init" THEN edges' ELSE graph0
  /\ UNCHANGED <<rows, pending, failed, last, dead, live, stack, okd, deleted,
                 req, idx, pc, err>>

(* A step of the DROP; its first step waits for the locks of CREATEs in   *)
(* flight.                                                                 *)
DropStep ==
  /\ pc = "init" => \A r \in inflight : ~Conflicts(r)
  /\ E!Next
  /\ UNCHANGED <<rows, pending, failed, last, inflight>>

(* The CREATE statements of the other session: CREATE VIEW v13 AS SELECT *)
(* 't2'::regclass FROM t1, and views over t1 JOIN t2.                    *)
RegclassView == [View(13, 7) EXCEPT !.rtable = <<1>>]
ConcurrentCreates == {RegclassView, View(4, 18), View(1, 6)}

ConcurrentInit == Init /\ E!Init /\ inflight = {}

ConcurrentNext ==
  \/ \E r \in pending : CreateBegin(r)
  \/ \E r \in inflight : CreateCommit(r)
  \/ DropStep

ConcurrentSpec == ConcurrentInit /\ [][ConcurrentNext]_cVars

-----------------------------------------------------------------------------
(* The specification's promise for a successful drop: "on success the     *)
(* post-state has no edges incident to any deleted node", whatever other  *)
(* sessions commit meanwhile.                                              *)
NoEdgeToDroppedObject ==
  pc = "done" => \A e \in edges : e.ref \in live

=============================================================================
