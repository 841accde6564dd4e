---------------------------- MODULE MCDropEngine ----------------------------
(***************************************************************************)
(* Model-checking instances of DropEngine: small catalogs, every pg_depend *)
(* content of up to MaxRows rows over them, and the DROP commands issued.  *)
(***************************************************************************)
EXTENDS DropEngine

CONSTANTS
  ta, tb, tc,  \* model values: three catalog objects
  MaxRows      \* bound on the number of pg_depend rows of a start state

Addr(o, s) == [obj |-> o, sub |-> s]

(* The classes of the three objects: all relations; a relation, a        *)
(* compression and a role; or, in a damaged catalog, tc of a class id no  *)
(* catalog has.                                                            *)
MCRelationsOnly(o) == RelationRelationId
MCMixedClasses(o) ==
  CASE o = tb -> CompressionRelationId
    [] o = tc -> AuthIdRelationId
    [] OTHER  -> RelationRelationId
MCDamagedClasses(o) == IF o = tc THEN 0 ELSE RelationRelationId

(* Three whole objects; or a table ta with a column ta.1.                 *)
WholeAddrs == {Addr(ta, 0), Addr(tb, 0), Addr(tc, 0)}
ColumnAddrs == {Addr(ta, 0), Addr(ta, 1), Addr(tb, 0), Addr(tc, 0)}

(* Every row pg_depend may hold between distinct objects of S, and a PIN *)
(* row (zeroed depender) on each of them.                                 *)
Rows(S) ==
  {[dep |-> x, ref |-> y, kind |-> k] :
     x \in S, y \in S, k \in {"NORMAL", "AUTO", "INTERNAL"}}
  \cup {[dep |-> PinDep, ref |-> y, kind |-> "PIN"] : y \in S}

RowsBetweenObjects(S) == {e \in Rows(S) : e.dep.obj # e.ref.obj}

(* The invariants of pg_depend: a PIN row has a zeroed depender (and no  *)
(* other row has), and no depender has two INTERNAL rows.                 *)
Consistent(g) ==
  /\ \A e \in g : (e.kind = "PIN") <=> (e.dep = PinDep)
  /\ \A x \in Addrs :
       Cardinality({e \in g : e.dep = x /\ e.kind = "INTERNAL"}) <= 1

(* The sets of at most n elements of R.                                    *)
RECURSIVE UpTo(_, _)
UpTo(n, R) ==
  IF n = 0 THEN {{}}
  ELSE LET smaller == UpTo(n - 1, R)
       IN  smaller \cup {s \cup {e} : s \in smaller, e \in R}

AllGraphs(S) == UpTo(MaxRows, RowsBetweenObjects(S))
ConsistentGraphs(S) == {g \in AllGraphs(S) : Consistent(g)}

(* A damaged catalog: any rows between distinct objects, and PIN rows    *)
(* whose depender is not zeroed.                                           *)
CorruptRows(S) ==
  RowsBetweenObjects(S) \cup
    {e \in [dep : S, ref : S, kind : {"PIN"}] : e.dep.obj # e.ref.obj}
MCCorruptGraphs == UpTo(MaxRows, CorruptRows(ColumnAddrs))

MCWholeGraphs == ConsistentGraphs(WholeAddrs)
MCColumnGraphs == ConsistentGraphs(ColumnAddrs)

Drop(t, beh) == [entry |-> "performDeletion", targets |-> <<t>>, behavior |-> beh]

(* DROP of ta, RESTRICT and CASCADE.                                      *)
MCDropA == {Drop(Addr(ta, 0), beh) : beh \in {"RESTRICT", "CASCADE"}}

(* DROP of the table ta or ALTER TABLE ta DROP COLUMN 1.                  *)
MCDropAOrColumn ==
  {Drop(t, beh) : t \in {Addr(ta, 0), Addr(ta, 1)}, beh \in {"RESTRICT", "CASCADE"}}

WhatDependsOn(t) ==
  [entry |-> "deleteWhatDependsOn", targets |-> <<t>>, behavior |-> "CASCADE"]

(* DROP of ta (RESTRICT, CASCADE) and deleteWhatDependsOn(ta).            *)
MCDropOrEmptyA == MCDropA \cup {WhatDependsOn(Addr(ta, 0))}

MCWhatDependsOnA == {WhatDependsOn(Addr(ta, 0))}

(* DROP ta, tb as one statement (performMultipleDeletions).               *)
MCDropMany ==
  {[entry |-> "performMultipleDeletions",
    targets |-> <<Addr(ta, 0), Addr(tb, 0)>>, behavior |-> beh] :
     beh \in {"RESTRICT", "CASCADE"}}

(* On a damaged catalog: the drops of ta or its column, and DROP ta, tb.  *)
MCDamagedRequests == MCDropAOrColumn \cup MCDropMany

-----------------------------------------------------------------------------
(* The refinement mapping: until the command ends nothing is committed;  *)
(* an aborted command leaves the catalog as it was.                       *)
EngineStatus ==
  CASE pc \in {"init", "loop", "run"}          -> "running"
    [] pc = "done"                             -> "done"
    [] pc = "failed" /\ err = "CacheLookupFailed" -> "broken"
    [] OTHER                                   -> "failed"

Outcome == INSTANCE DropOutcome WITH
             Requests <- MCDropA,
             graph <- graph0,
             cmd <- req,
             objects <- IF pc = "done" THEN live ELSE Addrs,
             status <- EngineStatus

(* The engine implements DropOutcome: whatever order the pg_depend scans *)
(* return rows in, a committed DROP destroys exactly the closure of its   *)
(* target over dependents and INTERNAL owners, and it aborts with a       *)
(* dependency error exactly when that closure holds a pinned object, the  *)
(* target is INTERNAL part of another object, or (RESTRICT) the closure   *)
(* reaches past what AUTO/INTERNAL rows take along (oktodelete).          *)
OutcomeSpec == Outcome!Spec

=============================================================================
