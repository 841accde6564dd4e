------------------------------- MODULE Depend -------------------------------
(***************************************************************************)
(* The data model shared by the deletion engine and its abstract           *)
(* specification: ObjectAddresses, pg_depend rows, the scan filters of     *)
(* pg_depend (EdgeStore) and the membership test of ObjectAddresses        *)
(* (AddressSet), from src/backend/catalog/dependency.c.                   *)
(***************************************************************************)
CONSTANTS
  Addrs,     \* the ObjectAddresses of the catalog, records [obj, sub]
  NoObj      \* the zeroed (classid, objid) of a PIN row's depender

(* An address (classId, objectId, objectSubId): obj stands for the pair   *)
(* (classId, objectId), sub for objectSubId; sub = 0 is the whole object. *)
PinDep == [obj |-> NoObj, sub |-> 0]
Kinds == {"NORMAL", "AUTO", "INTERNAL", "PIN"}
Edges == [dep : Addrs \cup {PinDep}, ref : Addrs, kind : Kinds]

(* object_address_present: a is in S, or its whole object is.            *)
Present(a, S) == \E s \in S : s.obj = a.obj /\ (s.sub = a.sub \/ s.sub = 0)

(* The WHERE clauses of the scans over the depender columns (classid,    *)
(* objid[, objsubid]) and over the referenced columns: a whole object     *)
(* (sub = 0) matches the rows of its sub-objects too.                     *)
(* Mutations of the referenced-side filter: the refobjsubid condition     *)
(* kept for a whole object, or widened to rows on the whole object.       *)
InMatchExact(a, e) == e.ref.obj = a.obj /\ e.ref.sub = a.sub
InMatchWholeRows(a, e) == e.ref.obj = a.obj /\ (a.sub = 0 \/ e.ref.sub \in {a.sub, 0})

OutMatch(a, e) == e.dep.obj = a.obj /\ (a.sub = 0 \/ e.dep.sub = a.sub)
InMatch(a, e) == e.ref.obj = a.obj /\ (a.sub = 0 \/ e.ref.sub = a.sub)

(* recursiveDeletion's test that an INTERNAL row leads back to the        *)
(* calling object: the caller is its referenced object, or the whole      *)
(* object containing it.                                                  *)
CallerMatches(c, o) == c.obj = o.obj /\ (c.sub = o.sub \/ c.sub = 0)

(* The addresses that doDeletion(a) destroys: a whole object takes its    *)
(* columns with it (heap_drop_with_catalog), a column only itself         *)
(* (RemoveAttributeById).                                                 *)
DestroyedBy(a) == {x \in Addrs : x.obj = a.obj /\ (a.sub = 0 \/ x = a)}

=============================================================================
