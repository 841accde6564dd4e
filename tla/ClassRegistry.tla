--------------------------- MODULE ClassRegistry ---------------------------
(***************************************************************************)
(* The object-class dispatch of src/backend/catalog/dependency.c:         *)
(* getObjectClass maps the classId of an ObjectAddress (the OID of a      *)
(* system catalog) to its ObjectClass, and doDeletion switches on that     *)
(* class to pick the destructor.  The Assert(objectSubId == 0) of every   *)
(* class but OCLASS_CLASS is compiled out of a production build and is    *)
(* left out.                                                               *)
(***************************************************************************)
EXTENDS TLC

(* The catalog ids, the OIDs the catalog headers (catalog/pg_*.h) give    *)
(* the system catalogs; only their being distinct matters here.           *)
RelationRelationId           == 1259
TypeRelationId               == 1247
ProcedureRelationId          == 1255
CastRelationId               == 2605
ConstraintRelationId         == 2606
ConversionRelationId         == 2607
AttrDefaultRelationId        == 2604
LanguageRelationId           == 2612
OperatorRelationId           == 2617
OperatorClassRelationId      == 2616
RewriteRelationId            == 2618
TriggerRelationId            == 2620
NamespaceRelationId          == 2615
AuthIdRelationId             == 1260
DatabaseRelationId           == 1262
TableSpaceRelationId         == 1213
FileSpaceRelationId          == 5009
FileSystemRelationId         == 7076
ForeignDataWrapperRelationId == 2328
ForeignServerRelationId      == 1417
UserMappingRelationId        == 1418
ExtprotocolRelationId        == 7175
CompressionRelationId        == 3056

(* getObjectClass's switch, as a function from catalog id to class.       *)
ObjectClassOf ==
  (RelationRelationId :> "CLASS") @@ (ProcedureRelationId :> "PROC") @@
  (TypeRelationId :> "TYPE") @@ (CastRelationId :> "CAST") @@
  (ConstraintRelationId :> "CONSTRAINT") @@
  (ConversionRelationId :> "CONVERSION") @@
  (AttrDefaultRelationId :> "DEFAULT") @@ (LanguageRelationId :> "LANGUAGE") @@
  (OperatorRelationId :> "OPERATOR") @@ (OperatorClassRelationId :> "OPCLASS") @@
  (RewriteRelationId :> "REWRITE") @@ (TriggerRelationId :> "TRIGGER") @@
  (NamespaceRelationId :> "SCHEMA") @@ (AuthIdRelationId :> "ROLE") @@
  (DatabaseRelationId :> "DATABASE") @@ (TableSpaceRelationId :> "TBLSPACE") @@
  (FileSpaceRelationId :> "FILESPACE") @@ (FileSystemRelationId :> "FILESYSTEM") @@
  (ForeignDataWrapperRelationId :> "FDW") @@
  (ForeignServerRelationId :> "FOREIGN_SERVER") @@
  (UserMappingRelationId :> "USER_MAPPING") @@
  (ExtprotocolRelationId :> "EXTPROTOCOL") @@
  (CompressionRelationId :> "COMPRESSION")

(* getObjectClass: a catalog id outside the switch is the elog(ERROR,     *)
(* "unrecognized object class").                                           *)
GetObjectClass(classId) ==
  IF classId \in DOMAIN ObjectClassOf THEN ObjectClassOf[classId] ELSE "unrecognized"

(* The classes doDeletion has a destructor for (for OCLASS_CLASS:         *)
(* index_drop, RemoveAttributeById or heap_drop_with_catalog).            *)
Destructible ==
  {"CLASS", "PROC", "TYPE", "CAST", "CONSTRAINT", "CONVERSION", "DEFAULT",
   "LANGUAGE", "OPERATOR", "OPCLASS", "REWRITE", "TRIGGER", "SCHEMA",
   "FILESPACE", "FILESYSTEM", "FDW", "FOREIGN_SERVER", "USER_MAPPING",
   "EXTPROTOCOL"}

(* doDeletion's switch: "destroy" runs a destructor; OCLASS_COMPRESSION   *)
(* only logs the NOTICE "not yet implemented" and returns; OCLASS_ROLE,   *)
(* OCLASS_DATABASE and OCLASS_TBLSPACE ("intentionally not handled")     *)
(* reach the default, elog(ERROR, "unrecognized object class").           *)
DoDeletion(cls) ==
  CASE cls \in Destructible -> "destroy"
    [] cls = "COMPRESSION"  -> "notice"
    [] OTHER                -> "error"

=============================================================================
