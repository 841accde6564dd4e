----------------------------- MODULE AddressSet -----------------------------
(***************************************************************************)
(* ObjectAddresses of src/backend/catalog/dependency.c: an array of       *)
(* (classId, objectId, objectSubId) triples that the engine and the        *)
(* expression scanner append to, test for presence, and that              *)
(* recordDependencyOnExpr sorts and rids of duplicates before writing      *)
(* pg_depend rows.  The array is the sequence refs; growth (maxrefs        *)
(* doubling) only moves the storage and is not modelled.                  *)
(***************************************************************************)
EXTENDS Integers, Sequences, SequencesExt

CONSTANTS
  Addrs,    \* the addresses that may be appended: [cls, oid, sub]
  MaxRefs   \* bound on the number of entries appended

ASSUME MaxRefs \in Nat

VARIABLES
  refs      \* refs[1..numrefs]

vars == <<refs>>

-----------------------------------------------------------------------------
SameObject(a, b) == a.cls = b.cls /\ a.oid = b.oid

(* object_address_present: a whole-object entry covers every sub-object. *)
Present(q, s) ==
  \E i \in DOMAIN s : SameObject(q, s[i]) /\ (q.sub = s[i].sub \/ s[i].sub = 0)

(* (unsigned int) x < (unsigned int) y for 32-bit x, y: a negative value *)
(* casts to 2^32 + x, above every non-negative one.                       *)
UIntLess(x, y) == IF (x < 0) = (y < 0) THEN x < y ELSE y < 0

(* object_address_comparator: by classId, objectId, then unsigned subId. *)
Comparator(a, b) ==
  CASE a.cls < b.cls -> -1
    [] a.cls > b.cls -> 1
    [] a.oid < b.oid -> -1
    [] a.oid > b.oid -> 1
    [] UIntLess(a.sub, b.sub) -> -1
    [] UIntLess(b.sub, a.sub) -> 1
    [] OTHER -> 0

(* A mutation of one step of the loop below: the whole-to-partial test   *)
(* escapes the same-object test (a misplaced brace).                      *)
DedupStepAnyObject(out, this) ==
  LET prior == out[Len(out)]
  IN  IF SameObject(prior, this) /\ prior.sub = this.sub THEN out
      ELSE IF prior.sub = 0 THEN [out EXCEPT ![Len(out)].sub = this.sub]
      ELSE Append(out, this)

(* A mutation of one step: a whole-object entry followed by a part of    *)
(* the same object is kept and the part dropped (the merge reversed).     *)
DedupStepKeepsWhole(out, this) ==
  LET prior == out[Len(out)]
  IN  IF SameObject(prior, this) /\ (prior.sub = this.sub \/ prior.sub = 0) THEN out
      ELSE Append(out, this)

(* One iteration of the loop of eliminate_duplicate_dependencies: out's   *)
(* last entry is priorobj, this is thisobj.                               *)
DedupStep(out, this) ==
  LET prior == out[Len(out)]
  IN  IF SameObject(prior, this) /\ prior.sub = this.sub THEN out
      ELSE IF SameObject(prior, this) /\ prior.sub = 0
           THEN [out EXCEPT ![Len(out)].sub = this.sub]
      ELSE Append(out, this)

(* eliminate_duplicate_dependencies: qsort with the comparator, then fold. *)
Dedup(s) ==
  IF Len(s) <= 1 THEN s
  ELSE LET sorted == SortSeq(s, LAMBDA a, b : Comparator(a, b) < 0)
       IN  FoldLeft(DedupStep, <<sorted[1]>>, Tail(sorted))

-----------------------------------------------------------------------------
(* new_object_addresses.                                                   *)
Init == refs = <<>>

(* add_exact_object_address (and add_object_address, which only first   *)
(* translates an ObjectClass to its catalog id).                          *)
AddExact ==
  /\ Len(refs) < MaxRefs
  /\ \E a \in Addrs : refs' = Append(refs, a)

EliminateDuplicates == refs' = Dedup(refs)

Next == AddExact \/ EliminateDuplicates

Spec == Init /\ [][Next]_vars

-----------------------------------------------------------------------------
(* Properties.                                                            *)

TypeOK == refs \in Seq(Addrs) /\ Len(refs) <= MaxRefs

(* The reference result of duplicate elimination, stated on sets: every  *)
(* entry once, a whole-object entry kept only if no entry names a part of *)
(* that object, in ascending (classId, objectId, unsigned subId) order.   *)
Kept(S) == {a \in S : a.sub # 0 \/ ~\E b \in S : SameObject(a, b) /\ b.sub # 0}
Key(a) == <<a.cls, a.oid, IF a.sub < 0 THEN 1 ELSE 0, a.sub>>
KeyLess(a, b) ==
  \E n \in 1..4 : Key(a)[n] < Key(b)[n] /\ \A m \in 1..(n - 1) : Key(a)[m] = Key(b)[m]
ReferenceDedup(s) == SetToSortSeq(Kept(Range(s)), KeyLess)

(* eliminate_duplicate_dependencies, whatever the entries and their order *)
(* of appending, leaves exactly the reference result: the in-place fold  *)
(* over the qsorted array never loses a partial reference nor keeps a    *)
(* whole one beside a part of it.                                         *)
DedupMatchesReference ==
  [][EliminateDuplicates => refs' = ReferenceDedup(refs)]_vars

(* The dedup law as the specification states it: after duplicate          *)
(* elimination no two entries share (classId, objectId) unless both have *)
(* subId > 0.                                                             *)
DedupLaw ==
  [][EliminateDuplicates =>
       \A i, j \in DOMAIN refs' :
         i # j /\ SameObject(refs'[i], refs'[j]) => refs'[i].sub > 0 /\ refs'[j].sub > 0]_vars

=============================================================================
