----------------------------- MODULE DropEngine -----------------------------
(***************************************************************************)
(* The cascading-deletion engine of src/backend/catalog/dependency.c:     *)
(* the entry points performDeletion, performMultipleDeletions and         *)
(* deleteWhatDependsOn, the pre-scan findAutoDeletableObjects, and the     *)
(* mutually recursive recursiveDeletion / deleteDependentObjects that walk *)
(* pg_depend and call the per-class destructor (doDeletion).              *)
(*                                                                         *)
(* The C recursion is an explicit call stack of frames.  A pg_depend scan *)
(* returns the matching rows in whatever order the heap holds them, so    *)
(* each scan step returns any matching row the scan has not returned yet. *)
(* Rows deleted by the running command stay visible to SnapshotNow until  *)
(* the next CommandCounterIncrement: they sit in dead until then.          *)
(***************************************************************************)
EXTENDS Depend, ClassRegistry, Naturals, Sequences, FiniteSets, FiniteSetsExt, SequencesExt

CONSTANTS
  NoAddr,    \* callingObject = NULL, and "no owning object found"
  Graphs,    \* the pg_depend contents a command may start from
  Requests,  \* the DROP commands: [entry, targets, behavior]
  MaxDepth,  \* bound on the call stack (the C stack of the recursion)
  ClassIdOf(_) \* the classId of an object (the obj of an address)

ASSUME MaxDepth \in Nat \ {0}

Entries == {"performDeletion", "performMultipleDeletions", "deleteWhatDependsOn"}
Errors == {"DependentObjectsStillExist", "MultipleInternal",
           "IncorrectPinUse", "CacheLookupFailed", "UnrecognizedObjectClass"}

VARIABLES
  edges,    \* the live rows of pg_depend
  dead,     \* rows deleted by the current command, still seen by scans
  live,     \* the catalog objects (and columns) that exist
  stack,    \* the recursion: frames of recursiveDeletion (RD) and
            \* deleteDependentObjects (DD) above one TOP frame
  okd,      \* oktodelete (performMultipleDeletions: implicit)
  deleted,  \* alreadyDeleted of performMultipleDeletions
  req,      \* the command being executed
  idx,      \* performMultipleDeletions: the target being processed
  pc,       \* "init", "loop", "run", "done" or "failed"
  err,      \* the error the command aborted with, or "none"
  graph0    \* pg_depend when the command started: what an abort restores

vars == <<edges, dead, live, stack, okd, deleted, req, idx, pc, err, graph0>>

-----------------------------------------------------------------------------
Visible == edges \cup dead

(* findAutoDeletableObjects: add o (if addself) and everything reachable *)
(* from it over incoming AUTO and INTERNAL rows to S; a PIN row on any     *)
(* visited object raises an error (pinned).                               *)
RECURSIVE FindAutoDeletable(_, _, _)
FindAutoDeletable(o, S, addself) ==
  IF Present(o, S) THEN [pinned |-> FALSE, set |-> S]
  ELSE
    LET start == [pinned |-> FALSE, set |-> IF addself THEN S \cup {o} ELSE S]
        incoming == {e \in Visible : InMatch(o, e)}
        Visit(e, r) == IF r.pinned THEN r
                       ELSE FindAutoDeletable(e.dep, r.set, TRUE)
    IN  IF \E e \in incoming : e.kind = "PIN"
        THEN [start EXCEPT !.pinned = TRUE]
        ELSE FoldSet(Visit, start,
                     {e \in incoming : e.kind \in {"AUTO", "INTERNAL"}})

(* The ObjectClass of an address.                                         *)
ClassOf(a) == GetObjectClass(ClassIdOf(a.obj))

(* doDeletion: with a destructor the object, and with a whole object its  *)
(* columns, go; an OCLASS_COMPRESSION object stays.                       *)
DropObject(a) ==
  live \ (IF DoDeletion(ClassOf(a)) = "destroy" THEN DestroyedBy(a) ELSE {})

Behavior == IF req.entry = "deleteWhatDependsOn" THEN "CASCADE" ELSE req.behavior

-----------------------------------------------------------------------------
(* Call frames.                                                            *)
Frame(fn, o, c) == [fn |-> fn, obj |-> o, caller |-> c, pc |-> "out",
                    seen |-> {}, ok |-> TRUE, owner |-> NoAddr]
TopFrame == Frame("TOP", NoAddr, NoAddr)
RDFrame(o, c) == Frame("RD", o, c)
DDFrame(o) == [Frame("DD", o, NoAddr) EXCEPT !.pc = "in"]

Top == stack[Len(stack)]
InFrame(fn) == pc = "run" /\ Len(stack) > 1 /\ Top.fn = fn

(* Every recursiveDeletion frame got past getObjectDescription(object) at *)
(* its entry, which switches on getObjectClass.                            *)
At(fn, p) ==
  /\ InFrame(fn) /\ Top.pc = p
  /\ fn = "RD" => ClassOf(Top.obj) # "unrecognized"

(* Replace the top frame by f.                                            *)
SetTop(f) == stack' = [stack EXCEPT ![Len(stack)] = f]

(* Update the top frame to f and call g on top of it.                     *)
Call(f, g) ==
  /\ Len(stack) < MaxDepth
  /\ stack' = Append([stack EXCEPT ![Len(stack)] = f], g)

(* Pop the top frame, ANDing its result into the caller's ok.             *)
Return(ok) ==
  LET rest == SubSeq(stack, 1, Len(stack) - 1)
  IN  stack' = [rest EXCEPT ![Len(rest)].ok = @ /\ ok]

(* ereport(ERROR): the command aborts; the transaction is rolled back.   *)
Fail(kind) ==
  /\ pc' = "failed"
  /\ err' = kind
  /\ stack' = <<>>
  /\ UNCHANGED <<edges, dead, live, okd, deleted, req, idx, graph0>>

(* The rows a scan of the top frame has not returned yet.                 *)
UnseenOut == {e \in Visible \ Top.seen : OutMatch(Top.obj, e)}
UnseenIn == {e \in Visible \ Top.seen : InMatch(Top.obj, e)}

-----------------------------------------------------------------------------
(* Mutations of the actions below, each a plausible slip in the C code:  *)
(* the scan forgets caql_delete_current; the CommandCounterIncrement      *)
(* after step 1 is left out; the switch of deleteDependentObjects lets    *)
(* PIN fall through into the AUTO case; a NORMAL dependent is judged      *)
(* without consulting oktodelete; step 3 runs before step 2.             *)
RDSeverOutgoingKeepsRow ==
  /\ At("RD", "out")
  /\ \E e \in UnseenOut :
       /\ \/ e.kind \in {"NORMAL", "AUTO"}
          \/ e.kind = "INTERNAL" /\ Top.caller # NoAddr /\ CallerMatches(Top.caller, e.ref)
       /\ SetTop([Top EXCEPT !.seen = @ \cup {e}])
  /\ UNCHANGED <<edges, dead, live, okd, deleted, req, idx, pc, err, graph0>>

RDDeleteDependentsDropFirst ==
  /\ At("RD", "out")
  /\ UnseenOut = {}
  /\ Top.owner = NoAddr
  /\ live' = DropObject(Top.obj)
  /\ dead' = {}
  /\ Call([Top EXCEPT !.pc = "owner"], DDFrame(Top.obj))
  /\ UNCHANGED <<edges, okd, deleted, req, idx, pc, err, graph0>>

RDDeleteDependentsNoCCI ==
  /\ At("RD", "out")
  /\ UnseenOut = {}
  /\ Top.owner = NoAddr
  /\ Call([Top EXCEPT !.pc = "drop"], DDFrame(Top.obj))
  /\ UNCHANGED <<edges, dead, live, okd, deleted, req, idx, pc, err, graph0>>

DDCascadeAutoTakesPin ==
  /\ At("DD", "in")
  /\ \E e \in UnseenIn :
       /\ e.kind \in {"AUTO", "INTERNAL", "PIN"}
       /\ Call([Top EXCEPT !.seen = @ \cup {e}], RDFrame(e.dep, Top.obj))
  /\ UNCHANGED <<edges, dead, live, okd, deleted, req, idx, pc, err, graph0>>

DDCascadeNormalIgnoresOkd ==
  /\ At("DD", "in")
  /\ \E e \in UnseenIn :
       /\ e.kind = "NORMAL"
       /\ Call([Top EXCEPT !.seen = @ \cup {e}, !.ok = @ /\ Behavior = "CASCADE"],
               RDFrame(e.dep, Top.obj))
  /\ UNCHANGED <<edges, dead, live, okd, deleted, req, idx, pc, err, graph0>>

-----------------------------------------------------------------------------
(* recursiveDeletion, step 1: the scan over the object's own rows.        *)

(* A NORMAL or AUTO row, or the INTERNAL row back to the calling object:  *)
(* delete it.                                                              *)
RDSeverOutgoing ==
  /\ At("RD", "out")
  /\ \E e \in UnseenOut :
       /\ \/ e.kind \in {"NORMAL", "AUTO"}
          \/ /\ e.kind = "INTERNAL"
             /\ Top.caller # NoAddr
             /\ CallerMatches(Top.caller, e.ref)
       /\ edges' = edges \ {e}
       /\ dead' = dead \cup {e}
       /\ SetTop([Top EXCEPT !.seen = @ \cup {e}])
  /\ UNCHANGED <<live, okd, deleted, req, idx, pc, err, graph0>>

(* An INTERNAL row at the outermost level: the user tried to drop part   *)
(* of another object.                                                      *)
RDInternalAtTop ==
  /\ At("RD", "out")
  /\ Top.caller = NoAddr
  /\ \E e \in UnseenOut : e.kind = "INTERNAL"
  /\ Fail("DependentObjectsStillExist")

(* An INTERNAL row to another object: remember the owner, keep the row.  *)
RDBecomeOwned ==
  /\ At("RD", "out")
  /\ Top.caller # NoAddr
  /\ Top.owner = NoAddr
  /\ \E e \in UnseenOut :
       /\ e.kind = "INTERNAL"
       /\ ~CallerMatches(Top.caller, e.ref)
       /\ SetTop([Top EXCEPT !.seen = @ \cup {e}, !.owner = e.ref])
  /\ UNCHANGED <<edges, dead, live, okd, deleted, req, idx, pc, err, graph0>>

(* A second owner: "multiple INTERNAL dependencies".                      *)
RDMultipleInternal ==
  /\ At("RD", "out")
  /\ Top.caller # NoAddr
  /\ Top.owner # NoAddr
  /\ \E e \in UnseenOut :
       e.kind = "INTERNAL" /\ ~CallerMatches(Top.caller, e.ref)
  /\ Fail("MultipleInternal")

(* A PIN row with a non-zero depender.                                    *)
RDPinOutgoing ==
  /\ At("RD", "out")
  /\ \E e \in UnseenOut : e.kind = "PIN"
  /\ Fail("IncorrectPinUse")

(* End of the scan when owned: CommandCounterIncrement, complain under    *)
(* RESTRICT unless the owner is in oktodelete, and drop the owner instead *)
(* (steps 2 and 3 are skipped; the owner's drop comes back here).         *)
RDRedirectToOwner ==
  /\ At("RD", "out")
  /\ UnseenOut = {}
  /\ Top.owner # NoAddr
  /\ dead' = {}
  /\ Call([Top EXCEPT !.pc = "owner",
                      !.ok = @ /\ (Present(Top.owner, okd) \/ Behavior = "CASCADE")],
          RDFrame(Top.owner, Top.obj))
  /\ UNCHANGED <<edges, live, okd, deleted, req, idx, pc, err, graph0>>

(* End of the scan when not owned: CommandCounterIncrement, then step 2.  *)
RDDeleteDependents ==
  /\ At("RD", "out")
  /\ UnseenOut = {}
  /\ Top.owner = NoAddr
  /\ dead' = {}
  /\ Call([Top EXCEPT !.pc = "drop"], DDFrame(Top.obj))
  /\ UNCHANGED <<edges, live, okd, deleted, req, idx, pc, err, graph0>>

(* The owner's recursiveDeletion returned: return its result.            *)
RDOwnerReturned ==
  /\ At("RD", "owner")
  /\ Return(Top.ok)
  /\ UNCHANGED <<edges, dead, live, okd, deleted, req, idx, pc, err, graph0>>

(* Step 3: doDeletion, remember the object in alreadyDeleted, delete its *)
(* comments and shared dependencies, CommandCounterIncrement, return.    *)
RDDropObject ==
  /\ At("RD", "drop")
  /\ Top.obj \in live
  /\ DoDeletion(ClassOf(Top.obj)) # "error"
  /\ live' = DropObject(Top.obj)
  /\ deleted' = IF req.entry = "performMultipleDeletions" /\ ~Present(Top.obj, deleted)
                THEN deleted \cup {Top.obj} ELSE deleted
  /\ dead' = {}
  /\ Return(Top.ok)
  /\ UNCHANGED <<edges, okd, req, idx, pc, err, graph0>>

(* doDeletion of an object that no longer exists: the destructor's       *)
(* catalog lookup fails.                                                   *)
RDDropMissing ==
  /\ At("RD", "drop")
  /\ Top.obj \notin live
  /\ DoDeletion(ClassOf(Top.obj)) = "destroy"
  /\ Fail("CacheLookupFailed")

(* doDeletion of a role, database or tablespace: the default of the       *)
(* switch.                                                                 *)
RDDropUnhandledClass ==
  /\ At("RD", "drop")
  /\ DoDeletion(ClassOf(Top.obj)) = "error"
  /\ Fail("UnrecognizedObjectClass")

(* recursiveDeletion's entry: getObjectDescription(object) (line 569)     *)
(* raises "unrecognized object class" for a class id getObjectClass does   *)
(* not know, before any row is touched.                                    *)
RDUnrecognizedClass ==
  /\ InFrame("RD") /\ Top.pc = "out"
  /\ ClassOf(Top.obj) = "unrecognized"
  /\ Fail("UnrecognizedObjectClass")

-----------------------------------------------------------------------------
(* deleteDependentObjects: the scan over the rows that reference obj.     *)

(* A NORMAL dependent: silent if in oktodelete, a violation under         *)
(* RESTRICT (still recursed into, to report everything), else a cascade.  *)
DDCascadeNormal ==
  /\ At("DD", "in")
  /\ \E e \in UnseenIn :
       /\ e.kind = "NORMAL"
       /\ Call([Top EXCEPT !.seen = @ \cup {e},
                           !.ok = @ /\ (Present(e.dep, okd) \/ Behavior = "CASCADE")],
               RDFrame(e.dep, Top.obj))
  /\ UNCHANGED <<edges, dead, live, okd, deleted, req, idx, pc, err, graph0>>

(* An AUTO or INTERNAL dependent: always dropped, even under RESTRICT.   *)
DDCascadeAuto ==
  /\ At("DD", "in")
  /\ \E e \in UnseenIn :
       /\ e.kind \in {"AUTO", "INTERNAL"}
       /\ Call([Top EXCEPT !.seen = @ \cup {e}], RDFrame(e.dep, Top.obj))
  /\ UNCHANGED <<edges, dead, live, okd, deleted, req, idx, pc, err, graph0>>

(* A PIN row: the object is required by the database system.              *)
DDPinned ==
  /\ At("DD", "in")
  /\ \E e \in UnseenIn : e.kind = "PIN"
  /\ Fail("DependentObjectsStillExist")

DDDone ==
  /\ At("DD", "in")
  /\ UnseenIn = {}
  /\ Return(Top.ok)
  /\ UNCHANGED <<edges, dead, live, okd, deleted, req, idx, pc, err, graph0>>

-----------------------------------------------------------------------------
(* The entry points.                                                      *)

(* performDeletion and deleteWhatDependsOn: oktodelete is the pre-scan of *)
(* the target with addself; then recursiveDeletion (performDeletion) or   *)
(* only its step 2 (deleteWhatDependsOn).                                 *)
StartSingle ==
  /\ pc = "init"
  /\ req.entry \in {"performDeletion", "deleteWhatDependsOn"}
  /\ LET t == req.targets[1]
         r == FindAutoDeletable(t, {}, TRUE)
     IN  \/ /\ r.pinned
            /\ Fail("DependentObjectsStillExist")
         \/ /\ ~r.pinned
            /\ okd' = r.set
            /\ stack' = <<TopFrame, IF req.entry = "performDeletion"
                                    THEN RDFrame(t, NoAddr) ELSE DDFrame(t)>>
            /\ pc' = "run"
            /\ UNCHANGED <<edges, dead, live, deleted, req, idx, err, graph0>>

(* performMultipleDeletions, first loop: the implicit list is the union  *)
(* of the pre-scans (without addself) of the targets not already in it.  *)
StartMultiple ==
  /\ pc = "init"
  /\ req.entry = "performMultipleDeletions"
  /\ LET Scan(r, t) == IF r.pinned \/ Present(t, r.set) THEN r
                       ELSE FindAutoDeletable(t, r.set, FALSE)
         r == FoldLeft(Scan, [pinned |-> FALSE, set |-> {}], req.targets)
     IN  \/ /\ r.pinned
            /\ Fail("DependentObjectsStillExist")
         \/ /\ ~r.pinned
            /\ okd' = r.set
            /\ pc' = "loop"
            /\ idx' = 1
            /\ UNCHANGED <<edges, dead, live, stack, deleted, req, err, graph0>>

(* Second loop: skip a target already deleted or in the implicit list.    *)
MultiSkip ==
  /\ pc = "loop"
  /\ idx <= Len(req.targets)
  /\ Present(req.targets[idx], deleted) \/ Present(req.targets[idx], okd)
  /\ idx' = idx + 1
  /\ UNCHANGED <<edges, dead, live, stack, okd, deleted, req, pc, err, graph0>>

(* performDeletionWithList: pre-scan with addself into the shared list,   *)
(* then recursiveDeletion of the target.                                  *)
MultiDelete ==
  /\ pc = "loop"
  /\ idx <= Len(req.targets)
  /\ ~Present(req.targets[idx], deleted)
  /\ ~Present(req.targets[idx], okd)
  /\ LET t == req.targets[idx]
         r == FindAutoDeletable(t, okd, TRUE)
     IN  \/ /\ r.pinned
            /\ Fail("DependentObjectsStillExist")
         \/ /\ ~r.pinned
            /\ okd' = r.set
            /\ stack' = <<TopFrame, RDFrame(t, NoAddr)>>
            /\ pc' = "run"
            /\ UNCHANGED <<edges, dead, live, deleted, req, idx, err, graph0>>

MultiDone ==
  /\ pc = "loop"
  /\ idx > Len(req.targets)
  /\ pc' = "done"
  /\ UNCHANGED <<edges, dead, live, stack, okd, deleted, req, idx, err, graph0>>

(* The outermost call returned true: the target is done.                  *)
FinishTarget ==
  /\ pc = "run"
  /\ Len(stack) = 1
  /\ stack[1].ok
  /\ stack' = <<>>
  /\ IF req.entry = "performMultipleDeletions"
     THEN pc' = "loop" /\ idx' = idx + 1
     ELSE pc' = "done" /\ idx' = idx
  /\ UNCHANGED <<edges, dead, live, okd, deleted, req, err, graph0>>

(* It returned false: "cannot drop ... because other objects depend on   *)
(* it" (deleteWhatDependsOn: "failed to drop all objects depending on").  *)
FinishRestrictViolation ==
  /\ pc = "run"
  /\ Len(stack) = 1
  /\ ~stack[1].ok
  /\ Fail("DependentObjectsStillExist")

-----------------------------------------------------------------------------
Init ==
  /\ edges \in Graphs
  /\ graph0 = edges
  /\ dead = {}
  /\ live = Addrs
  /\ stack = <<>>
  /\ okd = {}
  /\ deleted = {}
  /\ req \in Requests
  /\ idx = 1
  /\ pc = "init"
  /\ err = "none"

Next ==
  \/ RDSeverOutgoing \/ RDInternalAtTop \/ RDBecomeOwned
  \/ RDMultipleInternal \/ RDPinOutgoing
  \/ RDRedirectToOwner \/ RDDeleteDependents \/ RDOwnerReturned
  \/ RDDropObject \/ RDDropMissing \/ RDDropUnhandledClass \/ RDUnrecognizedClass
  \/ DDCascadeNormal \/ DDCascadeAuto \/ DDPinned \/ DDDone
  \/ StartSingle \/ StartMultiple \/ MultiSkip \/ MultiDelete \/ MultiDone
  \/ FinishTarget \/ FinishRestrictViolation

(* The engine is one sequential backend process that never waits: while  *)
(* the command has not ended, its next step is taken.                     *)
Spec == Init /\ [][Next]_vars /\ WF_vars(Next)

Terminated == pc \in {"done", "failed"}

-----------------------------------------------------------------------------
(* Properties.                                                            *)

TypeOK ==
  /\ edges \subseteq Edges
  /\ dead \subseteq Edges
  /\ live \subseteq Addrs
  /\ okd \subseteq Addrs
  /\ deleted \subseteq Addrs
  /\ req \in Requests
  /\ idx \in 1..(Len(req.targets) + 1)
  /\ pc \in {"init", "loop", "run", "done", "failed"}
  /\ err \in Errors \cup {"none"}
  /\ \A i \in 1..Len(stack) :
       /\ stack[i].fn \in {"TOP", "RD", "DD"}
       /\ stack[i].obj \in Addrs \cup {NoAddr}
       /\ stack[i].caller \in Addrs \cup {NoAddr}
       /\ stack[i].owner \in Addrs \cup {NoAddr}
       /\ stack[i].seen \subseteq Edges
       /\ stack[i].ok \in BOOLEAN

(* No destructor is ever called on an object (or a column of a table)    *)
(* that an earlier step of the same command already dropped: doDeletion   *)
(* never fails its catalog lookup.                                        *)
DropsOnlyLiveObjects == err # "CacheLookupFailed"

(* pg_depend never holds a row whose referenced or depending object has  *)
(* been dropped: every object is destroyed only after all rows naming it  *)
(* were deleted, so destructors never see dangling references.            *)
NoDanglingReferences ==
  \A e \in edges : e.ref \in live /\ (e.dep = PinDep \/ e.dep \in live)

DropsAllTargets ==
  (pc = "done" /\ req.entry = "performMultipleDeletions")
    => \A i \in 1..Len(req.targets) : req.targets[i] \notin live

(* recursiveDeletion reads the object's description (getObjectDescription *)
(* at its entry, line 569) before anything else, and that lookup fails on *)
(* an object already dropped: every call of recursiveDeletion, from the   *)
(* entry points, from a dependent's scan or from an owner redirection, is *)
(* on an object that still exists at the time of the call.                *)
RecursesIntoLiveObjects ==
  [][Len(stack') > Len(stack) /\ stack'[Len(stack')].fn = "RD"
       => stack'[Len(stack')].obj \in live]_vars

(* An object still being deleted: one whose recursiveDeletion (or, for   *)
(* deleteWhatDependsOn, deleteDependentObjects) is on the stack.           *)
InProgress(x) ==
  \E i \in 1..Len(stack) : stack[i].obj # NoAddr /\ Present(x, {stack[i].obj})

(* "We must delete B before deleting C; the drop routine for B may try to *)
(* access C" (comment of recursiveDeletion): whenever a destructor runs,  *)
(* every object that had a pg_depend row on what it destroys is gone      *)
(* already, unless that object is itself still being deleted further down *)
(* the recursion (a cycle, entered from that object).                     *)
DependentsDroppedFirst ==
  [][\A a \in live \ live' :
       \A e \in graph0 :
         e.dep # PinDep /\ InMatch(a, e) /\ e.dep \in live' => InProgress(e.dep)]_vars

(* The recursion of recursiveDeletion and deleteDependentObjects, which  *)
(* has no stack-depth check, nests at most one recursiveDeletion /        *)
(* deleteDependentObjects pair per pg_depend row the command started     *)
(* with: each nested call is reached over a row that the callee's step 1  *)
(* deletes and CommandCounterIncrement hides, so even a cyclic pg_depend *)
(* cannot drive the C stack deeper than the catalog is large.             *)
RecursionBoundedByRows == Len(stack) <= 3 * Cardinality(graph0) + 3

(* Every DROP command ends, even on a cyclic pg_depend: the row deletions *)
(* of step 1, made visible by CommandCounterIncrement, cut every cycle.   *)
Termination == <>Terminated

=============================================================================
