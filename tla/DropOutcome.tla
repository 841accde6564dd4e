----------------------------- MODULE DropOutcome -----------------------------
(***************************************************************************)
(* What performDeletion promises, as one atomic step: given pg_depend at  *)
(* the start of the command, the objects a                                 *)
(* committed DROP destroys, and whether it must abort, are determined by   *)
(* the graph alone, whatever order the scans return the rows in.           *)
(*                                                                         *)
(* The set Doomed is the closure of the target over                        *)
(*   - dependents: the depender of a NORMAL, AUTO or INTERNAL row that     *)
(*     references a doomed object (deleteDependentObjects), and            *)
(*   - owners: the referenced object of an INTERNAL row of a doomed object *)
(*     other than the target (recursiveDeletion's redirection).            *)
(* Besides aborting for a reason below, a command may also fail with an   *)
(* internal error (Break): an abort changes nothing, so this is safe, and *)
(* DropEngine's DropsOnlyLiveObjects says when it happens.                *)
(***************************************************************************)
EXTENDS Depend

CONSTANTS
  Graphs,    \* the pg_depend contents a command may start from
  Requests   \* the DROP commands: [entry, targets, behavior]

ASSUME \A r \in Requests : r.entry = "performDeletion"

VARIABLES
  graph,     \* pg_depend at the start of the command
  cmd,       \* the command
  objects,   \* the committed catalog objects
  status     \* "running", "done", "failed" (expected abort), "broken"

vars == <<graph, cmd, objects, status>>

Target == cmd.targets[1]

(* recursiveDeletion is first called on the target with caller NULL.    *)
TopLevel == Target

Dependents(g, S) ==
  {e.dep : e \in {e \in g : e.kind # "PIN" /\ \E x \in S : InMatch(x, e)}}
Owners(g, S) ==
  {e.ref : e \in {e \in g : e.kind = "INTERNAL"
                              /\ \E x \in S \ {TopLevel} : OutMatch(x, e)}}

(* Least fixed point of S |-> S \cup Step(S), starting from S.             *)
RECURSIVE Closure(_, _, _)
Closure(g, S, auto) ==
  LET next == S \cup Dependents({e \in g : auto => e.kind # "NORMAL"}, S)
                \cup (IF auto THEN {} ELSE Owners(g, S))
  IN  IF next = S THEN S ELSE Closure(g, next, auto)

(* The objects dropped: the target and its closure.                      *)
Doomed == Closure(graph, {Target}, FALSE)

(* oktodelete: the target and what AUTO/INTERNAL rows make it take along. *)
AutoDeletable == Closure(graph, {Target}, TRUE)

(* The reasons the command must abort.                                    *)
InternalPart ==
  \E e \in graph : e.kind = "INTERNAL" /\ OutMatch(TopLevel, e)
Pinned ==
  \E e \in graph : e.kind = "PIN" /\ \E x \in Doomed : InMatch(x, e)
RestrictViolated ==
  /\ cmd.behavior = "RESTRICT"
  /\ \E x \in Doomed : ~Present(x, AutoDeletable)

MustAbort == InternalPart \/ Pinned \/ RestrictViolated

Init ==
  /\ graph \in Graphs
  /\ cmd \in Requests
  /\ objects = Addrs
  /\ status = "running"

Commit ==
  /\ status = "running"
  /\ ~MustAbort
  /\ objects' = Addrs \ UNION {DestroyedBy(x) : x \in Doomed}
  /\ status' = "done"
  /\ UNCHANGED <<graph, cmd>>

Abort ==
  /\ status = "running"
  /\ MustAbort
  /\ status' = "failed"
  /\ UNCHANGED <<graph, cmd, objects>>

Break ==
  /\ status = "running"
  /\ status' = "broken"
  /\ UNCHANGED <<graph, cmd, objects>>

Next == Commit \/ Abort \/ Break

Spec == Init /\ [][Next]_vars

=============================================================================
