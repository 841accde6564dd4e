---------------------------- MODULE MCAddressSet ----------------------------
(***************************************************************************)
(* Appends of up to MaxRefs addresses over two objects of one class: the  *)
(* whole object 1, its system column -1 (a Var with negative varattno),   *)
(* and object 2 whole, with column 1 and system column -1.                *)
(***************************************************************************)
EXTENDS AddressSet

Ad(c, o, s) == [cls |-> c, oid |-> o, sub |-> s]

MCAddrs ==
  {Ad(1, 1, 0), Ad(1, 1, -1), Ad(1, 2, 0), Ad(1, 2, 1), Ad(1, 2, -1)}

=============================================================================
