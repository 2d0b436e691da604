------------------------------ MODULE MCRelay ------------------------------
(***************************************************************************)
(* Instances of the relay for TLC: two owners, a regular event of each, a  *)
(* deletion that names both, and competing replaceable and addressable     *)
(* events, two of them of the same second.                                 *)
(***************************************************************************)
EXTENDS RelayManagement, TLC

CONSTANTS k1, k2

MCEvent(i, k, c, kd, t, dd, ts) ==
  [id |-> i, pubkey |-> k, class |-> c, kind |-> kd, created |-> t, d |-> dd,
   targets |-> ts]

MCEvents ==
  {MCEvent(1, k1, "regular", 1, 1, 0, {}),
   MCEvent(2, k2, "regular", 1, 1, 0, {}),
   MCEvent(3, k1, "deletion", 5, 2, 0, {1, 2, 6}),
   MCEvent(4, k1, "addressable", 30000, 1, 1, {}),
   MCEvent(5, k1, "addressable", 30000, 1, 1, {}),
   MCEvent(6, k1, "addressable", 30000, 2, 2, {})}

MCAuth(i, m, k, c) == [id |-> i, method |-> m, pubkey |-> k, created |-> c]
MCAuths ==
  {MCAuth(1, "allowpubkey", k1, 1), MCAuth(2, "allowpubkey", k2, 2),
   MCAuth(3, "unallowpubkey", k1, 3)}

WorkerSymmetry == Permutations(Worker)
=============================================================================
