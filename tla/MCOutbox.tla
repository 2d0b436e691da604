------------------------------ MODULE MCOutbox ------------------------------
(***************************************************************************)
(* Instances of Outbox for TLC: two publishers, the first with two source  *)
(* records.                                                                *)
(***************************************************************************)
EXTENDS Outbox, TLC

CONSTANTS k1, k2, s1, s2, s3, w1, w2

MCAuthor == (s1 :> k1) @@ (s2 :> k1) @@ (s3 :> k2)
OneKeyAuthor == s1 :> k1
WorkerSymmetry == Permutations(Worker)
=============================================================================
