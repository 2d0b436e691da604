--------------------------- MODULE MCBlueskySync ---------------------------
(***************************************************************************)
(* Instances of BlueskySync for TLC: one post of an author who stays a     *)
(* target and one of an author who comes and goes.                         *)
(***************************************************************************)
EXTENDS BlueskySync, TLC

CONSTANTS a1, a2, p1, p2

MCAuthorOf == (p1 :> a1) @@ (p2 :> a2)
OneAuthorOf == p1 :> a1
=============================================================================
