--------------------------- MODULE MCKeyringCache ---------------------------
(* Instance of KeyringCache for TLC. *)
EXTENDS KeyringCache

(* The attributes of created items; the stored item has them or others. *)
MCAttributeSets == {{"service"}}
MCInitialAttributes == {{"service"}, {"url"}}
=============================================================================
