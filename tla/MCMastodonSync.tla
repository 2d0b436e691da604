-------------------------- MODULE MCMastodonSync ---------------------------
(***************************************************************************)
(* Instance of MastodonSync for TLC: home and one list.                    *)
(***************************************************************************)
EXTENDS MastodonSync

MCFeed == {"home", "list"}
MCKind == {[feeds |-> {"home"}, target |-> TRUE, public |-> TRUE],
           [feeds |-> {"home", "list"}, target |-> TRUE, public |-> TRUE],
           [feeds |-> {"list"}, target |-> TRUE, public |-> FALSE]}
MCFeeds == <<"home", "list">>
=============================================================================
