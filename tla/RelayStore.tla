----------------------------- MODULE RelayStore -----------------------------
(***************************************************************************)
(* The private relay of nostr-relay: admission of events, the SQLite event *)
(* store with deletions and replacements, and what a reader is served.     *)
(*                                                                         *)
(* A handler of the protocol library (khatru, external) runs OnEvent and   *)
(* then StoreEvent or ReplaceEvent; other handlers run between the two.    *)
(* The store has one connection, so a transaction is one step.  An event   *)
(* is a record with a natural number for its id, because replacement       *)
(* breaks ties by comparing ids.                                           *)
(***************************************************************************)
EXTENDS RelayEvents

CONSTANTS
  Pubkey,         \* keys that sign events
  Event,          \* the signed events clients may send
  Handler,        \* concurrent handlers of client messages
  NoEvent,
  MaxQueryLimit   \* NOSTR_RELAY_MAX_QUERY_LIMIT, 0 for none

Class == {"regular", "deletion", "replaceable", "addressable"}

EventType ==
  [id : Nat, pubkey : Pubkey, class : Class, kind : Nat, created : Nat,
   d : Nat, targets : SUBSET Nat]

\* The id of an event is a hash of the rest of it.
ASSUME EventAssumption ==
  /\ Event \subseteq EventType
  /\ \A e, f \in Event : e.id = f.id => e = f
  /\ \A e, f \in Event : e.kind = f.kind => e.class = f.class
ASSUME NoEventAssumption == NoEvent \notin Event
ASSUME LimitAssumption == MaxQueryLimit \in Nat

VARIABLES
  events,      \* table events
  tombstones,  \* table deletion_tombstones: <<owner, target id>>
  allowlist,   \* table publisher_allowlist
  inflight,    \* the event each handler has admitted and not yet stored
  handled      \* history: the events whose transaction has committed

storeVars == <<events, tombstones, inflight, handled>>

StoreInit ==
  /\ events = {} /\ tombstones = {} /\ allowlist = {}
  /\ inflight = [h \in Handler |-> NoEvent]
  /\ handled = {}

-----------------------------------------------------------------------------
(***************************************************************************)
(* Handlers.                                                               *)
(***************************************************************************)

\* OnEvent: the signature is valid (Event holds signed events only) and the
\* publisher is allowed; every other event is refused and changes nothing.
OnEvent(h, event) ==
  /\ inflight[h] = NoEvent
  /\ event.pubkey \in allowlist
  /\ inflight' = [inflight EXCEPT ![h] = event]
  /\ UNCHANGED <<events, tombstones, allowlist, handled>>

\* StoreEvent: SaveEventAndApplyDeletion, one transaction.
StoreEvent(h) ==
  LET event == inflight[h] IN
  /\ event # NoEvent /\ ~Replaces(event)
  /\ events' = DeleteOwnedEvents(Saved(events, tombstones, event), event)
  /\ tombstones' = InsertDeletionTombstones(tombstones, event)
  /\ handled' = handled \cup {event}
  /\ inflight' = [inflight EXCEPT ![h] = NoEvent]
  /\ UNCHANGED allowlist

\* ReplaceEvent: SaveEvent, one transaction.
ReplaceEvent(h) ==
  LET event == inflight[h] IN
  /\ event # NoEvent /\ Replaces(event)
  /\ events' = Saved(events, tombstones, event)
  /\ handled' = handled \cup {event}
  /\ inflight' = [inflight EXCEPT ![h] = NoEvent]
  /\ UNCHANGED <<tombstones, allowlist>>

\* The transaction fails and is rolled back, or the client goes away.
HandlerFails(h) ==
  /\ inflight[h] # NoEvent
  /\ inflight' = [inflight EXCEPT ![h] = NoEvent]
  /\ UNCHANGED <<events, tombstones, allowlist, handled>>

StoreNext ==
  \E h \in Handler :
    \/ \E event \in Event : OnEvent(h, event)
    \/ StoreEvent(h)
    \/ ReplaceEvent(h)
    \/ HandlerFails(h)

-----------------------------------------------------------------------------
(***************************************************************************)
(* Queries.  A filter is a record of the sets it accepts, each with a flag *)
(* that says whether the field is present.  Only the cut at the limit      *)
(* depends on the order of the result, so a result is a set.               *)
(***************************************************************************)

Matching(E, filter) ==
  {e \in E : /\ filter.hasAuthors => e.pubkey \in filter.authors
             /\ filter.hasKinds => e.kind \in filter.kinds
             /\ filter.hasD => e.d \in filter.d
             /\ filter.since # 0 => e.created >= filter.since}

\* ORDER BY created_at DESC, id ASC
ServedBefore(e, f) ==
  \/ e.created > f.created
  \/ e.created = f.created /\ e.id < f.id

\* The first limit events of the answer; 0 is no limit.
AllEvents(E, filter, limit) ==
  LET M == Matching(E, filter) IN
  {e \in M : limit = 0 \/ Cardinality({f \in M : ServedBefore(f, e)}) < limit}

QueryEvents(filter, limit) == AllEvents(events, filter, limit)

QueryStored(filter) ==
  QueryEvents(filter,
    IF MaxQueryLimit > 0 /\ (filter.limit = 0 \/ filter.limit > MaxQueryLimit)
    THEN MaxQueryLimit ELSE filter.limit)

-----------------------------------------------------------------------------
(***************************************************************************)
(* Properties.                                                             *)
(***************************************************************************)

StoreTypeOK ==
  /\ events \subseteq Event /\ handled \subseteq Event
  /\ tombstones \subseteq Pubkey \X Nat
  /\ allowlist \subseteq Pubkey
  /\ inflight \in [Handler -> Event \cup {NoEvent}]

DeletedBy(T, e) == <<e.pubkey, e.id>> \in T

\* In whatever order events and deletions arrive, and however often they are
\* repeated, the relay ends with the same events: those handled that no
\* handled deletion of the same owner names (SaveEventAndApplyDeletion).
Convergent ==
  {e \in events : ~Replaces(e)} =
    {e \in handled : ~Replaces(e) /\
       ~\E d \in handled : d.pubkey = e.pubkey /\ e.id \in TargetsOf(d)}

\* No stored event, replaceable ones included, is one its owner has deleted,
\* also when the deletion came first (saveEventTx, the tombstone check).
NotTombstoned == \A e \in events : ~DeletedBy(tombstones, e)

\* A reader who asks for one event at a replaceable address is served the
\* newest the relay has handled there, unless a deletion named an event of
\* that address (saveEventTx against QueryStored).
NewestServed ==
  \A e \in handled :
    LET address == Competitors(handled, e)
        filter == [hasAuthors |-> TRUE, authors |-> {e.pubkey},
                   hasKinds |-> TRUE, kinds |-> {e.kind},
                   hasD |-> e.class = "addressable", d |-> {e.d},
                   since |-> 0, limit |-> 1]
    IN (Replaces(e) /\ \A f \in address : ~DeletedBy(tombstones, f)) =>
         QueryStored(filter) =
           {f \in address : \A g \in address : g # f => IsOlder(g, f)}
=============================================================================
