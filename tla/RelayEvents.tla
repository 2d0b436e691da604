---------------------------- MODULE RelayEvents ----------------------------
(***************************************************************************)
(* The transactions of nostr-relay's event store as operators: the events  *)
(* and tombstones tables after an event is saved and a deletion applied.   *)
(* E is the set of stored events, T the set of tombstones <<owner, id>>.   *)
(***************************************************************************)
EXTENDS Integers, FiniteSets

\* nostr.IsOlder: ties on the time are won by the smaller id.
IsOlder(previous, event) ==
  \/ previous.created < event.created
  \/ previous.created = event.created /\ previous.id > event.id

EventsByPubKeyAndKind(E, pubkey, kind) ==
  {e \in E : e.pubkey = pubkey /\ e.kind = kind}

\* The stored events the incoming one competes with.
Competitors(E, event) ==
  {e \in EventsByPubKeyAndKind(E, event.pubkey, event.kind) :
     event.class = "addressable" => e.d = event.d}

Replaces(event) == event.class \in {"replaceable", "addressable"}

EventTombstoned(T, event) == <<event.pubkey, event.id>> \in T

\* INSERT OR IGNORE: an id that is stored stays as it is.
InsertEvent(E, event) == E \cup {event}

\* Faulty: the last event to arrive at an address wins.
SavedLastWins(E, T, event) ==
  CASE EventTombstoned(T, event) -> E
    [] ~EventTombstoned(T, event) /\ ~Replaces(event) -> InsertEvent(E, event)
    [] OTHER -> InsertEvent(E \ Competitors(E, event), event)

\* Faulty: tombstones keep regular events out only.
SavedReplaceableAnyway(E, T, event) ==
  CASE ~Replaces(event) -> IF EventTombstoned(T, event) THEN E ELSE InsertEvent(E, event)
    [] OTHER ->
         IF \A previous \in Competitors(E, event) : IsOlder(previous, event)
         THEN InsertEvent(E \ Competitors(E, event), event)
         ELSE E

\* saveEventTx: the events table after saving an event.
Saved(E, T, event) ==
  CASE EventTombstoned(T, event) -> E
    [] ~EventTombstoned(T, event) /\ ~Replaces(event) -> InsertEvent(E, event)
    [] OTHER ->
         IF \A previous \in Competitors(E, event) : IsOlder(previous, event)
         THEN InsertEvent(E \ Competitors(E, event), event)
         ELSE E

TargetsOf(event) == IF event.class = "deletion" THEN event.targets ELSE {}

InsertDeletionTombstones(T, event) ==
  T \cup {<<event.pubkey, id>> : id \in TargetsOf(event)}

\* Faulty: a deletion removes events of other owners.
DeleteAnyEvents(E, event) == {e \in E : e.id \notin TargetsOf(event)}

DeleteOwnedEvents(E, event) ==
  {e \in E : ~(e.id \in TargetsOf(event) /\ e.pubkey = event.pubkey)}
=============================================================================
