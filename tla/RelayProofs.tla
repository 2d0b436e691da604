---------------------------- MODULE RelayProofs ----------------------------
(***************************************************************************)
(* The relay's properties for every set of events, handlers and requests.  *)
(*                                                                         *)
(* StoreInv says of the tables what the history says: a tombstone is there *)
(* exactly for a handled deletion, a regular event is stored exactly when  *)
(* it has no tombstone, and an address none of whose events was deleted    *)
(* holds the newest event handled there.  ReplayInv says of a consumed     *)
(* authorization that its row is still there, or that no request can carry *)
(* it any more.                                                            *)
(***************************************************************************)
EXTENDS RelayManagement, FiniteSetTheorems, TLAPS

-----------------------------------------------------------------------------
(* Events and addresses.                                                   *)

\* The fields of an event have their types (nostr.Event).
LEMMA EventFields ==
  ASSUME NEW e \in Event
  PROVE  /\ e.id \in Nat /\ e.created \in Nat /\ e.pubkey \in Pubkey
         /\ TargetsOf(e) \subseteq Nat
BY EventAssumption, Zenon DEF EventType, TargetsOf

\* IsOlder orders the events strictly and totally, because ids differ.
LEMMA OlderIsTotal ==
  ASSUME NEW e \in Event, NEW f \in Event
  PROVE  /\ ~(IsOlder(e, f) /\ IsOlder(f, e))
         /\ e # f => IsOlder(e, f) \/ IsOlder(f, e)
<1>1. /\ e.id \in Nat /\ e.created \in Nat /\ f.id \in Nat /\ f.created \in Nat
  BY EventFields, Zenon
<1>2. e.id = f.id => e = f
  BY EventAssumption, Zenon
<1> QED BY <1>1, <1>2 DEF IsOlder

LEMMA OlderIsTransitive ==
  ASSUME NEW e \in Event, NEW f \in Event, NEW g \in Event,
         IsOlder(e, f), IsOlder(f, g)
  PROVE  IsOlder(e, g)
<1>1. /\ e.id \in Nat /\ e.created \in Nat /\ f.id \in Nat /\ f.created \in Nat
      /\ g.id \in Nat /\ g.created \in Nat
  BY EventFields, Zenon
<1> QED BY <1>1 DEF IsOlder

\* Two events share an address.
Same(e, f) ==
  /\ f.pubkey = e.pubkey /\ f.kind = e.kind
  /\ e.class = "addressable" => f.d = e.d

LEMMA CompetitorsAt ==
  ASSUME NEW E, NEW e, NEW f
  PROVE  f \in Competitors(E, e) <=> f \in E /\ Same(e, f)
BY Zenon DEF Competitors, EventsByPubKeyAndKind, Same

\* To share an address is an equivalence, and it respects the class.
LEMMA AddressesPartition ==
  ASSUME NEW e \in Event, NEW f \in Event, NEW g \in Event, Same(e, f)
  PROVE  /\ Same(e, e) /\ Same(f, e)
         /\ Same(f, g) <=> Same(e, g)
         /\ Replaces(e) <=> Replaces(f)
<1>1. e.class = f.class
  BY EventAssumption, Zenon DEF Same
<1> QED BY <1>1, Zenon DEF Same, Replaces

-----------------------------------------------------------------------------
(* The invariant of the store.                                             *)

\* The tombstones are those of the handled deletions.
Recorded ==
  \A e \in Event :
    DeletedBy(tombstones, e) <=>
      \E d \in handled : d.pubkey = e.pubkey /\ e.id \in TargetsOf(d)

\* A handled regular event is stored unless it is deleted.
Stored ==
  \A e \in handled : ~Replaces(e) => (e \in events <=> ~DeletedBy(tombstones, e))

Undeleted(H, T, e) == \A f \in Event : f \in H /\ Same(e, f) => ~DeletedBy(T, f)

\* m is the newest event of H at the address of e, and the one E holds there.
Holds(E, H, e, m) ==
  /\ m \in E /\ m \in H /\ Same(e, m)
  /\ \A f \in Event : f \in E /\ Same(e, f) => f = m
  /\ \A f \in Event : f \in H /\ Same(e, f) /\ f # m => IsOlder(f, m)

Newest ==
  \A e \in handled :
    Replaces(e) /\ Undeleted(handled, tombstones, e) =>
      \E m \in Event : Holds(events, handled, e, m)

StoreInv ==
  /\ StoreTypeOK /\ events \subseteq handled
  /\ Recorded /\ Stored /\ NotTombstoned /\ Newest

\* saveEventTx for an event that replaces nothing.
LEMMA SavedRegular ==
  ASSUME NEW E, NEW T, NEW x, ~Replaces(x)
  PROVE  Saved(E, T, x) = IF DeletedBy(T, x) THEN E ELSE E \cup {x}
BY Zenon DEF Saved, EventTombstoned, DeletedBy, InsertEvent

\* saveEventTx for an event that competes at its address.
LEMMA SavedReplaceable ==
  ASSUME NEW E, NEW T, NEW x, Replaces(x)
  PROVE  Saved(E, T, x) =
           IF DeletedBy(T, x) \/ ~\A p \in Competitors(E, x) : IsOlder(p, x)
           THEN E ELSE (E \ Competitors(E, x)) \cup {x}
BY Zenon DEF Saved, EventTombstoned, DeletedBy, InsertEvent

\* The transaction of StoreEvent: the event is stored, then what it deletes
\* goes and its tombstones stay.
LEMMA StoreEventKeeps ==
  ASSUME StoreInv, NEW h \in Handler, StoreEvent(h)
  PROVE  StoreInv'
<1> DEFINE x == inflight[h]
<1>0. /\ x \in Event /\ ~Replaces(x)
      /\ events' = DeleteOwnedEvents(Saved(events, tombstones, x), x)
      /\ tombstones' = InsertDeletionTombstones(tombstones, x)
      /\ handled' = handled \cup {x}
      /\ inflight' = [inflight EXCEPT ![h] = NoEvent]
      /\ allowlist' = allowlist
  BY Zenon DEF StoreInv, StoreTypeOK, StoreEvent
<1> HIDE DEF x
<1>1. /\ events \subseteq handled /\ handled \subseteq Event
      /\ events \subseteq Event /\ tombstones \subseteq Pubkey \X Nat
  BY Zenon DEF StoreInv, StoreTypeOK
<1>2. \A e \in Event :
        DeletedBy(tombstones', e) <=>
          DeletedBy(tombstones, e) \/ (x.pubkey = e.pubkey /\ e.id \in TargetsOf(x))
  BY <1>0, Zenon DEF InsertDeletionTombstones, DeletedBy
<1>3. \A e \in Event :
        e \in events' <=>
          /\ e \in events \/ (e = x /\ ~DeletedBy(tombstones, x))
          /\ ~(e.id \in TargetsOf(x) /\ e.pubkey = x.pubkey)
  BY <1>0, SavedRegular DEF DeleteOwnedEvents
<1>4. events' \subseteq handled' /\ handled' \subseteq Event
  BY <1>0, <1>1, SavedRegular DEF DeleteOwnedEvents
<1>5. StoreTypeOK'
  <2>1. tombstones' \subseteq Pubkey \X Nat
    BY <1>0, <1>1, EventFields DEF InsertDeletionTombstones
  <2> QED BY <1>0, <1>4, <2>1, Zenon DEF StoreTypeOK, StoreInv
<1>6. Recorded'
  BY <1>0, <1>2, Zenon DEF Recorded, StoreInv
<1>7. Stored'
  <2> SUFFICES ASSUME NEW e \in handled', ~Replaces(e)
               PROVE  e \in events' <=> ~DeletedBy(tombstones', e)
    BY Zenon DEF Stored
  <2>1. e \in Event
    BY <1>4, Zenon
  <2>2. e \in handled => (e \in events <=> ~DeletedBy(tombstones, e))
    BY Zenon DEF StoreInv, Stored
  <2>3. e \notin handled => e = x /\ e \notin events
    BY <1>0, <1>1, Zenon
  <2> QED BY <1>2, <1>3, <2>1, <2>2, <2>3, Zenon
<1>8. NotTombstoned'
  BY <1>1, <1>2, <1>3, <1>4, Zenon DEF NotTombstoned, StoreInv
<1>9. Newest'
  <2> SUFFICES ASSUME NEW e \in handled', Replaces(e),
                      Undeleted(handled', tombstones', e)
               PROVE  \E m \in Event : Holds(events', handled', e, m)
    BY Zenon DEF Newest
  <2>1. e \in handled /\ e \in Event
    BY <1>0, <1>4, Zenon
  <2>2. ~Same(e, x)
    BY <1>0, <2>1, AddressesPartition, Zenon
  <2>3. Undeleted(handled, tombstones, e)
    BY <1>0, <1>2, Zenon DEF Undeleted
  <2>4. PICK m \in Event : Holds(events, handled, e, m)
    BY <2>1, <2>3, Zenon DEF StoreInv, Newest
  <2>5. \A f \in Event : Same(e, f) => (f \in events' <=> f \in events)
    BY <1>0, <1>1, <1>2, <1>3, <2>2, Zenon DEF Undeleted
  <2>6. \A f \in Event : Same(e, f) => (f \in handled' <=> f \in handled)
    BY <1>0, <2>2, Zenon
  <2>7. Holds(events', handled', e, m)
    BY <2>4, <2>5, <2>6, Zenon DEF Holds
  <2> QED BY <2>7, Zenon
<1> QED BY <1>4, <1>5, <1>6, <1>7, <1>8, <1>9, Zenon DEF StoreInv

\* The transaction of ReplaceEvent: the event takes its address when it is
\* newer than all it finds there.
LEMMA ReplaceEventKeeps ==
  ASSUME StoreInv, NEW h \in Handler, ReplaceEvent(h)
  PROVE  StoreInv'
<1> DEFINE x == inflight[h]
<1>0. /\ x \in Event /\ Replaces(x)
      /\ events' = Saved(events, tombstones, x)
      /\ tombstones' = tombstones
      /\ handled' = handled \cup {x}
      /\ inflight' = [inflight EXCEPT ![h] = NoEvent]
      /\ allowlist' = allowlist
  BY Zenon DEF StoreInv, StoreTypeOK, ReplaceEvent
<1> HIDE DEF x
<1>1. /\ events \subseteq handled /\ handled \subseteq Event
      /\ events \subseteq Event
  BY Zenon DEF StoreInv, StoreTypeOK
<1> DEFINE Wins == /\ ~DeletedBy(tombstones, x)
                   /\ \A p \in Event : p \in events /\ Same(x, p) => IsOlder(p, x)
<1>2. ~Wins => events' = events
  BY <1>0, <1>1, SavedReplaceable, CompetitorsAt
<1>3. Wins => \A e \in Event :
                e \in events' <=> (e \in events /\ ~Same(x, e)) \/ e = x
  BY <1>0, <1>1, SavedReplaceable, CompetitorsAt
<1>4. events' \subseteq handled' /\ handled' \subseteq Event
  BY <1>0, <1>1, SavedReplaceable
<1>5. StoreTypeOK'
  BY <1>0, <1>4, Zenon DEF StoreTypeOK, StoreInv
<1>6. Recorded'
  <2>1. TargetsOf(x) = {}
    BY <1>0, Zenon DEF TargetsOf, Replaces
  <2> QED BY <1>0, <2>1, Zenon DEF Recorded, StoreInv, DeletedBy
<1>7. \A e \in Event : ~Replaces(e) => (e \in events' <=> e \in events)
  BY <1>0, <1>2, <1>3, AddressesPartition
<1>8. Stored'
  BY <1>0, <1>4, <1>7 DEF Stored, StoreInv
<1>9. NotTombstoned'
  BY <1>0, <1>1, <1>2, <1>3, <1>4 DEF NotTombstoned, StoreInv
<1>10. Newest'
  <2> SUFFICES ASSUME NEW e \in handled', Replaces(e),
                      Undeleted(handled', tombstones', e)
               PROVE  \E m \in Event : Holds(events', handled', e, m)
    BY DEF Newest
  <2>1. e \in Event
    BY <1>4, Zenon
  <2>2. e \in handled => \E m \in Event : Holds(events, handled, e, m)
    BY <1>0 DEF StoreInv, Newest, Undeleted
  <2>3. CASE ~Same(e, x)
    <3>1. e \in handled
      BY <1>0, <2>1, <2>3, AddressesPartition DEF Same
    <3>2. PICK m \in Event : Holds(events, handled, e, m)
      BY <2>2, <3>1, Zenon
    <3>3. \A f \in Event : Same(e, f) => f # x /\ ~Same(x, f)
      BY <1>0, <2>1, <2>3, AddressesPartition
    <3>4. \A f \in Event : Same(e, f) => (f \in events' <=> f \in events)
      BY <1>2, <1>3, <3>3
    <3>5. \A f \in Event : Same(e, f) => (f \in handled' <=> f \in handled)
      BY <1>0, <3>3
    <3>6. Holds(events', handled', e, m)
      BY <3>2, <3>4, <3>5 DEF Holds
    <3> QED BY <3>6
  <2>4. CASE Same(e, x)
    <3>1. /\ ~DeletedBy(tombstones, x)
          /\ \A f \in Event : Same(e, f) <=> Same(x, f)
      BY <1>0, <2>1, <2>4, AddressesPartition DEF Undeleted
    <3>2. CASE \E f \in Event : f \in handled /\ Same(x, f)
      <4>1. PICK f0 \in Event : f0 \in handled /\ Same(x, f0)
        BY <3>2, Zenon
      <4>2. PICK m \in Event : Holds(events, handled, f0, m)
        <5>1. Undeleted(handled, tombstones, f0) /\ Replaces(f0)
          BY <1>0, <2>1, <3>1, <4>1, AddressesPartition DEF Undeleted
        <5> QED BY <4>1, <5>1 DEF StoreInv, Newest
      <4>3. \A f \in Event : Same(f0, f) <=> Same(x, f)
        BY <1>0, <4>1, AddressesPartition
      <4>4. Holds(events, handled, x, m)
        BY <4>2, <4>3, Zenon DEF Holds
      <4>5. CASE Wins
        <5>1. IsOlder(m, x)
          BY <4>4, <4>5 DEF Holds
        <5>2. \A f \in Event : f \in handled' /\ Same(x, f) /\ f # x => IsOlder(f, x)
          BY <1>0, <4>4, <5>1, OlderIsTransitive DEF Holds
        <5>3. Holds(events', handled', e, x)
          BY <1>0, <1>3, <2>4, <3>1, <4>5, <5>2 DEF Holds
        <5> QED BY <1>0, <5>3, Zenon
      <4>6. CASE ~Wins
        <5>1. ~IsOlder(m, x)
          BY <3>1, <4>4, <4>6 DEF Holds
        <5>2. x # m => IsOlder(x, m)
          BY <1>0, <5>1, OlderIsTotal
        <5>3. Holds(events', handled', e, m)
          BY <1>0, <1>2, <3>1, <4>4, <4>6, <5>2 DEF Holds
        <5> QED BY <5>3
      <4> QED BY <4>5, <4>6
    <3>3. CASE ~\E f \in Event : f \in handled /\ Same(x, f)
      <4>1. Wins
        BY <1>1, <3>1, <3>3
      <4>2. Holds(events', handled', e, x)
        BY <1>0, <1>3, <2>4, <3>1, <3>3, <4>1 DEF Holds
      <4> QED BY <1>0, <4>2, Zenon
    <3> QED BY <3>2, <3>3
  <2> QED BY <2>3, <2>4, Zenon
<1> QED BY <1>4, <1>5, <1>6, <1>8, <1>9, <1>10 DEF StoreInv

\* What leaves the tables and the history alone keeps the invariant.
LEMMA StoreUntouched ==
  ASSUME StoreInv, UNCHANGED <<events, tombstones, handled>>,
         allowlist' \subseteq Pubkey,
         inflight' \in [Handler -> Event \cup {NoEvent}]
  PROVE  StoreInv'
BY Zenon DEF StoreInv, StoreTypeOK, Recorded, Stored, NotTombstoned, Newest

\* A request carries an authorization from its validation on.
RequestsOK ==
  /\ request \in [Worker -> [phase : {"idle", "valid", "consumed"},
                             auth : Auth \cup {NoAuth}, at : Int]]
  /\ \A w \in Worker : request[w].phase # "idle" => request[w].auth \in Auth

LEMMA NextRequestsOK ==
  ASSUME RequestsOK, clock \in Int, [Next]_vars
  PROVE  RequestsOK'
<1>1. ASSUME NEW w \in Worker, NEW a \in Auth, Validate(w, a) PROVE RequestsOK'
  BY <1>1, Zenon DEF Validate, RequestsOK
<1>2. ASSUME NEW w \in Worker, Consume(w) PROVE RequestsOK'
  BY <1>2 DEF Consume, RequestsOK, Idle
<1>3. ASSUME NEW w \in Worker, Dispatch(w) PROVE RequestsOK'
  BY <1>3 DEF Dispatch, RequestsOK, Idle
<1>4. ASSUME NEW w \in Worker, RequestFails(w) PROVE RequestsOK'
  BY <1>4 DEF RequestFails, RequestsOK, Idle
<1>5. CASE UNCHANGED request
  BY <1>5, Zenon DEF RequestsOK
<1>6. CASE Restart
  BY <1>6 DEF Restart, RequestsOK, Idle
<1> QED
  BY <1>1, <1>2, <1>3, <1>4, <1>5, <1>6
     DEF Next, ManagementStep, Tick, managementVars, vars

\* Every step of the relay keeps the invariant of the store.
LEMMA NextStoreInv ==
  ASSUME StoreInv, RequestsOK, [Next]_vars
  PROVE  StoreInv'
<1>1. allowlist \subseteq Pubkey /\ inflight \in [Handler -> Event \cup {NoEvent}]
  BY Zenon DEF StoreInv, StoreTypeOK
<1>2. ASSUME NEW h \in Handler, NEW event \in Event, OnEvent(h, event)
      PROVE  StoreInv'
  BY <1>1, <1>2, StoreUntouched DEF OnEvent
<1>3. ASSUME NEW h \in Handler, HandlerFails(h) PROVE StoreInv'
  BY <1>1, <1>3, StoreUntouched DEF HandlerFails
<1>4. CASE StoreNext
  BY <1>2, <1>3, <1>4, StoreEventKeeps, ReplaceEventKeeps DEF StoreNext
<1>5. ASSUME NEW w \in Worker, Dispatch(w) PROVE StoreInv'
  <2>1. request[w].auth \in Auth
    BY <1>5 DEF Dispatch, RequestsOK
  <2>2. request[w].auth.pubkey \in Pubkey
    BY <2>1, AuthAssumption
  <2> QED BY <1>1, <1>5, <2>2, StoreUntouched
             DEF Dispatch, AllowPublisher, UnallowPublisher, storeVars
<1>6. CASE UNCHANGED <<events, tombstones, handled, allowlist, inflight>>
  BY <1>1, <1>6, StoreUntouched
<1>7. CASE Restart
  BY <1>1, <1>7, StoreUntouched DEF Restart
<1>8. ASSUME NEW w \in Worker, NEW a \in Auth, Validate(w, a)
      PROVE  UNCHANGED <<events, tombstones, handled, allowlist, inflight>>
  BY <1>8 DEF Validate, storeVars
<1>9. ASSUME NEW w \in Worker, Consume(w) \/ RequestFails(w)
      PROVE  UNCHANGED <<events, tombstones, handled, allowlist, inflight>>
  BY <1>9 DEF Consume, RequestFails, storeVars
<1> QED
  BY <1>4, <1>5, <1>6, <1>7, <1>8, <1>9, Zenon
     DEF Next, ManagementStep, Tick, storeVars, vars

LEMMA InitStoreInv ==
  ASSUME Init PROVE StoreInv /\ RequestsOK /\ clock \in Int
<1>1. StoreInv
  BY Zenon DEF Init, StoreInit, StoreInv, StoreTypeOK, Recorded, Stored,
         NotTombstoned, Newest, DeletedBy
<1>2. RequestsOK /\ clock \in Int
  BY DEF Init, RequestsOK, Idle
<1> QED BY <1>1, <1>2

LEMMA StoreInvariance == Spec => [](StoreInv /\ RequestsOK /\ clock \in Int)
<1>1. ASSUME clock \in Int, [Next]_vars PROVE (clock \in Int)'
  <2>1. clock' = clock \/ clock' = clock + 1
    BY <1>1 DEF Next, ManagementStep, Restart, managementVars, vars,
                Validate, Consume, Dispatch, RequestFails, Tick
  <2> QED BY <1>1, <2>1
<1> QED BY <1>1, InitStoreInv, NextStoreInv, NextRequestsOK, PTL DEF Spec

-----------------------------------------------------------------------------
(* What the store promises.                                                *)

\* In whatever order any number of handlers save events and deletions, the
\* relay holds the same regular events (SaveEventAndApplyDeletion).
THEOREM StoreConverges == Spec => []Convergent
<1>1. StoreInv => Convergent
  <2> SUFFICES ASSUME StoreInv, NEW e
               PROVE  (e \in events /\ ~Replaces(e)) <=>
                        (e \in handled /\ ~Replaces(e) /\
                         ~\E d \in handled : d.pubkey = e.pubkey /\ e.id \in TargetsOf(d))
    BY Zenon DEF Convergent
  <2>1. /\ e \in events => e \in handled
        /\ e \in handled => e \in Event
        /\ e \in handled /\ ~Replaces(e) => (e \in events <=> ~DeletedBy(tombstones, e))
    BY Zenon DEF StoreInv, StoreTypeOK, Stored
  <2>2. e \in Event =>
          (DeletedBy(tombstones, e) <=>
             \E d \in handled : d.pubkey = e.pubkey /\ e.id \in TargetsOf(d))
    BY DEF StoreInv, Recorded
  <2> QED BY <2>1, <2>2, Zenon
<1> QED BY <1>1, StoreInvariance, PTL

\* No event is stored that its owner has deleted, whichever of the event and
\* the deletion the relay handled first (saveEventTx).
THEOREM DeletionsStay == Spec => []NotTombstoned
<1>1. StoreInv => NotTombstoned
  BY DEF StoreInv
<1> QED BY <1>1, StoreInvariance, PTL

\* A query for one event of an address is answered with the newest handled
\* there, for every order of arrival and every MaxQueryLimit (QueryStored).
THEOREM NewestIsServed == Spec => []NewestServed
<1>1. StoreInv => NewestServed
  <2> SUFFICES ASSUME StoreInv, NEW e \in handled, Replaces(e),
                      \A f \in Competitors(handled, e) : ~DeletedBy(tombstones, f)
               PROVE  LET address == Competitors(handled, e)
                          filter == [hasAuthors |-> TRUE, authors |-> {e.pubkey},
                                     hasKinds |-> TRUE, kinds |-> {e.kind},
                                     hasD |-> e.class = "addressable", d |-> {e.d},
                                     since |-> 0, limit |-> 1]
                      IN  QueryStored(filter) =
                            {f \in address : \A g \in address : g # f => IsOlder(g, f)}
    BY Zenon DEF NewestServed
  <2> DEFINE address == Competitors(handled, e)
             filter == [hasAuthors |-> TRUE, authors |-> {e.pubkey},
                        hasKinds |-> TRUE, kinds |-> {e.kind},
                        hasD |-> e.class = "addressable", d |-> {e.d},
                        since |-> 0, limit |-> 1]
  <2>1. events \subseteq handled /\ handled \subseteq Event
    BY Zenon DEF StoreInv, StoreTypeOK
  <2>2. PICK m \in Event : Holds(events, handled, e, m)
    <3>1. Undeleted(handled, tombstones, e)
      BY CompetitorsAt DEF Undeleted
    <3> QED BY <3>1 DEF StoreInv, Newest
  <2>3. Matching(events, filter) = {m}
    <3>1. \A f : f \in Matching(events, filter) <=> f \in events /\ Same(e, f)
      BY Zenon DEF Matching, Same
    <3> QED BY <2>1, <2>2, <3>1, Zenon DEF Holds
  <2>4. QueryStored(filter) = AllEvents(events, filter, 1)
    <3>1. ~(MaxQueryLimit > 0 /\ (1 = 0 \/ 1 > MaxQueryLimit))
      BY LimitAssumption
    <3> QED BY <3>1, Zenon DEF QueryStored, QueryEvents
  <2>5. AllEvents(events, filter, 1) = {m}
    <3>1. {f \in {m} : ServedBefore(f, m)} = {}
      <4>1. m.id \in Nat /\ m.created \in Nat
        BY EventFields
      <4>2. ~ServedBefore(m, m)
        BY <4>1 DEF ServedBefore
      <4> QED BY <4>2, Zenon
    <3>2. Cardinality({f \in {m} : ServedBefore(f, m)}) < 1
      BY <3>1, FS_EmptySet
    <3> HIDE DEF filter
    <3> QED BY <2>3, <3>2 DEF AllEvents
  <2>6. {f \in address : \A g \in address : g # f => IsOlder(g, f)} = {m}
    <3>1. \A f : f \in address <=> f \in handled /\ Same(e, f)
      BY CompetitorsAt, Zenon
    <3>2. m \in address /\ \A g \in address : g # m => IsOlder(g, m)
      BY <2>1, <2>2, <3>1, Zenon DEF Holds
    <3>3. \A f \in address : f # m => ~IsOlder(m, f)
      BY <2>1, <3>1, <3>2, OlderIsTotal, Zenon
    <3> HIDE DEF address
    <3> QED BY <3>2, <3>3, Zenon
  <2> HIDE DEF filter, address
  <2>7. QueryStored(filter) =
          {f \in address : \A g \in address : g # f => IsOlder(g, f)}
    BY <2>4, <2>5, <2>6
  <2> QED BY <2>7, Zenon DEF filter, address
<1> QED BY <1>1, StoreInvariance, PTL

-----------------------------------------------------------------------------
(* Authorizations.                                                         *)

\* The last tick of an authorization's window, and more than a second later.
Over(a) == clock >= Ticks(a.created) + Ticks(MaxSkew) + 2

\* The row that keeps a consumed authorization from being consumed again.
Kept(S, a) == \E s \in S : s[1] = a /\ s[2] >= a.created - MaxSkew

\* A validated request was in its window and has not stalled since.
Timely ==
  \A w \in Worker :
    request[w].phase = "valid" =>
      /\ InWindow(request[w].auth, request[w].at)
      /\ request[w].at <= clock /\ clock <= request[w].at + MaxStall

ReplayInv ==
  /\ clock \in Int /\ seen \subseteq Auth \X Int /\ applied \in [Auth -> Nat]
  /\ RequestsOK /\ Timely
  /\ AppliedOnce
  /\ \A a \in Auth : applied[a] # 0 => Kept(seen, a) \/ Over(a)

\* Unix of a time within the window is a second within the window.
LEMMA WindowSeconds ==
  ASSUME NEW a \in Auth, NEW t \in Int, InWindow(a, t)
  PROVE  Unix(t) \in Int /\ Unix(t) >= a.created - MaxSkew
<1>1. a.created \in Nat /\ MaxSkew \in Nat
  BY AuthAssumption, TimeAssumption
<1> QED BY <1>1 DEF InWindow, Unix, Ticks

\* DeleteExpiredNIP98Events deletes a row only when the window of its
\* authorization ended more than a second ago.
LEMMA ExpiredIsOver ==
  ASSUME NEW a \in Auth, NEW u \in Int, u >= a.created - MaxSkew,
         NEW t \in Int, u < Unix(t - Retention)
  PROVE  t >= Ticks(a.created) + Ticks(MaxSkew) + 2
<1>1. a.created \in Nat /\ MaxSkew \in Nat
  BY AuthAssumption, TimeAssumption
<1> QED BY <1>1 DEF Retention, Unix, Ticks

\* A request that has not stalled is not past its window.
LEMMA TimelyIsNotOver ==
  ASSUME MaxStall <= 1, ReplayInv, NEW w \in Worker, request[w].phase = "valid"
  PROVE  ~Over(request[w].auth)
<1>1. /\ request[w].auth \in Auth /\ request[w].at \in Int /\ clock \in Int
      /\ InWindow(request[w].auth, request[w].at)
      /\ clock <= request[w].at + MaxStall
  BY Zenon DEF ReplayInv, RequestsOK, Timely
<1>2. request[w].auth.created \in Nat /\ MaxSkew \in Nat /\ MaxStall \in Nat
  BY <1>1, AuthAssumption, TimeAssumption
<1> QED BY <1>1, <1>2 DEF Over, InWindow, Ticks

\* The transaction of ConsumeNIP98Event.
LEMMA ConsumeKeeps ==
  ASSUME MaxStall <= 1, ReplayInv, NEW w \in Worker, Consume(w)
  PROVE  ReplayInv'
<1> DEFINE a == request[w].auth
           t == request[w].at
<1>0. /\ request[w].phase = "valid" /\ a \in Auth /\ t \in Int /\ InWindow(a, t)
      /\ clock \in Int /\ t <= clock /\ clock' = clock
      /\ seen \subseteq Auth \X Int /\ applied \in [Auth -> Nat]
  BY DEF ReplayInv, RequestsOK, Timely, Consume
<1>1. RequestsOK'
  BY DEF Consume, RequestsOK, ReplayInv, Idle
<1>2. Timely'
  BY DEF Consume, Timely, ReplayInv, RequestsOK, Idle
<1>3. CASE UNCHANGED <<seen, applied>>
  BY <1>0, <1>1, <1>2, <1>3 DEF ReplayInv, AppliedOnce, Over
<1>4. CASE /\ Inserts(a, t)
           /\ seen' = Unexpired(t) \cup {<<a, Unix(t)>>}
           /\ applied' = [applied EXCEPT ![a] = @ + 1]
  <2> HIDE DEF a, t
  <2>1. Unix(t) \in Int /\ Unix(t) >= a.created - MaxSkew
    BY <1>0, WindowSeconds
  <2>2. seen' \subseteq Auth \X Int /\ applied' \in [Auth -> Nat]
    BY <1>0, <1>4, <2>1 DEF Unexpired
  <2>3. \A b \in Auth : Kept(seen, b) => Kept(Unexpired(t), b) \/ Over(b)
    <3> SUFFICES ASSUME NEW b \in Auth, NEW s \in seen, s[1] = b,
                        s[2] >= b.created - MaxSkew, s \notin Unexpired(t)
                 PROVE  Over(b)
      BY Zenon DEF Kept
    <3>1. s[2] \in Int
      BY <1>0
    <3>2. Unix(t - Retention) \in Int
      BY <1>0, TimeAssumption DEF Unix, Retention, Ticks
    <3>3. s[2] < Unix(t - Retention)
      BY <3>1, <3>2 DEF Unexpired
    <3>4. t >= Ticks(b.created) + Ticks(MaxSkew) + 2
      BY <1>0, <3>1, <3>3, ExpiredIsOver, Zenon
    <3>5. Ticks(b.created) + Ticks(MaxSkew) + 2 \in Int
      BY AuthAssumption, TimeAssumption DEF Ticks
    <3> QED BY <1>0, <3>4, <3>5 DEF Over
  <2>4. applied[a] = 0
    <3>1. ~Kept(Unexpired(t), a)
      BY <1>4, Zenon DEF Inserts, Kept
    <3>2. ~Over(a)
      BY <1>0, TimelyIsNotOver, Zenon DEF a
    <3> QED BY <1>0, <2>3, <3>1, <3>2, Zenon DEF ReplayInv
  <2>5. AppliedOnce'
    BY <1>0, <1>4, <2>4 DEF ReplayInv, AppliedOnce
  <2>6. Kept(seen', a)
    <3> DEFINE row == <<a, Unix(t)>>
    <3>1. row \in seen' /\ row[1] = a /\ row[2] = Unix(t)
      BY <1>4
    <3> HIDE DEF row
    <3> QED BY <2>1, <3>1 DEF Kept
  <2>7. \A b \in Auth : Kept(Unexpired(t), b) => Kept(seen', b)
    BY <1>4 DEF Kept
  <2>8. \A b \in Auth : applied'[b] # 0 => Kept(seen', b) \/ Over(b)
    BY <1>0, <1>4, <2>3, <2>6, <2>7 DEF ReplayInv
  <2>9. \A b \in Auth : Over(b)' <=> Over(b)
    BY <1>0 DEF Over
  <2> QED BY <1>0, <1>1, <1>2, <2>2, <2>5, <2>8, <2>9 DEF ReplayInv, Kept
<1> QED BY <1>3, <1>4 DEF Consume

LEMMA NextReplayInv ==
  ASSUME MaxStall <= 1, ReplayInv, [Next]_vars
  PROVE  ReplayInv'
<1>1. RequestsOK'
  BY NextRequestsOK DEF ReplayInv
<1>2. ASSUME UNCHANGED <<clock, seen, applied>>, Timely' PROVE ReplayInv'
  BY <1>1, <1>2 DEF ReplayInv, AppliedOnce, Over
<1>3. ASSUME NEW w \in Worker, NEW a \in Auth, Validate(w, a) PROVE ReplayInv'
  <2>1. Timely'
    BY <1>3, TimeAssumption DEF Validate, Timely, ReplayInv, RequestsOK
  <2> QED BY <1>2, <1>3, <2>1 DEF Validate
<1>4. ASSUME NEW w \in Worker, Dispatch(w) \/ RequestFails(w) PROVE ReplayInv'
  <2>1. Timely'
    BY <1>4 DEF Dispatch, RequestFails, Timely, ReplayInv, RequestsOK, Idle
  <2> QED BY <1>2, <1>4, <2>1, Zenon DEF Dispatch, RequestFails
<1>5. CASE Restart
  <2>1. Timely'
    BY <1>5, Zenon DEF Restart, Timely, Idle
  <2> QED BY <1>2, <1>5, <2>1, Zenon DEF Restart
<1>6. CASE UNCHANGED managementVars
  <2>1. Timely'
    BY <1>6, Zenon DEF managementVars, Timely, ReplayInv
  <2> QED BY <1>2, <1>6, <2>1, Zenon DEF managementVars
<1>7. CASE Tick
  <2>1. /\ clock \in Int /\ clock' = clock + 1 /\ UNCHANGED <<seen, request, applied>>
        /\ \A w \in Worker : request[w].phase = "valid" =>
                               clock < request[w].at + MaxStall
    BY <1>7, Zenon DEF Tick, ReplayInv
  <2>2. Timely'
    <3> SUFFICES ASSUME NEW w \in Worker, request[w].phase = "valid"
                 PROVE  /\ InWindow(request[w].auth, request[w].at)
                        /\ request[w].at <= clock'
                        /\ clock' <= request[w].at + MaxStall
      BY <2>1, Zenon DEF Timely
    <3>1. request[w].at \in Int /\ MaxStall \in Int
      BY TimeAssumption DEF ReplayInv, RequestsOK
    <3> QED BY <2>1, <3>1 DEF Timely, ReplayInv
  <2>3. \A a \in Auth : Over(a) => Over(a)'
    <3> SUFFICES ASSUME NEW a \in Auth, Over(a) PROVE Over(a)'
      BY Zenon
    <3>1. Ticks(a.created) + Ticks(MaxSkew) + 2 \in Int
      BY AuthAssumption, TimeAssumption DEF Ticks
    <3> QED BY <2>1, <3>1 DEF Over
  <2> QED BY <1>1, <2>1, <2>2, <2>3 DEF ReplayInv, AppliedOnce, Kept
<1> QED
  BY <1>3, <1>4, <1>5, <1>6, <1>7, ConsumeKeeps
     DEF Next, ManagementStep, managementVars, vars

\* However many requests carry it, and however the relay restarts, rounds
\* seconds and expires rows, an authorization is consumed at most once, when
\* a request reaches its transaction within a second of reading the clock
\* (Validate, ConsumeNIP98Event).
THEOREM AuthorizedOnce ==
  ASSUME MaxStall <= 1 PROVE Spec => []AppliedOnce
<1>1. Init => ReplayInv
  <2> SUFFICES ASSUME Init PROVE ReplayInv
    OBVIOUS
  <2>1. Timely
    BY DEF Init, Timely, Idle
  <2> QED BY <2>1, InitStoreInv DEF Init, ReplayInv, AppliedOnce
<1>2. ReplayInv /\ [Next]_vars => ReplayInv'
  BY NextReplayInv
<1>3. ReplayInv => AppliedOnce
  BY DEF ReplayInv
<1> QED BY <1>1, <1>2, <1>3, PTL DEF Spec
=============================================================================
