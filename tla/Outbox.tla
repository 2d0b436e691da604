------------------------------- MODULE Outbox -------------------------------
(***************************************************************************)
(* The durable outbox of nostr-bridge and its delivery to nostr-relay.     *)
(*                                                                         *)
(*   store      cmd/nostr-bridge/store: the tables outbox,                 *)
(*              outbox_sequences, publisher_registrations,                 *)
(*              publisher_purges, bridge_events and source_operations, and *)
(*              every transaction that writes the outbox.  The store has   *)
(*              one connection, so a transaction is one step.              *)
(*   dispatcher cmd/nostr-bridge/outbox: DispatchOne, cut where another    *)
(*              actor can interleave: claim, delivery, completion.         *)
(*   relay      what deliveries change at the relay: its allow-list and    *)
(*              the events it has accepted.                                *)
(*                                                                         *)
(* An event is known by its ticket: the n-th event enqueued for a          *)
(* publisher has ticket n.  Tickets, and accepted, are history: no guard   *)
(* of the store or the dispatcher reads them.  Time is abstracted to two   *)
(* flags of a row, ready (available_at has come) and lapsed (claimed_until *)
(* has passed), raised by BackoffElapses and LeaseLapses.                  *)
(***************************************************************************)
EXTENDS Integers, FiniteSets

CONSTANTS
  Pubkey,      \* publishers; the aggregate key of a row is its publisher
  Source,      \* source records (provider, account, URI)
  Version,     \* identities of a source record's content
  Author,      \* [Source -> Pubkey]: the key derived for the record's author
  Worker,      \* dispatchers: one per running process
  NoWorker, NoRow, NoVersion,
  Limit,       \* NOSTR_BRIDGE_OUTBOX_LIMIT
  MaySuspend,  \* may a worker be suspended for longer than its lease?
  MaxRows,     \* bound: rows that enqueue operations insert in a behaviour
  MaxLate,     \* bound: unanswered requests that may still reach the relay
  MaxDrift     \* bound: times the relay forgets a publisher

ASSUME AuthorAssumption == Author \in [Source -> Pubkey]
ASSUME PubkeyAssumption == IsFiniteSet(Pubkey)
ASSUME NoWorkerAssumption == NoWorker \notin Worker
ASSUME NoVersionAssumption == NoVersion \notin Version
ASSUME BoundAssumption ==
  /\ Limit \in Nat /\ MaxRows \in Nat /\ MaxLate \in Nat /\ MaxDrift \in Nat
  /\ MaySuspend \in BOOLEAN

Allow == "allow-publisher"
Publish == "publish-event"
Unallow == "unallow-publisher"
Operation == {Allow, Publish, Unallow}

Row == [id : Nat, key : Pubkey, seq : Nat, op : Operation, ticket : Nat,
        ready : BOOLEAN, owner : Worker \cup {NoWorker}, lapsed : BOOLEAN]

ASSUME NoRowAssumption == NoRow \notin Row

\* A request on the wire: what the relay sees of a row.
Request == [key : Pubkey, op : Operation, ticket : Nat]

Phase == {"idle", "claimed", "ok", "failed", "restricted"}

VARIABLES
  queue,       \* [rows, last, nextId, issued]: outbox and outbox_sequences
  registered,  \* publisher_registrations
  purged,      \* publisher_purges
  covered,     \* history: the tickets the purge deletion of a publisher names
  mapping,     \* bridge_events: the ticket a source record maps to, 0 if none
  operation,   \* source_operations
  worker,      \* [phase, row]: where each DispatchOne is and the row it claimed
  allowed,     \* the relay's allow-list
  accepted,    \* history: the tickets the relay has accepted, per publisher
  late,        \* requests without an answer that may still reach the relay
  drifts       \* times the relay has forgotten a publisher

storeVars == <<queue, registered, purged, covered, mapping, operation>>
relayVars == <<allowed, accepted, late, drifts>>
vars == <<queue, registered, purged, covered, mapping, operation,
          worker, allowed, accepted, late, drifts>>

Init ==
  /\ queue = [rows |-> {}, last |-> [k \in Pubkey |-> 0], nextId |-> 1,
              issued |-> [k \in Pubkey |-> 0]]
  /\ registered = {}
  /\ purged = {}
  /\ covered = [k \in Pubkey |-> {}]
  /\ mapping = [s \in Source |-> 0]
  /\ operation = [s \in Source |-> NoVersion]
  /\ worker = [w \in Worker |-> [phase |-> "idle", row |-> NoRow]]
  /\ allowed = {}
  /\ accepted = [k \in Pubkey |-> {}]
  /\ late = {}
  /\ drifts = 0

(***************************************************************************)
(* The store's building blocks, as functions of the queue.                 *)
(***************************************************************************)
RowsOf(q, k) == {r \in q.rows : r.key = k}

Pending(q, k, op) == \E r \in q.rows : r.key = k /\ r.op = op

NewRow(i, k, n, op, t) ==
  [id |-> i, key |-> k, seq |-> n, op |-> op, ticket |-> t,
   ready |-> TRUE, owner |-> NoWorker, lapsed |-> FALSE]

\* enqueueOutbox: take the aggregate's next sequence number and insert.
Enqueue(q, k, op) ==
  [rows |-> q.rows \cup {NewRow(q.nextId, k, q.last[k] + 1, op,
                               IF op = Publish THEN q.issued[k] + 1 ELSE 0)},
   last |-> [q.last EXCEPT ![k] = @ + 1],
   nextId |-> q.nextId + 1,
   issued |-> IF op = Publish THEN [q.issued EXCEPT ![k] = @ + 1] ELSE q.issued]

RegisteredOrPending(q, k) == k \in registered \/ Pending(q, k, Allow)

\* Queue the registration of a publisher that is neither registered nor about
\* to be.
WithAllow(q, k) == IF RegisteredOrPending(q, k) THEN q ELSE Enqueue(q, k, Allow)

EnqueuePublish(q, k) == Enqueue(WithAllow(q, k), k, Publish)

\* Rows that n publishes of k would insert.
Needed(q, k, n) == IF RegisteredOrPending(q, k) THEN n ELSE n + 1

\* Faulty: the limit is compared before the rows are added.
FitsBefore(n) == Cardinality(queue.rows) <= Limit

Fits(n) == Cardinality(queue.rows) + n <= Limit

Bounded(n) == queue.nextId + n <= MaxRows + 1

(***************************************************************************)
(* Enqueue operations of the store that the bridge calls.                  *)
(***************************************************************************)
\* A create of Bluesky carries no identity and leaves the recorded one alone.
SaveSourceOperation(s, v) ==
  operation' = IF v = NoVersion THEN operation ELSE [operation EXCEPT ![s] = v]

EnqueueEvent(s, v) ==
  LET k == Author[s] IN
  /\ k \notin purged
  /\ Fits(Needed(queue, k, 1)) /\ Bounded(Needed(queue, k, 1))
  /\ queue' = EnqueuePublish(queue, k)
  /\ mapping' = [mapping EXCEPT ![s] = queue.issued[k] + 1]
  /\ SaveSourceOperation(s, v)
  /\ UNCHANGED <<registered, purged, covered, worker, relayVars>>

\* The deletion event is published; the mapping and its identity are dropped.
EnqueueDelete(s) ==
  LET k == Author[s] IN
  /\ mapping[s] # 0
  /\ k \notin purged
  /\ Fits(Needed(queue, k, 1)) /\ Bounded(Needed(queue, k, 1))
  /\ queue' = EnqueuePublish(queue, k)
  /\ mapping' = [mapping EXCEPT ![s] = 0]
  /\ operation' = [operation EXCEPT ![s] = NoVersion]
  /\ UNCHANGED <<registered, purged, covered, worker, relayVars>>

\* The deletion of the old event, then its replacement.
EnqueueUpdate(s, v) ==
  LET k == Author[s] IN
  /\ k \notin purged
  /\ Fits(Needed(queue, k, 2)) /\ Bounded(Needed(queue, k, 2))
  /\ queue' = Enqueue(EnqueuePublish(queue, k), k, Publish)
  /\ mapping' = [mapping EXCEPT ![s] = queue.issued[k] + 2]
  /\ SaveSourceOperation(s, v)
  /\ UNCHANGED <<registered, purged, covered, worker, relayVars>>

\* A record of a batch is skipped when its mapping carries the same identity
\* (the coordinator, the only caller, always passes one).
Changed(s, v) == mapping[s] = 0 \/ operation[s] # v

\* A batch of two distinct records x, y, or of the one record x = y.
ReconcileBatch(x, vx, y, vy) ==
  LET doX == Changed(x, vx)
      doY == x # y /\ Changed(y, vy)
      kx == Author[x]
      ky == Author[y]
      qx == IF doX THEN EnqueuePublish(queue, kx) ELSE queue
      needX == IF doX THEN Needed(queue, kx, 1) ELSE 0
      needY == IF doY THEN IF doX /\ kx = ky THEN 1 ELSE Needed(queue, ky, 1)
                      ELSE 0
  IN /\ kx \notin purged /\ ky \notin purged
     /\ doX \/ doY
     /\ Fits(needX + needY) /\ Bounded(needX + needY)
     /\ queue' = IF doY THEN EnqueuePublish(qx, ky) ELSE qx
     /\ mapping' = [s \in Source |->
          CASE doX /\ s = x -> queue.issued[kx] + 1
            [] doY /\ s = y -> qx.issued[ky] + 1
            [] OTHER -> mapping[s]]
     /\ operation' = [s \in Source |->
          CASE doX /\ s = x -> vx
            [] doY /\ s = y -> vy
            [] OTHER -> operation[s]]
     /\ UNCHANGED <<registered, purged, covered, worker, relayVars>>

\* Faulty: the purge forgets to queue the unallow.
EnqueuePurgeNoUnallow(k) ==
  /\ k \notin purged
  /\ ~Pending(queue, k, Unallow)
  /\ k \in registered
  /\ Fits(2) /\ Bounded(2)
  /\ purged' = purged \cup {k}
  /\ covered' = [covered EXCEPT ![k] = {mapping[s] : s \in {t \in Source :
                                          Author[t] = k /\ mapping[t] # 0}}]
  /\ queue' = Enqueue(queue, k, Publish)
  /\ UNCHANGED <<registered, mapping, operation, worker, relayVars>>

\* Mark the publisher, publish one deletion of everything mapped, then unallow.
EnqueuePurge(k) ==
  /\ k \notin purged
  /\ ~Pending(queue, k, Unallow)
  /\ k \in registered
  /\ Fits(2) /\ Bounded(2)
  /\ purged' = purged \cup {k}
  /\ covered' = [covered EXCEPT ![k] = {mapping[s] : s \in {t \in Source :
                                          Author[t] = k /\ mapping[t] # 0}}]
  /\ queue' = Enqueue(Enqueue(queue, k, Publish), k, Unallow)
  /\ UNCHANGED <<registered, mapping, operation, worker, relayVars>>

(***************************************************************************)
(* Operations of the store's interface that only tests call today.  They   *)
(* have no limit check and queue no registration.                          *)
(***************************************************************************)
\* Faulty: the purge marker is not looked at.
EnqueueOutboxUnchecked(k, op) ==
  /\ Bounded(1)
  /\ queue' = Enqueue(queue, k, op)
  /\ UNCHANGED <<registered, purged, covered, mapping, operation, worker,
                 relayVars>>

EnqueueOutbox(k, op) ==
  /\ op # Unallow => k \notin purged
  /\ Bounded(1)
  /\ queue' = Enqueue(queue, k, op)
  /\ UNCHANGED <<registered, purged, covered, mapping, operation, worker,
                 relayVars>>

\* Faulty: the purge marker is not looked at.
SaveEventAndEnqueueUnchecked(s) ==
  LET k == Author[s] IN
  /\ Bounded(1)
  /\ queue' = Enqueue(queue, k, Publish)
  /\ mapping' = [mapping EXCEPT ![s] = queue.issued[k] + 1]
  /\ UNCHANGED <<registered, purged, covered, operation, worker, relayVars>>

SaveEventAndEnqueue(s) ==
  LET k == Author[s] IN
  /\ k \notin purged
  /\ Bounded(1)
  /\ queue' = Enqueue(queue, k, Publish)
  /\ mapping' = [mapping EXCEPT ![s] = queue.issued[k] + 1]
  /\ UNCHANGED <<registered, purged, covered, operation, worker, relayVars>>

SetPublisherRegistered(k) ==
  /\ registered' = registered \cup {k}
  /\ UNCHANGED <<queue, purged, covered, mapping, operation, worker, relayVars>>

ClearPublisherRegistration(k) ==
  /\ registered' = registered \ {k}
  /\ UNCHANGED <<queue, purged, covered, mapping, operation, worker, relayVars>>

DeleteEventBySourceURI(s) ==
  /\ mapping' = [mapping EXCEPT ![s] = 0]
  /\ UNCHANGED <<queue, registered, purged, covered, operation, worker,
                 relayVars>>

(***************************************************************************)
(* DispatchOne, first step: claim the head of an aggregate.                *)
(***************************************************************************)
\* Faulty: the head of an aggregate is its lowest id, not its lowest sequence.
LowestId(q, r) == \A p \in q.rows : p.key = r.key => r.id <= p.id

IsHead(q, r) == \A p \in q.rows : p.key = r.key => r.seq <= p.seq

\* Faulty: any row of an aggregate may be claimed.
ClaimableAnywhere(q, r) == (r.owner = NoWorker \/ r.lapsed) /\ r.ready

\* Faulty: a lapsed lease is never taken over.
ClaimableOnce(q, r) == r.owner = NoWorker /\ r.ready /\ IsHead(q, r)

Claimable(q, r) ==
  /\ r.owner = NoWorker \/ r.lapsed
  /\ r.ready
  /\ IsHead(q, r)

Replace(q, r, new) == [q EXCEPT !.rows = (@ \ {r}) \cup {new}]

ClaimOutbox(w) ==
  /\ worker[w].phase = "idle"
  /\ \E r \in queue.rows :
       /\ Claimable(queue, r)
       /\ queue' = Replace(queue, r, [r EXCEPT !.owner = w, !.lapsed = FALSE])
       /\ worker' = [worker EXCEPT ![w] = [phase |-> "claimed", row |-> r]]
  /\ UNCHANGED <<registered, purged, covered, mapping, operation, relayVars>>

\* Nothing is claimable: Run waits for its poll interval and tries again.
Poll(w) ==
  /\ worker[w].phase = "idle"
  /\ \A r \in queue.rows : ~Claimable(queue, r)
  /\ UNCHANGED vars

(***************************************************************************)
(* DispatchOne, second step: deliver the row to the relay.                 *)
(***************************************************************************)
RequestOf(r) == [key |-> r.key, op |-> r.op, ticket |-> r.ticket]

\* The relay handles a request: an event of a publisher that is not on its
\* allow-list is refused.
Accepts(m) == m.op = Publish => m.key \in allowed

RelayHandles(m) ==
  /\ allowed' = CASE m.op = Allow -> allowed \cup {m.key}
                  [] m.op = Unallow -> allowed \ {m.key}
                  [] OTHER -> allowed
  /\ accepted' = IF m.op = Publish /\ Accepts(m)
                 THEN [accepted EXCEPT ![m.key] = @ \cup {m.ticket}]
                 ELSE accepted

SetPhase(w, p) == worker' = [worker EXCEPT ![w].phase = p]

RelayAnswers(w) ==
  LET m == RequestOf(worker[w].row) IN
  /\ worker[w].phase = "claimed"
  /\ RelayHandles(m)
  /\ SetPhase(w, IF Accepts(m) THEN "ok" ELSE "restricted")
  /\ UNCHANGED <<storeVars, late, drifts>>

\* Faulty: the delivery error is swallowed.
DeliveryErrorIgnored(w) ==
  /\ worker[w].phase = "claimed"
  /\ SetPhase(w, "ok")
  /\ UNCHANGED <<storeVars, relayVars>>

\* The request never reaches the relay.
DeliveryFails(w) ==
  /\ worker[w].phase = "claimed"
  /\ SetPhase(w, "failed")
  /\ UNCHANGED <<storeVars, relayVars>>

\* The delivery times out; the relay may handle the request later, or never.
DeliveryTimesOut(w) ==
  /\ worker[w].phase = "claimed"
  /\ Cardinality(late) < MaxLate
  /\ late' = late \cup {RequestOf(worker[w].row)}
  /\ SetPhase(w, "failed")
  /\ UNCHANGED <<storeVars, allowed, accepted, drifts>>

LateArrival(m) ==
  /\ RelayHandles(m)
  /\ late' = late \ {m}
  /\ UNCHANGED <<storeVars, worker, drifts>>

(***************************************************************************)
(* DispatchOne, third step: write the outcome under the claim.  The claim  *)
(* time, not the current time, is compared with claimed_until, so only a   *)
(* replaced token loses a claim.                                           *)
(***************************************************************************)
\* Faulty: the claim token is not compared.
OwnedById(q, w, r) == r.id = worker[w].row.id

Owned(q, w, r) == r.id = worker[w].row.id /\ r.owner = w

\* Faulty: the row is forgotten, the phase is not.
ReleaseRowOnly(w) == worker' = [worker EXCEPT ![w].row = NoRow]

Release(w) == worker' = [worker EXCEPT ![w] = [phase |-> "idle", row |-> NoRow]]

Remove(q, r) == [q EXCEPT !.rows = @ \ {r}]

CompleteOutbox(w, r) ==
  /\ worker[w].row.op = Publish
  /\ queue' = Remove(queue, r)
  /\ UNCHANGED <<registered, mapping, operation>>

CompletePublisherRegistration(w, r) ==
  /\ worker[w].row.op = Allow
  /\ queue' = Remove(queue, r)
  /\ registered' = registered \cup {worker[w].row.key}
  /\ UNCHANGED <<mapping, operation>>

\* Identities are found through the mappings, so they go first; the purge
\* marker stays.
CompletePublisherUnregistration(w, r) ==
  LET k == worker[w].row.key IN
  /\ worker[w].row.op = Unallow
  /\ queue' = Remove(queue, r)
  /\ registered' = registered \ {k}
  /\ operation' = [s \in Source |-> IF Author[s] = k /\ mapping[s] # 0
                                    THEN NoVersion ELSE operation[s]]
  /\ mapping' = [s \in Source |-> IF Author[s] = k THEN 0 ELSE mapping[s]]

\* Faulty: the rows behind the rejected publish keep their numbers.
ShiftedNot(r, x) == x

\* The rejected publish r becomes the registration, later rows of the aggregate
\* move up by one, and the same event is inserted right behind the registration.
Shifted(r, x) ==
  IF x.key = r.key /\ x.seq > r.seq THEN [x EXCEPT !.seq = @ + 1] ELSE x

\* Faulty: the event is put at the end of its aggregate.
RecoverAtTail(q, r) ==
  [rows |-> (q.rows \ {r})
              \cup {NewRow(r.id, r.key, r.seq, Allow, 0),
                    NewRow(q.nextId, r.key, q.last[r.key] + 1, Publish, r.ticket)},
   last |-> [q.last EXCEPT ![r.key] = @ + 1],
   nextId |-> q.nextId + 1,
   issued |-> q.issued]

Recover(q, r) ==
  [rows |-> {Shifted(r, x) : x \in q.rows \ {r}}
              \cup {NewRow(r.id, r.key, r.seq, Allow, 0),
                    NewRow(q.nextId, r.key, r.seq + 1, Publish, r.ticket)},
   last |-> [q.last EXCEPT ![r.key] = @ + 1],
   nextId |-> q.nextId + 1,
   issued |-> q.issued]

\* Faulty: the publisher stays registered.
RecoverKeepingRegistration(w, r) ==
  /\ r.op = Publish
  /\ queue' = Recover(queue, r)
  /\ UNCHANGED <<registered, mapping, operation>>

RecoverPublisherRegistration(w, r) ==
  /\ r.op = Publish
  /\ queue' = Recover(queue, r)
  /\ registered' = registered \ {r.key}
  /\ UNCHANGED <<mapping, operation>>

RetryOutbox(r) ==
  /\ queue' = Replace(queue, r, [r EXCEPT !.owner = NoWorker, !.lapsed = FALSE,
                                          !.ready = FALSE])
  /\ UNCHANGED <<registered, mapping, operation>>

FinishClaimed(w) ==
  \E r \in queue.rows :
    /\ Owned(queue, w, r)
    /\ \/ worker[w].phase = "ok" /\ CompleteOutbox(w, r)
       \/ worker[w].phase = "ok" /\ CompletePublisherRegistration(w, r)
       \/ worker[w].phase = "ok" /\ CompletePublisherUnregistration(w, r)
       \/ worker[w].phase = "restricted" /\ RecoverPublisherRegistration(w, r)
       \/ worker[w].phase = "failed" /\ RetryOutbox(r)

\* Another worker has taken the row over: ErrClaimLost is ignored.
ClaimLost(w) ==
  /\ \A r \in queue.rows : ~Owned(queue, w, r)
  /\ UNCHANGED <<queue, registered, mapping, operation>>

Finish(w) ==
  /\ worker[w].phase \in {"ok", "failed", "restricted"}
  /\ FinishClaimed(w) \/ ClaimLost(w)
  /\ Release(w)
  /\ UNCHANGED <<purged, covered, relayVars>>

(***************************************************************************)
(* The environment: a dispatcher's process ends and starts again, time     *)
(* passes, the relay loses a publisher.                                    *)
(***************************************************************************)
Crash(w) ==
  /\ worker[w].phase # "idle"
  /\ Release(w)
  /\ UNCHANGED <<storeVars, relayVars>>

\* A delivery is cut off long before the lease ends, so without suspension a
\* lease only lapses once its holder is gone.
Holds(w, r) == worker[w].phase # "idle" /\ worker[w].row.id = r.id

LeaseLapses(r) ==
  /\ r.owner # NoWorker /\ ~r.lapsed
  /\ MaySuspend \/ ~Holds(r.owner, r)
  /\ queue' = Replace(queue, r, [r EXCEPT !.lapsed = TRUE])
  /\ UNCHANGED <<registered, purged, covered, mapping, operation, worker,
                 relayVars>>

BackoffElapses(r) ==
  /\ ~r.ready
  /\ queue' = Replace(queue, r, [r EXCEPT !.ready = TRUE])
  /\ UNCHANGED <<registered, purged, covered, mapping, operation, worker,
                 relayVars>>

RelayForgets(k) ==
  /\ k \in allowed
  /\ drifts < MaxDrift
  /\ allowed' = allowed \ {k}
  /\ drifts' = drifts + 1
  /\ UNCHANGED <<storeVars, worker, accepted, late>>

(***************************************************************************)
(* Specifications.  BridgeSpec has the operations the bridge calls; Spec   *)
(* has all operations of the store.                                        *)
(***************************************************************************)
Sync ==
  \/ \E s \in Source, v \in Version \cup {NoVersion} :
       EnqueueEvent(s, v) \/ EnqueueUpdate(s, v)
  \/ \E s \in Source : EnqueueDelete(s)
  \/ \E x, y \in Source, vx, vy \in Version : ReconcileBatch(x, vx, y, vy)
  \/ \E k \in Pubkey : EnqueuePurge(k)

OtherOperations ==
  \/ \E k \in Pubkey, op \in Operation : EnqueueOutbox(k, op)
  \/ \E s \in Source : SaveEventAndEnqueue(s) \/ DeleteEventBySourceURI(s)
  \/ \E k \in Pubkey : SetPublisherRegistered(k) \/ ClearPublisherRegistration(k)

Dispatch(w) ==
  \/ ClaimOutbox(w) \/ Poll(w)
  \/ RelayAnswers(w) \/ DeliveryFails(w) \/ DeliveryTimesOut(w)
  \/ Finish(w)

Environment ==
  \/ \E w \in Worker : Crash(w)
  \/ \E r \in queue.rows : LeaseLapses(r) \/ BackoffElapses(r)
  \/ \E m \in late : LateArrival(m)
  \/ \E k \in Pubkey : RelayForgets(k)

BridgeNext == Sync \/ Environment \/ \E w \in Worker : Dispatch(w)
Next == BridgeNext \/ OtherOperations

BridgeSpec == Init /\ [][BridgeNext]_vars
Spec == Init /\ [][Next]_vars

\* Run keeps dispatching; backoffs and leases end; a delivery that is tried
\* again and again is answered some time, and its outcome written some time.
Fairness ==
  /\ \A w \in Worker :
       /\ WF_vars(ClaimOutbox(w))
       /\ SF_vars(RelayAnswers(w))
       /\ WF_vars(Finish(w))
       /\ SF_vars(Finish(w) /\ worker[w].phase = "ok")
       /\ SF_vars(Finish(w) /\ worker[w].phase = "restricted")
  /\ WF_vars(\E r \in queue.rows : LeaseLapses(r))
  /\ WF_vars(\E r \in queue.rows : BackoffElapses(r))

FairSpec == BridgeSpec /\ Fairness

(***************************************************************************)
(* Invariants of every operation of the store.                             *)
(***************************************************************************)
\* Every variable stays within its type; a worker past its claim remembers a
\* row.
TypeOK ==
  /\ queue \in [rows : SUBSET Row, last : [Pubkey -> Nat], nextId : Nat,
                issued : [Pubkey -> Nat]]
  /\ registered \in SUBSET Pubkey
  /\ purged \in SUBSET Pubkey
  /\ covered \in [Pubkey -> SUBSET Nat]
  /\ mapping \in [Source -> Nat]
  /\ operation \in [Source -> Version \cup {NoVersion}]
  /\ worker \in [Worker -> [phase : Phase, row : Row \cup {NoRow}]]
  /\ \A w \in Worker : worker[w].phase # "idle" => worker[w].row \in Row
  /\ allowed \in SUBSET Pubkey
  /\ accepted \in [Pubkey -> SUBSET Nat]
  /\ late \in SUBSET Request
  /\ drifts \in Nat

\* No two rows of an aggregate share a sequence number after any transaction,
\* nor do two rows share an id, although recovery renumbers rows that are
\* already queued and inserts between them.
UniqueSequences ==
  /\ \A r, p \in queue.rows : r.key = p.key /\ r.seq = p.seq => r = p
  /\ \A r, p \in queue.rows : r.id = p.id => r = p

\* A worker that is about to deliver an event, and a request still on its way
\* to the relay, are never ahead of an older event that is still queued, even
\* when the worker has lost its claim to another one.
NoOvertaking ==
  /\ \A w \in Worker, r \in queue.rows :
       (/\ worker[w].phase # "idle" /\ worker[w].row.op = Publish
        /\ r.op = Publish /\ r.key = worker[w].row.key)
       => worker[w].row.ticket <= r.ticket
  /\ \A m \in late, r \in queue.rows :
       m.op = Publish /\ r.op = Publish /\ r.key = m.key => m.ticket <= r.ticket

\* The relay accepts a publisher's events in the order they were enqueued:
\* when it has one, it has every earlier one (duplicates do not count).
DeliveredInOrder ==
  \A k \in Pubkey : \A t \in accepted[k] : 1..t \subseteq accepted[k]

\* An event that was enqueued is queued until the relay has accepted it:
\* neither a lost claim, a crash, a retry nor a recovery drops it.
NothingLost ==
  \A k \in Pubkey : \A t \in 1..queue.issued[k] :
    \/ t \in accepted[k]
    \/ \E r \in queue.rows : r.key = k /\ r.op = Publish /\ r.ticket = t

\* Once a publisher is purged nothing of it is queued behind its unallow:
\* concurrent enqueues and recoveries all end up in front of it.
PurgeIsLast ==
  \A r, p \in queue.rows :
    (/\ r.key \in purged /\ p.key = r.key
     /\ r.op = Unallow /\ p.op # Unallow) => p.seq < r.seq

\* The deletion a purge queued names every event still mapped for the
\* publisher: no mapping appears between the purge and its unallow.
PurgeCoversMappings ==
  \A s \in Source :
    Author[s] \in purged => mapping[s] \in covered[Author[s]] \cup {0}

(***************************************************************************)
(* Invariants of the operations the bridge calls.                          *)
(***************************************************************************)
\* Every queued event finds its publisher registered or an allow in front of
\* it, so the relay refuses it only if the relay forgot the publisher.
PublishCovered ==
  \A r \in queue.rows : r.op = Publish =>
    \/ r.key \in registered
    \/ \E p \in queue.rows : p.key = r.key /\ p.op = Allow /\ p.seq < r.seq

\* A publisher is never both registered and waiting to be, and never has two
\* registrations queued.
OneRegistration ==
  /\ \A r \in queue.rows : r.op = Allow => r.key \notin registered
  /\ \A r, p \in queue.rows : r.op = Allow /\ p.op = Allow /\ r.key = p.key
                                => r = p

\* Recovery is the only operation that may push the outbox over its limit, and
\* by no more than one registration per publisher.
OutboxBounded ==
  /\ Cardinality({r \in queue.rows : r.op # Allow}) <= Limit
  /\ Cardinality(queue.rows) <= Limit + Cardinality(Pubkey)

\* When the last row of a purged publisher is gone, the relay no longer allows
\* it.  (For runs without suspended workers and late requests.)
PurgedNotAllowed ==
  \A k \in purged : RowsOf(queue, k) = {} => k \notin allowed

(***************************************************************************)
(* The outbox implements a channel per publisher.                          *)
(***************************************************************************)
Channel == INSTANCE FifoChannel WITH sent <- queue.issued, received <- accepted

\* Every step of the store, the dispatchers and the relay sends, receives the
\* next event of one publisher, or changes nothing a caller can see.
ChannelSafe == Channel!SafeSpec

\* Under the dispatcher's fairness every event that was enqueued is accepted by
\* the relay some time, in order.
ChannelLive == Channel!Spec

(***************************************************************************)
(* The inductive invariant behind the invariants of all operations.        *)
(***************************************************************************)
QueueType == [rows : SUBSET Row, last : [Pubkey -> Nat], nextId : Nat,
              issued : [Pubkey -> Nat]]

\* The queue on its own: ids and sequence numbers are fresh and unique, tickets
\* grow with sequence numbers, and only the head of an aggregate is claimed.
QueueInv(q) ==
  /\ q \in QueueType
  /\ \A r \in q.rows : r.id < q.nextId /\ r.seq <= q.last[r.key]
  /\ \A r, p \in q.rows : r.id = p.id => r = p
  /\ \A r, p \in q.rows : r.key = p.key /\ r.seq = p.seq => r = p
  /\ \A r \in q.rows : r.op = Publish => r.ticket \in 1..q.issued[r.key]
  /\ \A r, p \in q.rows :
       r.op = Publish /\ p.op = Publish /\ r.key = p.key /\ r.seq < p.seq
         => r.ticket < p.ticket
  /\ \A r \in q.rows : r.owner # NoWorker => IsHead(q, r)

\* A worker that lost its claim finds nothing under its id and token; one that
\* still has it finds the row it was given.  A delivered event is accepted.
WorkerInv ==
  \A w \in Worker : worker[w].phase # "idle" =>
    LET x == worker[w].row IN
    /\ x.id < queue.nextId
    /\ x.op = Publish => x.ticket \in 1..queue.issued[x.key]
    /\ \A r \in queue.rows : r.id = x.id /\ r.owner = w =>
         r.key = x.key /\ r.op = x.op /\ r.ticket = x.ticket
    /\ x.op = Publish /\ worker[w].phase = "ok" => x.ticket \in accepted[x.key]

LateInv ==
  \A m \in late : m.op = Publish => m.ticket \in 1..queue.issued[m.key]

AcceptedPrefix ==
  \A k \in Pubkey : \E n \in 0..queue.issued[k] : accepted[k] = 1..n

Delivery ==
  WorkerInv /\ LateInv /\ NoOvertaking /\ AcceptedPrefix /\ NothingLost

IndInv ==
  TypeOK /\ QueueInv(queue) /\ Delivery /\ PurgeIsLast /\ PurgeCoversMappings
=============================================================================
