------------------------ MODULE OutboxBridgeProofs --------------------------
(***************************************************************************)
(* Proofs about the operations the bridge calls: registrations always      *)
(* precede the events that need them, and only recoveries take the outbox  *)
(* over its limit.  The inductive invariant BridgeInv adds to IndInv that  *)
(* only purged publishers have an unallow queued.                          *)
(***************************************************************************)
EXTENDS OutboxProofs, FiniteSetTheorems

\* PublishCovered, OneRegistration and unallows only of purged publishers, as
\* a predicate of a queue, the registrations R and the purges P.
RegInv(q, R, P) ==
  /\ \A r \in q.rows : r.op = Publish =>
       \/ r.key \in R
       \/ \E p \in q.rows : p.key = r.key /\ p.op = Allow /\ p.seq < r.seq
  /\ \A r \in q.rows : r.op = Allow => r.key \notin R
  /\ \A r, p \in q.rows : r.op = Allow /\ p.op = Allow /\ r.key = p.key => r = p
  /\ \A r \in q.rows : r.op = Unallow => r.key \in P

BridgeInv == IndInv /\ RegInv(queue, registered, purged)

\* A publish needs a registration, done or queued; an allow needs that there is
\* none; an unallow needs the purge marker.
LEMMA EnqueueRegInv ==
  ASSUME NEW q, QueueInv(q), NEW R, NEW P, RegInv(q, R, P), NEW k \in Pubkey,
         NEW op \in Operation,
         op = Publish => k \in R \/ Pending(q, k, Allow),
         op = Allow => k \notin R /\ ~Pending(q, k, Allow),
         op = Unallow => k \in P
  PROVE  RegInv(Enqueue(q, k, op), R, P)
<1> DEFINE q2 == Enqueue(q, k, op)
           a == NewRow(q.nextId, k, q.last[k] + 1, op,
                       IF op = Publish THEN q.issued[k] + 1 ELSE 0)
<1>1. /\ q2.rows = q.rows \cup {a}
      /\ a.key = k /\ a.op = op /\ a.seq = q.last[k] + 1
  BY Zenon DEF Enqueue, NewRow
<1>2. \A r \in q.rows : r.key = k => r.seq < a.seq
  BY <1>1 DEF QueueInv, QueueType, Row
<1>3. Allow # Publish /\ Allow # Unallow /\ Publish # Unallow
  BY Zenon DEF Allow, Publish, Unallow
<1> HIDE DEF q2, a
<1>4. \A r \in q2.rows : r.op = Publish =>
        \/ r.key \in R
        \/ \E p \in q2.rows : p.key = r.key /\ p.op = Allow /\ p.seq < r.seq
  BY <1>1, <1>2, Zenon DEF RegInv, Pending
<1>5. \A r \in q2.rows : r.op = Allow => r.key \notin R
  BY <1>1, Zenon DEF RegInv
<1>6. \A r, p \in q2.rows : r.op = Allow /\ p.op = Allow /\ r.key = p.key => r = p
  BY <1>1, Zenon DEF RegInv, Pending
<1>7. \A r \in q2.rows : r.op = Unallow => r.key \in P
  BY <1>1, Zenon DEF RegInv
<1> QED
  BY <1>4, <1>5, <1>6, <1>7 DEF RegInv, q2

\* A publish finds its publisher registered or queues the registration first.
LEMMA EnqueuePublishRegInv ==
  ASSUME NEW q, QueueInv(q), NEW P, RegInv(q, registered, P), NEW k \in Pubkey
  PROVE  /\ RegInv(EnqueuePublish(q, k), registered, P)
         /\ QueueInv(EnqueuePublish(q, k))
         /\ RegisteredOrPending(EnqueuePublish(q, k), k)
<1> DEFINE p == WithAllow(q, k)
<1>0. Allow \in Operation /\ Publish \in Operation
      /\ Allow # Publish /\ Allow # Unallow /\ Publish # Unallow
  BY Zenon DEF Operation, Allow, Publish, Unallow
<1>1. QueueInv(p) /\ RegInv(p, registered, P) /\ RegisteredOrPending(p, k)
  <2>1. CASE RegisteredOrPending(q, k)
    BY <2>1, Zenon DEF WithAllow
  <2>2. CASE ~RegisteredOrPending(q, k)
    <3>1. p = Enqueue(q, k, Allow)
      BY <2>2, Zenon DEF WithAllow
    <3>2. Pending(p, k, Allow)
      <4> DEFINE a == NewRow(q.nextId, k, q.last[k] + 1, Allow, 0)
      <4>1. a \in p.rows /\ a.key = k /\ a.op = Allow
        BY <1>0, <3>1 DEF Enqueue, NewRow
      <4> QED
        BY <4>1, Zenon DEF Pending
    <3>3. QueueInv(p)
      BY <1>0, <3>1, EnqueueQueueInv, Zenon
    <3>4. RegInv(p, registered, P)
      BY <1>0, <2>2, <3>1, EnqueueRegInv DEF RegisteredOrPending
    <3> QED
      BY <3>2, <3>3, <3>4, Zenon DEF RegisteredOrPending
  <2> QED
    BY <2>1, <2>2, Zenon
<1>2. EnqueuePublish(q, k) = Enqueue(p, k, Publish)
  BY Zenon DEF EnqueuePublish
<1> HIDE DEF p
<1>3. QueueInv(Enqueue(p, k, Publish)) /\ RegInv(Enqueue(p, k, Publish), registered, P)
  BY <1>0, <1>1, EnqueueQueueInv, EnqueueRegInv, Zenon DEF RegisteredOrPending
<1>4. RegisteredOrPending(Enqueue(p, k, Publish), k)
  BY <1>1, Zenon DEF RegisteredOrPending, Pending, Enqueue
<1> QED
  BY <1>2, <1>3, <1>4, Zenon

\* The enqueue operations the bridge calls keep registrations in front of events.
LEMMA SyncRegInv ==
  ASSUME BridgeInv, Sync
  PROVE  RegInv(queue', registered', purged')
<1>0. /\ QueueInv(queue) /\ RegInv(queue, registered, purged)
      /\ \A s \in Source : Author[s] \in Pubkey
      /\ Publish \in Operation /\ Unallow \in Operation
      /\ Allow # Publish /\ Allow # Unallow /\ Publish # Unallow
  BY AuthorAssumption, Zenon DEF BridgeInv, IndInv, Operation, Allow, Publish, Unallow
<1>1. ASSUME NEW s \in Source, NEW v \in Version \cup {NoVersion}, EnqueueEvent(s, v)
      PROVE  RegInv(queue', registered', purged')
  BY <1>0, <1>1, EnqueuePublishRegInv, Zenon DEF EnqueueEvent
<1>2. ASSUME NEW s \in Source, EnqueueDelete(s)
      PROVE  RegInv(queue', registered', purged')
  BY <1>0, <1>2, EnqueuePublishRegInv DEF EnqueueDelete
<1>3. ASSUME NEW s \in Source, NEW v \in Version \cup {NoVersion}, EnqueueUpdate(s, v)
      PROVE  RegInv(queue', registered', purged')
  <2> DEFINE p == EnqueuePublish(queue, Author[s])
  <2>1. QueueInv(p) /\ RegInv(p, registered, purged) /\ RegisteredOrPending(p, Author[s])
    BY <1>0, EnqueuePublishRegInv, Zenon
  <2>2. queue' = Enqueue(p, Author[s], Publish) /\ UNCHANGED <<registered, purged>>
    BY <1>3, Zenon DEF EnqueueUpdate
  <2> HIDE DEF p
  <2> QED
    BY <1>0, <2>1, <2>2, EnqueueRegInv DEF RegisteredOrPending
<1>4. ASSUME NEW x \in Source, NEW y \in Source, NEW vx \in Version, NEW vy \in Version,
             ReconcileBatch(x, vx, y, vy)
      PROVE  RegInv(queue', registered', purged')
  <2> DEFINE p == IF Changed(x, vx) THEN EnqueuePublish(queue, Author[x]) ELSE queue
  <2>1. QueueInv(p) /\ RegInv(p, registered, purged)
    BY <1>0, EnqueuePublishRegInv, Zenon
  <2>2. /\ queue' = p \/ queue' = EnqueuePublish(p, Author[y])
        /\ UNCHANGED <<registered, purged>>
    BY <1>4, Zenon DEF ReconcileBatch
  <2> HIDE DEF p
  <2> QED
    BY <1>0, <2>1, <2>2, EnqueuePublishRegInv
<1>5. ASSUME NEW k \in Pubkey, EnqueuePurge(k)
      PROVE  RegInv(queue', registered', purged')
  <2> DEFINE p == Enqueue(queue, k, Publish)
  <2>1. /\ k \in registered /\ registered' = registered /\ purged' = purged \cup {k}
        /\ queue' = Enqueue(p, k, Unallow)
    BY <1>5, Zenon DEF EnqueuePurge
  <2>2. QueueInv(p)
    BY <1>0, EnqueueQueueInv, Zenon
  <2>3. RegInv(queue, registered, purged')
    BY <1>0, <2>1, Zenon DEF RegInv
  <2>4. RegInv(p, registered, purged')
    BY <1>0, <2>1, <2>3, EnqueueRegInv
  <2> HIDE DEF p
  <2> QED
    BY <1>0, <2>1, <2>2, <2>4, EnqueueRegInv
<1> QED
  BY <1>1, <1>2, <1>3, <1>4, <1>5 DEF Sync

\* Claims, leases, backoffs and retries keep the key, the place and the
\* operation of a row.
LEMMA ReplaceRegInv ==
  ASSUME BridgeInv, NEW r \in queue.rows, NEW new, new.key = r.key, new.seq = r.seq,
         new.op = r.op, queue' = Replace(queue, r, new)
  PROVE  RegInv(queue', registered, purged)
<1>1. queue'.rows = (queue.rows \ {r}) \cup {new}
  BY Zenon DEF Replace, BridgeInv, IndInv, TypeOK
<1>2. \A y \in queue'.rows : \E x \in queue.rows :
        /\ x.key = y.key /\ x.seq = y.seq /\ x.op = y.op
        /\ y = new <=> x = r
  <2>1. SUFFICES ASSUME NEW y \in queue'.rows
                 PROVE  \E x \in queue.rows :
                          /\ x.key = y.key /\ x.seq = y.seq /\ x.op = y.op
                          /\ y = new <=> x = r
    BY Zenon
  <2>2. CASE y = new
    BY <2>2, Zenon
  <2>3. CASE y # new
    BY <1>1, <2>3, Zenon
  <2> QED
    BY <2>2, <2>3
<1>3. \A x \in queue.rows : \E y \in queue'.rows :
        x.key = y.key /\ x.seq = y.seq /\ x.op = y.op
  BY <1>1, Zenon
<1>4. \A y \in queue'.rows : y.op = Publish =>
        \/ y.key \in registered
        \/ \E p \in queue'.rows : p.key = y.key /\ p.op = Allow /\ p.seq < y.seq
  BY <1>2, <1>3 DEF BridgeInv, RegInv
<1>5. \A y, z \in queue'.rows : y.op = Allow /\ z.op = Allow /\ y.key = z.key => y = z
  BY <1>1 DEF BridgeInv, RegInv
<1>6. \A y \in queue'.rows : /\ y.op = Allow => y.key \notin registered
                             /\ y.op = Unallow => y.key \in purged
  BY <1>2 DEF BridgeInv, RegInv
<1> QED
  BY <1>4, <1>5, <1>6 DEF RegInv

\* A row that is removed is the head of its aggregate: an allow leaves events
\* behind it, which its registration now covers; an unallow leaves nothing.
LEMMA RemoveRegInv ==
  ASSUME BridgeInv, NEW r \in queue.rows, IsHead(queue, r), NEW R,
         queue' = Remove(queue, r),
         \/ r.op = Publish /\ R = registered
         \/ r.op = Allow /\ R = registered \cup {r.key}
         \/ r.op = Unallow /\ R = registered \ {r.key}
  PROVE  RegInv(queue', R, purged)
<1>0. /\ Allow # Publish /\ Allow # Unallow /\ Publish # Unallow
      /\ RegInv(queue, registered, purged)
      /\ \A x \in queue.rows : x.seq \in Nat
  BY Zenon DEF Allow, Publish, Unallow, BridgeInv, IndInv, TypeOK, Row
<1>1. queue'.rows = queue.rows \ {r}
  BY Zenon DEF Remove, BridgeInv, IndInv, TypeOK
<1>2. CASE r.op = Publish /\ R = registered
  BY <1>0, <1>1, <1>2, Zenon DEF RegInv
<1>3. CASE r.op = Allow /\ R = registered \cup {r.key}
  BY <1>0, <1>1, <1>3, Zenon DEF RegInv
<1>4. CASE r.op = Unallow /\ R = registered \ {r.key}
  <2>1. \A x \in queue.rows : x.key = r.key => x.op = Unallow
    <3> SUFFICES ASSUME NEW x \in queue.rows, x.key = r.key, x.op # Unallow
                 PROVE  FALSE
      BY Zenon
    <3>1. r.key \in purged
      BY <1>0, <1>4, Zenon DEF RegInv
    <3>2. x.seq < r.seq
      BY <1>4, <3>1, Zenon DEF BridgeInv, IndInv, PurgeIsLast
    <3>3. r.seq <= x.seq
      BY Zenon DEF IsHead
    <3> QED
      BY <1>0, <3>2, <3>3
  <2>2. \A x \in queue'.rows : x.op # Unallow =>
          (x.key \in R <=> x.key \in registered)
    BY <1>1, <1>4, <2>1, Zenon
  <2>3. \A x \in queue.rows : x.op = Allow => x \in queue'.rows
    BY <1>0, <1>1, <1>4
  <2> QED
    BY <1>0, <1>1, <2>2, <2>3 DEF RegInv
<1> QED
  BY <1>2, <1>3, <1>4, Zenon

\* The rejected event is a head, so nothing covered it but the registration the
\* recovery clears: no other allow of the publisher is queued.
LEMMA RecoverRegInv ==
  ASSUME BridgeInv, NEW r \in queue.rows, r.op = Publish, IsHead(queue, r),
         queue' = Recover(queue, r)
  PROVE  RegInv(queue', registered \ {r.key}, purged)
<1> DEFINE a == NewRow(r.id, r.key, r.seq, Allow, 0)
           b == NewRow(queue.nextId, r.key, r.seq + 1, Publish, r.ticket)
<1>0. /\ Allow # Publish /\ Allow # Unallow /\ Publish # Unallow
      /\ RegInv(queue, registered, purged) /\ QueueInv(queue)
      /\ \A x \in queue.rows : x.seq \in Nat
  BY Zenon DEF Allow, Publish, Unallow, BridgeInv, IndInv, TypeOK, Row
<1>1. Recovered(queue, r, queue', a, b)
  BY <1>0, RecoverRows
<1> HIDE DEF a, b
<1>2. /\ a \in queue'.rows /\ a.key = r.key /\ a.seq = r.seq /\ a.op = Allow
      /\ b.key = r.key /\ b.seq = r.seq + 1 /\ b.op = Publish
  BY <1>1 DEF Recovered
<1>3. \A y \in queue'.rows : y = a \/ y = b \/ \E x \in queue.rows \ {r} :
        /\ y = Shifted(r, x) /\ y.key = x.key /\ y.op = x.op
        /\ y.key # r.key => y.seq = x.seq
        /\ y.key = r.key => y.seq = x.seq + 1 /\ x.seq > r.seq
  BY <1>1 DEF Recovered
<1>4. r.key \in registered
  <2> SUFFICES ASSUME r.key \notin registered PROVE FALSE
    BY Zenon
  <2>1. PICK p \in queue.rows : p.key = r.key /\ p.seq < r.seq
    BY <1>0, Zenon DEF RegInv
  <2>2. r.seq <= p.seq
    BY <2>1, Zenon DEF IsHead
  <2> QED
    BY <1>0, <2>1, <2>2
<1>5. \A x \in queue.rows : x.op = Allow => x.key # r.key
  BY <1>0, <1>4 DEF RegInv
<1>6. \A y \in queue'.rows : y.op = Allow =>
        y = a \/ (y.key # r.key /\ \E x \in queue.rows :
                    y = Shifted(r, x) /\ x.op = Allow /\ x.key = y.key)
  BY <1>0, <1>2, <1>3, <1>5
<1>7. \A x \in queue.rows : x.key # r.key => Shifted(r, x) = x /\ x \in queue'.rows
  <2>1. \A x \in queue.rows : x.key # r.key => Shifted(r, x) = x
    BY Zenon DEF Shifted
  <2> QED
    BY <2>1, Zenon DEF Recover
<1>8. \A y \in queue'.rows : y.op = Publish =>
        \/ y.key \in registered \ {r.key}
        \/ \E p \in queue'.rows : p.key = y.key /\ p.op = Allow /\ p.seq < y.seq
  <2> SUFFICES ASSUME NEW y \in queue'.rows, y.op = Publish,
                      y.key \notin registered \ {r.key}
               PROVE  \E p \in queue'.rows : p.key = y.key /\ p.op = Allow /\ p.seq < y.seq
    BY Zenon
  <2>1. CASE y.key = r.key
    <3>1. y.seq > a.seq
      BY <1>0, <1>2, <1>3, <2>1
    <3> QED
      BY <1>0, <1>2, <1>3, <2>1, <3>1, Zenon
  <2>2. CASE y.key # r.key
    <3>1. PICK x \in queue.rows \ {r} : y = Shifted(r, x) /\ y.key = x.key
      BY <1>2, <1>3, <2>2, Zenon
    <3>2. y = x
      BY <1>7, <2>2, <3>1, Zenon
    <3>3. PICK p \in queue.rows : p.key = y.key /\ p.op = Allow /\ p.seq < y.seq
      BY <1>0, <2>2, <3>2 DEF RegInv
    <3> QED
      BY <1>7, <2>2, <3>3, Zenon
  <2> QED
    BY <2>1, <2>2, Zenon
<1>9. \A y \in queue'.rows : y.op = Allow => y.key \notin registered \ {r.key}
  BY <1>0, <1>2, <1>6 DEF RegInv
<1>10. \A y, z \in queue'.rows : y.op = Allow /\ z.op = Allow /\ y.key = z.key => y = z
  BY <1>0, <1>2, <1>6, <1>7 DEF RegInv
<1>11. \A y \in queue'.rows : y.op = Unallow => y.key \in purged
  BY <1>0, <1>2, <1>3 DEF RegInv
<1> QED
  BY <1>8, <1>9, <1>10, <1>11 DEF RegInv

\* Every outcome DispatchOne can write keeps registrations in front of events.
LEMMA FinishRegInv ==
  ASSUME BridgeInv, NEW w \in Worker, Finish(w)
  PROVE  RegInv(queue', registered', purged')
<1>1. worker[w].phase # "idle" /\ purged' = purged
  BY Zenon DEF Finish
<1>2. RegInv(queue, registered, purged) /\ QueueInv(queue) /\ IndInv
  BY Zenon DEF BridgeInv, IndInv
<1>3. CASE ClaimLost(w)
  BY <1>1, <1>2, <1>3 DEF ClaimLost
<1>4. CASE FinishClaimed(w)
  <2>1. PICK r \in queue.rows :
          /\ Owned(queue, w, r)
          /\ \/ CompleteOutbox(w, r)
             \/ CompletePublisherRegistration(w, r)
             \/ CompletePublisherUnregistration(w, r)
             \/ RecoverPublisherRegistration(w, r)
             \/ RetryOutbox(r)
    BY <1>4 DEF FinishClaimed
  <2>2. /\ r.key = worker[w].row.key /\ r.op = worker[w].row.op
        /\ r \in Row /\ r.owner # NoWorker
    BY <1>1, <1>2, <2>1, OwnedRow
  <2>3. IsHead(queue, r)
    BY <1>2, <2>2 DEF QueueInv
  <2>4. CASE CompleteOutbox(w, r)
    BY <1>1, <2>2, <2>3, <2>4, RemoveRegInv DEF CompleteOutbox
  <2>5. CASE CompletePublisherRegistration(w, r)
    BY <1>1, <2>2, <2>3, <2>5, RemoveRegInv DEF CompletePublisherRegistration
  <2>6. CASE CompletePublisherUnregistration(w, r)
    BY <1>1, <2>2, <2>3, <2>6, RemoveRegInv DEF CompletePublisherUnregistration
  <2>7. CASE RecoverPublisherRegistration(w, r)
    BY <1>1, <2>3, <2>7, RecoverRegInv DEF RecoverPublisherRegistration
  <2>8. CASE RetryOutbox(r)
    <3> DEFINE new == [r EXCEPT !.owner = NoWorker, !.lapsed = FALSE, !.ready = FALSE]
    <3>1. new.key = r.key /\ new.seq = r.seq /\ new.op = r.op
      BY <2>2 DEF Row
    <3>2. queue' = Replace(queue, r, new) /\ registered' = registered
      BY <2>8 DEF RetryOutbox
    <3> HIDE DEF new
    <3> QED
      BY <1>1, <3>1, <3>2, ReplaceRegInv
  <2> QED
    BY <2>1, <2>4, <2>5, <2>6, <2>7, <2>8
<1> QED
  BY <1>3, <1>4, Zenon DEF Finish

\* A claim keeps registrations in front of events.
LEMMA ClaimRegInv ==
  ASSUME BridgeInv, NEW w \in Worker, ClaimOutbox(w)
  PROVE  RegInv(queue', registered', purged')
<1>1. PICK r \in queue.rows :
        queue' = Replace(queue, r, [r EXCEPT !.owner = w, !.lapsed = FALSE])
  BY Zenon DEF ClaimOutbox
<1> DEFINE new == [r EXCEPT !.owner = w, !.lapsed = FALSE]
<1>2. r \in Row
  BY Zenon DEF BridgeInv, IndInv, TypeOK
<1>3. new.key = r.key /\ new.seq = r.seq /\ new.op = r.op /\ queue' = Replace(queue, r, new)
  BY <1>1, <1>2 DEF Row
<1>4. UNCHANGED <<registered, purged>>
  BY Zenon DEF ClaimOutbox
<1> HIDE DEF new
<1> QED
  BY <1>3, <1>4, ReplaceRegInv

\* The end of a lease or a backoff keeps registrations in front of events.
LEMMA TimeRegInv ==
  ASSUME BridgeInv, NEW r \in queue.rows, LeaseLapses(r) \/ BackoffElapses(r)
  PROVE  RegInv(queue', registered', purged')
<1>1. r \in Row
  BY Zenon DEF BridgeInv, IndInv, TypeOK
<1>2. PICK new \in {[r EXCEPT !.lapsed = TRUE], [r EXCEPT !.ready = TRUE]} :
        queue' = Replace(queue, r, new)
  BY Zenon DEF LeaseLapses, BackoffElapses
<1>3. new.key = r.key /\ new.seq = r.seq /\ new.op = r.op
  BY <1>1, <1>2 DEF Row
<1>4. UNCHANGED <<registered, purged>>
  BY Zenon DEF LeaseLapses, BackoffElapses
<1> QED
  BY <1>2, <1>3, <1>4, ReplaceRegInv

\* Every step of the bridge keeps the invariant on registrations.
LEMMA NextBridgeInv ==
  ASSUME BridgeInv, [BridgeNext]_vars
  PROVE  BridgeInv'
<1>1. IndInv'
  BY NextIndInv DEF BridgeInv, Next
<1>2. SUFFICES RegInv(queue', registered', purged')
  BY <1>1 DEF BridgeInv
<1>3. RegInv(queue, registered, purged)
  BY Zenon DEF BridgeInv
<1>4. CASE Sync
  BY <1>4, SyncRegInv
<1>5. ASSUME NEW w \in Worker, Dispatch(w)
      PROVE  RegInv(queue', registered', purged')
  <2>1. CASE UNCHANGED <<queue, registered, purged>>
    BY <1>3, <2>1
  <2> QED
    BY <1>5, <2>1, FinishRegInv, ClaimRegInv
       DEF Dispatch, Poll, RelayAnswers, DeliveryFails, DeliveryTimesOut,
           storeVars, vars
<1>6. CASE Environment
  <2>1. CASE UNCHANGED <<queue, registered, purged>>
    BY <1>3, <2>1
  <2> QED
    BY <1>6, <2>1, TimeRegInv DEF Environment, Crash, LateArrival, RelayForgets, storeVars
<1>7. CASE UNCHANGED vars
  BY <1>3, <1>7 DEF vars
<1> QED
  BY <1>4, <1>5, <1>6, <1>7 DEF BridgeNext

\* The invariant on registrations holds in every state the operations of the
\* bridge reach.
THEOREM BridgeInvariance == BridgeSpec => []BridgeInv
<1>1. Init => BridgeInv
  BY InitIndInv DEF BridgeInv, Init, RegInv
<1>2. BridgeInv /\ [BridgeNext]_vars => BridgeInv'
  BY NextBridgeInv, Zenon
<1> QED
  BY <1>1, <1>2, PTL DEF BridgeSpec

\* In every state the operations of the bridge reach, a queued event finds its
\* publisher registered or an allow in front of it.
THEOREM RegistrationFirst == BridgeSpec => []PublishCovered
<1>1. BridgeInv => PublishCovered
  BY Zenon DEF BridgeInv, RegInv, PublishCovered
<1> QED
  BY <1>1, BridgeInvariance, PTL

\* In those states a publisher has at most one registration, done or queued.
THEOREM RegisteredOnce == BridgeSpec => []OneRegistration
<1>1. BridgeInv => OneRegistration
  BY Zenon DEF BridgeInv, RegInv, OneRegistration
<1> QED
  BY <1>1, BridgeInvariance, PTL

-----------------------------------------------------------------------------
(***************************************************************************)
(* The limit.                                                              *)
(***************************************************************************)

(* What counts against the limit: every row but the registrations, which a *)
(* recovery inserts unasked.                                               *)
Counted(q) == {r \in q.rows : r.op # Allow}

LimitInv(q) == IsFiniteSet(q.rows) /\ Cardinality(Counted(q)) <= Limit

\* An outbox that is within the limit counts no more rows than that.
LEMMA FitsLimit ==
  ASSUME NEW q, IsFiniteSet(q.rows), Cardinality(q.rows) <= Limit
  PROVE  LimitInv(q)
<1>1. Counted(q) \in SUBSET q.rows
  BY Zenon DEF Counted
<1>2. IsFiniteSet(Counted(q)) /\ Cardinality(Counted(q)) <= Cardinality(q.rows)
  BY <1>1, FS_Subset
<1>3. Cardinality(q.rows) \in Nat /\ Cardinality(Counted(q)) \in Nat /\ Limit \in Nat
  BY <1>2, FS_CardinalityType, BoundAssumption
<1> QED
  BY <1>2, <1>3 DEF LimitInv

\* One more element, at most one more in number.
LEMMA AddOne ==
  ASSUME NEW S, IsFiniteSet(S), NEW x
  PROVE  /\ IsFiniteSet(S \cup {x})
         /\ Cardinality(S) \in Nat /\ Cardinality(S \cup {x}) \in Nat
         /\ Cardinality(S \cup {x}) <= Cardinality(S) + 1
<1>1. IsFiniteSet(S \cup {x})
  BY FS_AddElement
<1>2. Cardinality(S) \in Nat /\ Cardinality(S \cup {x}) \in Nat
  BY <1>1, FS_CardinalityType
<1>3. Cardinality(S \cup {x}) \in {Cardinality(S), Cardinality(S) + 1}
  BY FS_AddElement
<1> QED
  BY <1>1, <1>2, <1>3

\* enqueueOutbox inserts one row.
LEMMA EnqueueCount ==
  ASSUME NEW q, IsFiniteSet(q.rows), NEW k, NEW op
  PROVE  /\ IsFiniteSet(Enqueue(q, k, op).rows)
         /\ Cardinality(q.rows) \in Nat /\ Cardinality(Enqueue(q, k, op).rows) \in Nat
         /\ Cardinality(Enqueue(q, k, op).rows) <= Cardinality(q.rows) + 1
<1>1. PICK a : Enqueue(q, k, op).rows = q.rows \cup {a}
  BY Zenon DEF Enqueue
<1> QED
  BY <1>1, AddOne, Zenon

\* A publish inserts as many rows as the operation asked the limit for.
LEMMA EnqueuePublishCount ==
  ASSUME NEW q, IsFiniteSet(q.rows), NEW k
  PROVE  /\ IsFiniteSet(EnqueuePublish(q, k).rows)
         /\ Cardinality(q.rows) \in Nat /\ Cardinality(EnqueuePublish(q, k).rows) \in Nat
         /\ Needed(q, k, 1) \in Nat
         /\ Cardinality(EnqueuePublish(q, k).rows) <= Cardinality(q.rows) + Needed(q, k, 1)
<1> DEFINE p == WithAllow(q, k)
<1>1. Cardinality(q.rows) \in Nat
  BY FS_CardinalityType
<1>2. CASE RegisteredOrPending(q, k)
  <2>1. p = q /\ Needed(q, k, 1) = 1
    BY <1>2 DEF WithAllow, Needed
  <2> QED
    BY <2>1, EnqueueCount DEF EnqueuePublish
<1>3. CASE ~RegisteredOrPending(q, k)
  <2>1. p = Enqueue(q, k, Allow) /\ Needed(q, k, 1) = 2
    BY <1>3 DEF WithAllow, Needed
  <2>2. /\ IsFiniteSet(p.rows) /\ Cardinality(p.rows) \in Nat
        /\ Cardinality(p.rows) <= Cardinality(q.rows) + 1
    BY <2>1, EnqueueCount
  <2>3. EnqueuePublish(q, k) = Enqueue(p, k, Publish)
    BY Zenon DEF EnqueuePublish
  <2> HIDE DEF p
  <2>4. /\ IsFiniteSet(Enqueue(p, k, Publish).rows)
        /\ Cardinality(Enqueue(p, k, Publish).rows) \in Nat
        /\ Cardinality(Enqueue(p, k, Publish).rows) <= Cardinality(p.rows) + 1
    BY <2>2, EnqueueCount
  <2> QED
    BY <1>1, <2>1, <2>2, <2>3, <2>4
<1> QED
  BY <1>2, <1>3

\* An enqueue keeps what is queued.
LEMMA EnqueueKeeps ==
  ASSUME NEW q, NEW k, NEW op
  PROVE  q.rows \subseteq Enqueue(q, k, op).rows
BY Zenon DEF Enqueue

\* Once a publisher has an event queued, another one needs one row; an event of
\* another publisher needs no more rows than before.
LEMMA NeededAfter ==
  ASSUME NEW q, NEW k, NEW j
  PROVE  /\ j = k => Needed(EnqueuePublish(q, k), j, 1) = 1
         /\ Needed(EnqueuePublish(q, k), j, 1) <= Needed(q, j, 1)
<1>1. Pending(q, j, Allow) => Pending(EnqueuePublish(q, k), j, Allow)
  BY Zenon DEF EnqueuePublish, WithAllow, Enqueue, Pending
<1>2. RegisteredOrPending(EnqueuePublish(q, k), k)
  <2>1. CASE RegisteredOrPending(q, k)
    BY <2>1, Zenon DEF EnqueuePublish, WithAllow, Enqueue, RegisteredOrPending, Pending
  <2>2. CASE ~RegisteredOrPending(q, k)
    <3> DEFINE a == NewRow(q.nextId, k, q.last[k] + 1, Allow, 0)
    <3>1. a \in Enqueue(q, k, Allow).rows /\ a.key = k /\ a.op = Allow
      BY Zenon DEF Enqueue, NewRow, Allow, Publish
    <3>2. EnqueuePublish(q, k) = Enqueue(Enqueue(q, k, Allow), k, Publish)
      BY <2>2 DEF EnqueuePublish, WithAllow
    <3>3. a \in EnqueuePublish(q, k).rows
      <4> HIDE DEF a
      <4> QED
        BY <3>1, <3>2, EnqueueKeeps
    <3> QED
      BY <3>1, <3>3 DEF RegisteredOrPending, Pending
  <2> QED
    BY <2>1, <2>2
<1>3. RegisteredOrPending(q, j) => RegisteredOrPending(EnqueuePublish(q, k), j)
  BY <1>1 DEF RegisteredOrPending
<1> QED
  BY <1>2, <1>3 DEF Needed

\* The enqueue operations of the bridge ask for the rows they insert.
LEMMA SyncLimit ==
  ASSUME LimitInv(queue), Sync
  PROVE  LimitInv(queue')
<1>0. /\ IsFiniteSet(queue.rows) /\ Cardinality(queue.rows) \in Nat /\ Limit \in Nat
  BY FS_CardinalityType, BoundAssumption DEF LimitInv
<1>1. ASSUME NEW k, Fits(Needed(queue, k, 1)), queue' = EnqueuePublish(queue, k)
      PROVE  LimitInv(queue')
  <2>1. IsFiniteSet(queue'.rows) /\ Cardinality(queue'.rows) <= Limit
    BY <1>0, <1>1, EnqueuePublishCount DEF Fits
  <2> QED
    BY <2>1, FitsLimit
<1>2. ASSUME NEW k, Fits(Needed(queue, k, 2)),
             queue' = Enqueue(EnqueuePublish(queue, k), k, Publish)
      PROVE  LimitInv(queue')
  <2> DEFINE p == EnqueuePublish(queue, k)
  <2>1. /\ IsFiniteSet(p.rows) /\ Cardinality(p.rows) \in Nat /\ Needed(queue, k, 1) \in Nat
        /\ Cardinality(p.rows) <= Cardinality(queue.rows) + Needed(queue, k, 1)
    BY <1>0, EnqueuePublishCount
  <2>2. Needed(queue, k, 2) = Needed(queue, k, 1) + 1
    BY DEF Needed
  <2> HIDE DEF p
  <2>3. /\ IsFiniteSet(Enqueue(p, k, Publish).rows)
        /\ Cardinality(Enqueue(p, k, Publish).rows) \in Nat
        /\ Cardinality(Enqueue(p, k, Publish).rows) <= Cardinality(p.rows) + 1
    BY <2>1, EnqueueCount
  <2>4. IsFiniteSet(queue'.rows) /\ Cardinality(queue'.rows) <= Limit
    BY <1>0, <1>2, <2>1, <2>2, <2>3 DEF Fits, p
  <2> QED
    BY <2>4, FitsLimit
<1>3. ASSUME NEW x \in Source, NEW y \in Source, NEW vx \in Version, NEW vy \in Version,
             ReconcileBatch(x, vx, y, vy)
      PROVE  LimitInv(queue')
  <2> DEFINE kx == Author[x]
             ky == Author[y]
             doX == Changed(x, vx)
             doY == x # y /\ Changed(y, vy)
             p == IF doX THEN EnqueuePublish(queue, kx) ELSE queue
             needX == IF doX THEN Needed(queue, kx, 1) ELSE 0
             needY == IF doY THEN IF doX /\ kx = ky THEN 1 ELSE Needed(queue, ky, 1) ELSE 0
  <2>1. Fits(needX + needY) /\ queue' = IF doY THEN EnqueuePublish(p, ky) ELSE p
    BY <1>3 DEF ReconcileBatch
  <2>2. /\ IsFiniteSet(p.rows) /\ Cardinality(p.rows) \in Nat /\ needX \in Nat
        /\ Cardinality(p.rows) <= Cardinality(queue.rows) + needX
    <3>1. CASE doX
      BY <1>0, <3>1, EnqueuePublishCount
    <3>2. CASE ~doX
      BY <1>0, <3>2
    <3> QED
      BY <3>1, <3>2
  <2>3. needY \in Nat /\ (doY => Needed(p, ky, 1) <= needY)
    <3>1. Needed(queue, ky, 1) \in Nat
      BY <1>0, EnqueuePublishCount
    <3>2. CASE doX
      <4>1. /\ ky = kx => Needed(EnqueuePublish(queue, kx), ky, 1) = 1
            /\ Needed(EnqueuePublish(queue, kx), ky, 1) <= Needed(queue, ky, 1)
        BY NeededAfter
      <4>2. p = EnqueuePublish(queue, kx)
        BY <3>2
      <4> HIDE DEF p, doX, doY, kx, ky
      <4> QED
        BY <3>1, <3>2, <4>1, <4>2
    <3>3. CASE ~doX
      BY <3>1, <3>3
    <3> QED
      BY <3>2, <3>3
  <2> HIDE DEF p, needX, needY, doX, doY, kx, ky
  <2>4. /\ IsFiniteSet(EnqueuePublish(p, ky).rows) /\ Needed(p, ky, 1) \in Nat
        /\ Cardinality(EnqueuePublish(p, ky).rows) \in Nat
        /\ Cardinality(EnqueuePublish(p, ky).rows) <= Cardinality(p.rows) + Needed(p, ky, 1)
    BY <2>2, EnqueuePublishCount
  <2>5. IsFiniteSet(queue'.rows) /\ Cardinality(queue'.rows) <= Limit
    BY <1>0, <2>1, <2>2, <2>3, <2>4 DEF Fits
  <2> QED
    BY <2>5, FitsLimit
<1>4. ASSUME NEW k, EnqueuePurge(k)
      PROVE  LimitInv(queue')
  <2> DEFINE p == Enqueue(queue, k, Publish)
  <2>1. Fits(2) /\ queue' = Enqueue(p, k, Unallow)
    BY <1>4 DEF EnqueuePurge
  <2>2. /\ IsFiniteSet(p.rows) /\ Cardinality(p.rows) \in Nat
        /\ Cardinality(p.rows) <= Cardinality(queue.rows) + 1
    BY <1>0, EnqueueCount
  <2> HIDE DEF p
  <2>3. /\ IsFiniteSet(Enqueue(p, k, Unallow).rows)
        /\ Cardinality(Enqueue(p, k, Unallow).rows) \in Nat
        /\ Cardinality(Enqueue(p, k, Unallow).rows) <= Cardinality(p.rows) + 1
    BY <2>2, EnqueueCount
  <2>4. IsFiniteSet(queue'.rows) /\ Cardinality(queue'.rows) <= Limit
    BY <1>0, <2>1, <2>2, <2>3 DEF Fits
  <2> QED
    BY <2>4, FitsLimit
<1> QED
  BY <1>1, <1>2, <1>3, <1>4, Zenon DEF Sync, EnqueueEvent, EnqueueUpdate, EnqueueDelete

\* Removing a row, or replacing it by one of the same operation, counts no more.
LEMMA ReplaceLimit ==
  ASSUME LimitInv(queue), NEW r \in queue.rows, NEW new, new.op = r.op,
         \/ queue'.rows = queue.rows \ {r}
         \/ queue'.rows = (queue.rows \ {r}) \cup {new}
  PROVE  LimitInv(queue')
<1> DEFINE C == Counted(queue)
<1>0. /\ IsFiniteSet(queue.rows) /\ C \subseteq queue.rows /\ Limit \in Nat
      /\ Cardinality(C) <= Limit
  BY BoundAssumption DEF LimitInv, Counted
<1>1. IsFiniteSet(queue.rows \ {r}) /\ IsFiniteSet((queue.rows \ {r}) \cup {new})
  BY <1>0, FS_RemoveElement, FS_AddElement, Zenon
<1>2. IsFiniteSet(queue'.rows)
  BY <1>1, Zenon
<1>3. IsFiniteSet(C) /\ Cardinality(C) \in Nat
  BY <1>0, FS_Subset, FS_CardinalityType
<1>4. CASE r.op = Allow
  <2>1. Counted(queue') \subseteq C
    BY <1>4, Zenon DEF Counted
  <2>2. Cardinality(Counted(queue')) <= Cardinality(C) /\ Cardinality(Counted(queue')) \in Nat
    BY <1>3, <2>1, FS_Subset, FS_CardinalityType
  <2> QED
    BY <1>0, <1>2, <1>3, <2>2 DEF LimitInv
<1>5. CASE r.op # Allow
  <2>1. r \in C /\ Counted(queue') \subseteq (C \ {r}) \cup {new}
    BY <1>5, Zenon DEF Counted
  <2>2. IsFiniteSet(C \ {r}) /\ Cardinality(C \ {r}) = Cardinality(C) - 1
    BY <1>3, <2>1, FS_RemoveElement, Zenon
  <2>3. /\ IsFiniteSet((C \ {r}) \cup {new}) /\ Cardinality((C \ {r}) \cup {new}) \in Nat
        /\ Cardinality((C \ {r}) \cup {new}) <= Cardinality(C \ {r}) + 1
    BY <2>2, AddOne, Zenon
  <2>4. /\ Cardinality(Counted(queue')) <= Cardinality((C \ {r}) \cup {new})
        /\ Cardinality(Counted(queue')) \in Nat
    BY <2>1, <2>3, FS_Subset, FS_CardinalityType
  <2> QED
    BY <1>0, <1>2, <1>3, <2>2, <2>3, <2>4 DEF LimitInv
<1> QED
  BY <1>4, <1>5

\* A recovery renumbers rows and inserts one event for the one it turns into a
\* registration.
LEMMA RecoverLimit ==
  ASSUME IndInv, LimitInv(queue), NEW r \in queue.rows, r.op = Publish,
         queue' = Recover(queue, r)
  PROVE  LimitInv(queue')
<1> DEFINE a == NewRow(r.id, r.key, r.seq, Allow, 0)
           b == NewRow(queue.nextId, r.key, r.seq + 1, Publish, r.ticket)
           Moved(S) == {Shifted(r, x) : x \in S}
           C == Counted(queue)
<1>0. /\ IsFiniteSet(queue.rows) /\ C \subseteq queue.rows /\ Limit \in Nat
      /\ Cardinality(C) <= Limit /\ r \in C
  BY BoundAssumption DEF LimitInv, Counted, Publish, Allow
<1>1. queue'.rows = Moved(queue.rows \ {r}) \cup {a, b}
  BY Zenon DEF Recover
<1>2. a.op = Allow /\ \A x \in queue.rows : Shifted(r, x).op = x.op
  <2>1. \A x \in queue.rows : x \in Row
    BY Zenon DEF IndInv, TypeOK
  <2> QED
    BY <2>1 DEF Shifted, Row, NewRow
<1> HIDE DEF a, b
<1>3. ASSUME NEW S, IsFiniteSet(S)
      PROVE  /\ IsFiniteSet(Moved(S)) /\ Cardinality(Moved(S)) <= Cardinality(S)
             /\ Cardinality(Moved(S)) \in Nat
  <2> DEFINE f == [x \in S |-> Shifted(r, x)]
  <2>1. f \in Surjection(S, Moved(S))
    BY Zenon DEF Surjection
  <2> QED
    BY <1>3, <2>1, FS_Surjection, FS_CardinalityType
<1>4. IsFiniteSet(queue'.rows)
  <2>1. IsFiniteSet(queue.rows \ {r})
    BY <1>0, FS_RemoveElement
  <2>2. IsFiniteSet(Moved(queue.rows \ {r}) \cup {a})
    BY <1>3, <2>1, FS_AddElement, Zenon
  <2>3. IsFiniteSet((Moved(queue.rows \ {r}) \cup {a}) \cup {b})
    BY <2>2, FS_AddElement
  <2>4. queue'.rows = (Moved(queue.rows \ {r}) \cup {a}) \cup {b}
    BY <1>1, Zenon
  <2> QED
    BY <2>3, <2>4
<1>5. Counted(queue') \subseteq Moved(C \ {r}) \cup {b}
  BY <1>1, <1>2 DEF Counted
<1>6. IsFiniteSet(C) /\ Cardinality(C) \in Nat
  BY <1>0, FS_Subset, FS_CardinalityType, Zenon
<1>7. IsFiniteSet(C \ {r}) /\ Cardinality(C \ {r}) = Cardinality(C) - 1
  BY <1>0, <1>6, FS_RemoveElement, Zenon
<1>8. /\ IsFiniteSet(Moved(C \ {r})) /\ Cardinality(Moved(C \ {r})) \in Nat
      /\ Cardinality(Moved(C \ {r})) <= Cardinality(C) - 1
  BY <1>3, <1>7
<1> HIDE DEF Moved, C
<1>9. /\ IsFiniteSet(Moved(C \ {r}) \cup {b}) /\ Cardinality(Moved(C \ {r}) \cup {b}) \in Nat
      /\ Cardinality(Moved(C \ {r}) \cup {b}) <= Cardinality(Moved(C \ {r})) + 1
  BY <1>8, AddOne, Zenon
<1>10. /\ Cardinality(Counted(queue')) <= Cardinality(Moved(C \ {r}) \cup {b})
       /\ Cardinality(Counted(queue')) \in Nat
  BY <1>5, <1>9, FS_Subset, FS_CardinalityType, Zenon
<1> QED
  BY <1>0, <1>4, <1>6, <1>8, <1>9, <1>10 DEF LimitInv

\* Whatever DispatchOne writes.
LEMMA FinishLimit ==
  ASSUME IndInv, LimitInv(queue), NEW w \in Worker, Finish(w)
  PROVE  LimitInv(queue')
<1>1. CASE queue' = queue
  BY <1>1, Zenon
<1>2. CASE FinishClaimed(w)
  <2>1. PICK r \in queue.rows :
          \/ queue' = Remove(queue, r)
          \/ r.op = Publish /\ queue' = Recover(queue, r)
          \/ RetryOutbox(r)
    BY <1>2 DEF FinishClaimed, CompleteOutbox, CompletePublisherRegistration,
                CompletePublisherUnregistration, RecoverPublisherRegistration
  <2>2. r \in Row /\ queue = [rows |-> queue.rows, last |-> queue.last,
                              nextId |-> queue.nextId, issued |-> queue.issued]
    BY Zenon DEF IndInv, TypeOK
  <2>3. CASE queue' = Remove(queue, r)
    <3>1. queue'.rows = queue.rows \ {r}
      BY <2>3 DEF Remove, IndInv, TypeOK
    <3> QED
      BY <3>1, ReplaceLimit
  <2>4. CASE r.op = Publish /\ queue' = Recover(queue, r)
    BY <2>4, RecoverLimit
  <2>5. CASE RetryOutbox(r)
    <3> DEFINE new == [r EXCEPT !.owner = NoWorker, !.lapsed = FALSE, !.ready = FALSE]
    <3>1. new.op = r.op
      BY <2>2 DEF Row
    <3>2. queue' = Replace(queue, r, new)
      BY <2>5 DEF RetryOutbox
    <3> HIDE DEF new
    <3>3. queue'.rows = (queue.rows \ {r}) \cup {new}
      BY <3>2 DEF Replace, IndInv, TypeOK
    <3> QED
      BY <3>1, <3>3, ReplaceLimit
  <2> QED
    BY <2>1, <2>3, <2>4, <2>5
<1> QED
  BY <1>1, <1>2 DEF Finish, ClaimLost

\* Every step of the bridge keeps the count within the limit.
LEMMA NextLimit ==
  ASSUME IndInv, LimitInv(queue), [BridgeNext]_vars
  PROVE  LimitInv(queue')
<1>1. CASE queue' = queue
  BY <1>1
<1>2. CASE Sync
  BY <1>2, SyncLimit
<1>3. ASSUME NEW w \in Worker, Finish(w) PROVE LimitInv(queue')
  BY <1>3, FinishLimit
<1>4. ASSUME NEW r \in queue.rows, NEW new, new.op = r.op, queue' = Replace(queue, r, new)
      PROVE  LimitInv(queue')
  <2>1. queue'.rows = (queue.rows \ {r}) \cup {new}
    BY <1>4 DEF Replace, IndInv, TypeOK
  <2> QED
    BY <1>4, <2>1, ReplaceLimit
<1>5. \A r \in queue.rows : r \in Row
  BY Zenon DEF IndInv, TypeOK
<1>6. ASSUME NEW w \in Worker, ClaimOutbox(w) PROVE LimitInv(queue')
  <2>1. PICK r \in queue.rows :
          queue' = Replace(queue, r, [r EXCEPT !.owner = w, !.lapsed = FALSE])
    BY <1>6, Zenon DEF ClaimOutbox
  <2>2. [r EXCEPT !.owner = w, !.lapsed = FALSE].op = r.op
    BY <1>5 DEF Row
  <2> QED
    BY <1>4, <2>1, <2>2, Zenon
<1>7. ASSUME NEW r \in queue.rows, LeaseLapses(r) \/ BackoffElapses(r) PROVE LimitInv(queue')
  <2>1. PICK new \in {[r EXCEPT !.lapsed = TRUE], [r EXCEPT !.ready = TRUE]} :
          queue' = Replace(queue, r, new)
    BY <1>7 DEF LeaseLapses, BackoffElapses
  <2>2. new.op = r.op
    BY <1>5, <2>1 DEF Row
  <2> QED
    BY <1>4, <2>1, <2>2
<1> QED
  BY <1>1, <1>2, <1>3, <1>6, <1>7, Zenon
     DEF BridgeNext, Dispatch, Environment, Poll, RelayAnswers, DeliveryFails, DeliveryTimesOut,
         Crash, LateArrival, RelayForgets, storeVars, vars

\* A publisher has at most one registration queued, so recoveries take the
\* outbox over the limit by no more than the number of publishers.
LEMMA BoundedByPublishers ==
  ASSUME BridgeInv, LimitInv(queue)
  PROVE  OutboxBounded
<1> DEFINE A == {r \in queue.rows : r.op = Allow}
           C == Counted(queue)
           f == [r \in A |-> r.key]
<1>0. Limit \in Nat /\ IsFiniteSet(queue.rows) /\ Cardinality(C) <= Limit
  BY BoundAssumption, Zenon DEF LimitInv
<1>1. f \in Injection(A, Pubkey)
  <2>1. \A r \in A : r.key \in Pubkey
    BY Zenon DEF BridgeInv, IndInv, TypeOK, Row
  <2>2. \A r, p \in A : r.key = p.key => r = p
    BY Zenon DEF BridgeInv, RegInv
  <2> QED
    BY <2>1, <2>2 DEF Injection, IsInjective
<1>2. /\ IsFiniteSet(A) /\ Cardinality(A) <= Cardinality(Pubkey)
  BY <1>1, FS_Injection, PubkeyAssumption
<1>3. IsFiniteSet(C)
  BY <1>0, FS_Subset DEF Counted
<1>4. /\ A \cup C = queue.rows /\ A \cap C = {}
  BY Zenon DEF Counted
<1>5. Cardinality(A) \in Nat /\ Cardinality(C) \in Nat /\ Cardinality(Pubkey) \in Nat
  BY <1>2, <1>3, FS_CardinalityType, PubkeyAssumption
<1> HIDE DEF A, f, C
<1>6. Cardinality(A \cup C) = Cardinality(A) + Cardinality(C) - Cardinality(A \cap C)
  BY <1>2, <1>3, FS_Union
<1>7. Cardinality(A \cap C) = 0
  BY <1>4, FS_EmptySet
<1>8. Cardinality(A \cup C) <= Limit + Cardinality(Pubkey)
  <2> DEFINE n == Cardinality(A \cup C)
             a == Cardinality(A)
             c == Cardinality(C)
             k == Cardinality(Pubkey)
  <2>1. n = a + c - 0 /\ a \in Nat /\ c \in Nat /\ k \in Nat /\ a <= k /\ c <= Limit
    BY <1>0, <1>2, <1>5, <1>6, <1>7
  <2> HIDE DEF n, a, c, k
  <2>2. n <= Limit + k
    BY <1>0, <2>1
  <2> QED
    BY <2>2, Zenon DEF n, k
<1> QED
  BY <1>0, <1>4, <1>8 DEF OutboxBounded, Counted, C

\* For every limit and every number of publishers: the operations that check
\* the limit never exceed it, and recoveries, which do not, exceed it by at
\* most one registration per publisher.
THEOREM LimitKept == BridgeSpec => []OutboxBounded
<1>1. Init => LimitInv(queue)
  <2> SUFFICES ASSUME Init PROVE LimitInv(queue)
    BY Zenon
  <2>1. queue.rows = {}
    BY Zenon DEF Init
  <2>2. IsFiniteSet(queue.rows) /\ Cardinality(queue.rows) <= Limit
    BY <2>1, FS_EmptySet, BoundAssumption
  <2> QED
    BY <2>2, FitsLimit
<1>2. BridgeInv /\ LimitInv(queue) /\ [BridgeNext]_vars => LimitInv(queue)'
  <2> SUFFICES ASSUME BridgeInv, LimitInv(queue), [BridgeNext]_vars PROVE LimitInv(queue)'
    BY Zenon
  <2>1. LimitInv(queue')
    BY NextLimit, Zenon DEF BridgeInv
  <2> QED
    BY <2>1, Zenon DEF LimitInv, Counted
<1>3. BridgeInv /\ LimitInv(queue) => OutboxBounded
  BY BoundedByPublishers, Zenon
<1> QED
  BY <1>1, <1>2, <1>3, BridgeInvariance, PTL DEF BridgeSpec
=============================================================================
