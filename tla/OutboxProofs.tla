---------------------------- MODULE OutboxProofs ----------------------------
(***************************************************************************)
(* Theorems about Outbox, for any publishers, records, workers and bounds: *)
(* what its transactions do to the queue, the inductive invariant and why  *)
(* every operation, dispatcher, the relay and time keep it, and the        *)
(* channel that the outbox implements.                                     *)
(***************************************************************************)
EXTENDS Outbox, TLAPS

\* q2 is q with rows of the publishers K appended by enqueue operations.
Extends(q, q2, K) ==
  /\ q.rows \subseteq q2.rows
  /\ q.nextId <= q2.nextId
  /\ \A k \in Pubkey : q.issued[k] <= q2.issued[k]
  /\ \A r \in q2.rows \ q.rows :
       /\ r.key \in K
       /\ r.id >= q.nextId
       /\ r.seq > q.last[r.key]
       /\ r.owner = NoWorker
       /\ r.op = Publish => r.ticket > q.issued[r.key]
  /\ \A k \in Pubkey : \A t \in (q.issued[k] + 1)..q2.issued[k] :
       \E r \in q2.rows : r.key = k /\ r.op = Publish /\ r.ticket = t

\* A well-formed queue has the type of the outbox tables.
LEMMA QueueInvType ==
  ASSUME NEW q, QueueInv(q)
  PROVE  /\ q \in QueueType /\ q.nextId \in Nat
         /\ \A r \in q.rows : r \in Row /\ r.key \in Pubkey /\ r.seq \in Nat
<1>1. q \in QueueType
  BY Zenon DEF QueueInv
<1> QED
  BY <1>1, Zenon DEF QueueType, Row

\* The inductive invariant says that the outbox tables are well formed.
LEMMA IndInvQueue ==
  ASSUME IndInv
  PROVE  /\ QueueInv(queue) /\ queue \in QueueType /\ queue.nextId \in Nat
         /\ \A r \in queue.rows : r \in Row /\ r.key \in Pubkey /\ r.seq \in Nat
<1>1. QueueInv(queue)
  BY Zenon DEF IndInv
<1> QED
  BY <1>1, QueueInvType, Zenon

\* Inserting a row with the next id and the next sequence number of its
\* aggregate (enqueueOutbox) keeps the queue well formed.
LEMMA EnqueueQueueInv ==
  ASSUME NEW q, QueueInv(q), NEW k \in Pubkey, NEW op \in Operation
  PROVE  QueueInv(Enqueue(q, k, op))
<1> DEFINE new == NewRow(q.nextId, k, q.last[k] + 1, op,
                         IF op = Publish THEN q.issued[k] + 1 ELSE 0)
<1> DEFINE q2 == Enqueue(q, k, op)
<1>0. q \in QueueType
  BY Zenon DEF QueueInv
<1>1. /\ new \in Row
      /\ new.id = q.nextId /\ new.key = k /\ new.seq = q.last[k] + 1
      /\ new.op = op /\ new.owner = NoWorker
      /\ op = Publish => new.ticket = q.issued[k] + 1
  BY <1>0 DEF Row, QueueType, NewRow
<1>2. /\ q2.rows = q.rows \cup {new}
      /\ q2.nextId = q.nextId + 1
      /\ q2.last = [q.last EXCEPT ![k] = @ + 1]
      /\ q2.issued = IF op = Publish THEN [q.issued EXCEPT ![k] = @ + 1]
                                     ELSE q.issued
  BY Zenon DEF Enqueue
<1>3. q2 \in QueueType
  <2>1. (IF op = Publish THEN [q.issued EXCEPT ![k] = @ + 1] ELSE q.issued)
          \in [Pubkey -> Nat]
    BY <1>0 DEF QueueType
  <2>2. [q.last EXCEPT ![k] = @ + 1] \in [Pubkey -> Nat]
    BY <1>0 DEF QueueType
  <2>3. q.rows \cup {new} \in SUBSET Row
    BY <1>0, <1>1, Zenon DEF QueueType
  <2>4. q.nextId + 1 \in Nat
    BY <1>0 DEF QueueType
  <2> HIDE DEF new
  <2>5. q2 = [rows |-> q.rows \cup {new},
              last |-> [q.last EXCEPT ![k] = @ + 1],
              nextId |-> q.nextId + 1,
              issued |-> IF op = Publish THEN [q.issued EXCEPT ![k] = @ + 1]
                                         ELSE q.issued]
    BY Zenon DEF Enqueue, new
  <2> QED
    BY <2>1, <2>2, <2>3, <2>4, <2>5 DEF QueueType
<1> HIDE DEF q2, new
<1>4. \A r \in q.rows : /\ r \in Row /\ r.id < new.id
                        /\ r.key = k => r.seq < new.seq
                        /\ r.op = Publish /\ r.key = k => r.ticket <= q.issued[k]
  BY <1>0, <1>1 DEF QueueInv, QueueType, Row
<1>5. \A r \in q2.rows : r.id < q2.nextId /\ r.seq <= q2.last[r.key]
  BY <1>0, <1>1, <1>2, <1>3 DEF QueueInv, QueueType, Row
<1>6. \A r, p \in q2.rows : r.id = p.id => r = p
  BY <1>1, <1>2, <1>4 DEF QueueInv, Row
<1>7. \A r, p \in q2.rows : r.key = p.key /\ r.seq = p.seq => r = p
  BY <1>1, <1>2, <1>4 DEF QueueInv, Row
<1>8. \A r \in q2.rows : r.op = Publish => r.ticket \in 1..q2.issued[r.key]
  BY <1>0, <1>1, <1>2, <1>3, <1>4 DEF QueueInv, QueueType, Row
<1>9. \A r, p \in q2.rows :
        r.op = Publish /\ p.op = Publish /\ r.key = p.key /\ r.seq < p.seq
          => r.ticket < p.ticket
  BY <1>0, <1>1, <1>2, <1>4 DEF QueueInv, QueueType, Row
<1>10. \A r \in q2.rows : r.owner # NoWorker => IsHead(q2, r)
  BY <1>0, <1>1, <1>2, <1>4 DEF QueueInv, QueueType, Row, IsHead
<1> QED
  BY <1>3, <1>5, <1>6, <1>7, <1>8, <1>9, <1>10, Zenon DEF QueueInv, q2

\* enqueueOutbox only adds rows behind the rows of its own aggregate.
LEMMA EnqueueExtends ==
  ASSUME NEW q, QueueInv(q), NEW k \in Pubkey, NEW op \in Operation
  PROVE  Extends(q, Enqueue(q, k, op), {k})
<1> DEFINE new == NewRow(q.nextId, k, q.last[k] + 1, op,
                         IF op = Publish THEN q.issued[k] + 1 ELSE 0)
<1> DEFINE q2 == Enqueue(q, k, op)
<1>0. q \in QueueType
  BY DEF QueueInv
<1>1. /\ new.id = q.nextId /\ new.key = k /\ new.seq = q.last[k] + 1
      /\ new.op = op /\ new.owner = NoWorker
      /\ op = Publish => new.ticket = q.issued[k] + 1
  BY Zenon DEF NewRow
<1>2. /\ q2.rows = q.rows \cup {new}
      /\ q2.nextId = q.nextId + 1
      /\ q2.issued = IF op = Publish THEN [q.issued EXCEPT ![k] = @ + 1]
                                     ELSE q.issued
  BY Zenon DEF Enqueue
<1> HIDE DEF q2, new
<1>3. \A j \in Pubkey :
        q2.issued[j] = IF op = Publish /\ j = k THEN q.issued[j] + 1
                                                ELSE q.issued[j]
  BY <1>0, <1>2, Zenon DEF QueueType
<1>4. \A j \in Pubkey : \A t \in (q.issued[j] + 1)..q2.issued[j] :
        \E r \in q2.rows : r.key = j /\ r.op = Publish /\ r.ticket = t
  <2> SUFFICES ASSUME NEW j \in Pubkey, NEW t \in (q.issued[j] + 1)..q2.issued[j]
               PROVE  \E r \in q2.rows : r.key = j /\ r.op = Publish /\ r.ticket = t
    BY Zenon
  <2>1. op = Publish /\ j = k /\ t = q.issued[k] + 1
    BY <1>0, <1>3 DEF QueueType
  <2> QED
    BY <2>1, <1>1, <1>2, Zenon
<1>5. q.nextId <= q2.nextId /\ \A j \in Pubkey : q.issued[j] <= q2.issued[j]
  BY <1>0, <1>2, <1>3 DEF QueueType
<1>6. \A r \in q2.rows \ q.rows :
       /\ r.key \in {k}
       /\ r.id >= q.nextId
       /\ r.seq > q.last[r.key]
       /\ r.owner = NoWorker
       /\ r.op = Publish => r.ticket > q.issued[r.key]
  BY <1>0, <1>1, <1>2 DEF QueueType
<1>7. q.rows \subseteq q2.rows
  BY <1>2, Zenon
<1> QED
  BY <1>4, <1>5, <1>6, <1>7, Zenon DEF Extends, q2

\* Two enqueues of one transaction together add only behind existing rows.
LEMMA ExtendsTrans ==
  ASSUME NEW q1, NEW q2, NEW q3, NEW K, NEW L,
         q1 \in QueueType, q2 \in QueueType, q3 \in QueueType,
         Extends(q1, q2, K), Extends(q2, q3, L),
         \A j \in Pubkey : q1.last[j] <= q2.last[j]
  PROVE  Extends(q1, q3, K \cup L)
<1>1. q1.rows \subseteq q3.rows
  BY Zenon DEF Extends
<1>2. q1.nextId <= q3.nextId /\ \A j \in Pubkey : q1.issued[j] <= q3.issued[j]
  BY DEF Extends, QueueType
<1>3. \A r \in q3.rows \ q1.rows :
       /\ r.key \in K \cup L
       /\ r.id >= q1.nextId
       /\ r.seq > q1.last[r.key]
       /\ r.owner = NoWorker
       /\ r.op = Publish => r.ticket > q1.issued[r.key]
  <2> SUFFICES ASSUME NEW r \in q3.rows \ q1.rows
               PROVE  /\ r.key \in K \cup L
                      /\ r.id >= q1.nextId
                      /\ r.seq > q1.last[r.key]
                      /\ r.owner = NoWorker
                      /\ r.op = Publish => r.ticket > q1.issued[r.key]
    BY Zenon
  <2>0. r \in Row
    BY Zenon DEF QueueType
  <2>1. CASE r \in q2.rows
    BY <2>1, Zenon DEF Extends
  <2>2. CASE r \notin q2.rows
    BY <2>0, <2>2 DEF Extends, QueueType, Row
  <2> QED
    BY <2>1, <2>2, Zenon
<1>4. \A k \in Pubkey : \A t \in (q1.issued[k] + 1)..q3.issued[k] :
       \E r \in q3.rows : r.key = k /\ r.op = Publish /\ r.ticket = t
  <2> SUFFICES ASSUME NEW k \in Pubkey, NEW t \in (q1.issued[k] + 1)..q3.issued[k]
               PROVE  \E r \in q3.rows : r.key = k /\ r.op = Publish /\ r.ticket = t
    BY Zenon
  <2>1. \/ t \in (q1.issued[k] + 1)..q2.issued[k]
        \/ t \in (q2.issued[k] + 1)..q3.issued[k]
    BY DEF QueueType
  <2> QED
    BY <2>1 DEF Extends
<1> QED
  BY <1>1, <1>2, <1>3, <1>4, Zenon DEF Extends

\* enqueueOutbox never lowers an aggregate's last sequence number.
LEMMA EnqueueLast ==
  ASSUME NEW q, q \in QueueType, NEW k \in Pubkey, NEW op \in Operation
  PROVE  \A j \in Pubkey : q.last[j] <= Enqueue(q, k, op).last[j]
BY DEF QueueType, Enqueue

\* Claiming, retrying and the passing of time change a row's lease and
\* availability only; the queue stays well formed if only heads are claimed.
LEMMA ReplaceQueueInv ==
  ASSUME NEW q, QueueInv(q), NEW r \in q.rows, NEW new \in Row,
         new.id = r.id, new.key = r.key, new.seq = r.seq, new.op = r.op,
         new.ticket = r.ticket,
         new.owner # NoWorker => IsHead(q, r)
  PROVE  QueueInv(Replace(q, r, new))
<1> DEFINE q2 == Replace(q, r, new)
<1>0. q \in QueueType
  BY Zenon DEF QueueInv
<1>1. /\ q2.rows = (q.rows \ {r}) \cup {new}
      /\ q2.nextId = q.nextId /\ q2.last = q.last /\ q2.issued = q.issued
      /\ q2 \in QueueType
  BY <1>0, Zenon DEF Replace, QueueType
<1>2. \A p \in q.rows : p \in Row
  BY <1>0, Zenon DEF QueueType
<1> HIDE DEF q2
<1>3. \A p \in q2.rows : p.id < q2.nextId /\ p.seq <= q2.last[p.key]
  BY <1>1, Zenon DEF QueueInv
<1>4. \A p, o \in q2.rows : p.id = o.id => p = o
  BY <1>1 DEF QueueInv
<1>5. \A p, o \in q2.rows : p.key = o.key /\ p.seq = o.seq => p = o
  BY <1>1 DEF QueueInv
<1>6. \A p \in q2.rows : p.op = Publish => p.ticket \in 1..q2.issued[p.key]
  BY <1>1 DEF QueueInv
<1>7. \A p, o \in q2.rows :
        p.op = Publish /\ o.op = Publish /\ p.key = o.key /\ p.seq < o.seq
          => p.ticket < o.ticket
  <2>1. ~(r.seq < r.seq)
    BY <1>2 DEF Row
  <2> QED
    BY <1>1, <2>1 DEF QueueInv
<1>8. \A p \in q2.rows : p.owner # NoWorker => IsHead(q2, p)
  BY <1>1, <1>2 DEF QueueInv, IsHead, Row
<1> QED
  BY <1>1, <1>3, <1>4, <1>5, <1>6, <1>7, <1>8, Zenon DEF QueueInv, q2

\* Deleting a completed row keeps the queue well formed.
LEMMA RemoveQueueInv ==
  ASSUME NEW q, QueueInv(q), NEW r \in q.rows
  PROVE  QueueInv(Remove(q, r))
<1> DEFINE q2 == Remove(q, r)
<1>0. q \in QueueType
  BY Zenon DEF QueueInv
<1>1. /\ q2.rows = q.rows \ {r}
      /\ q2.nextId = q.nextId /\ q2.last = q.last /\ q2.issued = q.issued
      /\ q2 \in QueueType
  BY <1>0, Zenon DEF Remove, QueueType
<1> HIDE DEF q2
<1> QED
  BY <1>1, Zenon DEF QueueInv, IsHead, q2

\* Renumbering changes a row's sequence number and nothing else.
LEMMA ShiftedRow ==
  ASSUME NEW r \in Row, NEW x \in Row
  PROVE  /\ Shifted(r, x) \in Row
         /\ Shifted(r, x).id = x.id /\ Shifted(r, x).key = x.key
         /\ Shifted(r, x).op = x.op /\ Shifted(r, x).ticket = x.ticket
         /\ Shifted(r, x).owner = x.owner
         /\ x.key = r.key /\ x.seq > r.seq => Shifted(r, x).seq = x.seq + 1
         /\ ~(x.key = r.key /\ x.seq > r.seq) => Shifted(r, x).seq = x.seq
BY DEF Shifted, Row

\* A recovery of the head r leaves its registration a, its event b, and the
\* other rows, those of the aggregate behind b.
Recovered(q, r, q2, a, b) ==
  /\ q2 \in QueueType
  /\ q2.nextId = q.nextId + 1
  /\ q2.last = [q.last EXCEPT ![r.key] = @ + 1]
  /\ q2.issued = q.issued
  /\ a \in q2.rows /\ a \in Row /\ a.id = r.id /\ a.key = r.key
  /\ a.seq = r.seq /\ a.op = Allow /\ a.owner = NoWorker
  /\ b \in q2.rows /\ b \in Row /\ b.id = q.nextId /\ b.key = r.key
  /\ b.seq = r.seq + 1 /\ b.op = Publish /\ b.ticket = r.ticket
  /\ b.owner = NoWorker
  /\ \A y \in q2.rows : y = a \/ y = b \/ \E x \in q.rows \ {r} :
       /\ y = Shifted(r, x) /\ y.id = x.id /\ y.key = x.key
       /\ y.op = x.op /\ y.ticket = x.ticket /\ y.owner = x.owner
       /\ y.key # r.key => y.seq = x.seq
       /\ y.key = r.key => y.seq = x.seq + 1 /\ x.seq > r.seq
  /\ \A x \in q.rows \ {r} : \E y \in q2.rows :
       y.key = x.key /\ y.op = x.op /\ y.ticket = x.ticket

\* What RecoverPublisherRegistration leaves in the outbox: the registration, the
\* event right behind it, and every other row, renumbered.
LEMMA RecoverRows ==
  ASSUME NEW q, QueueInv(q), NEW r \in q.rows, r.op = Publish, IsHead(q, r),
         NEW q2, q2 = Recover(q, r)
  PROVE  Recovered(q, r, q2, NewRow(r.id, r.key, r.seq, Allow, 0),
                   NewRow(q.nextId, r.key, r.seq + 1, Publish, r.ticket))
<1> DEFINE a == NewRow(r.id, r.key, r.seq, Allow, 0)
           b == NewRow(q.nextId, r.key, r.seq + 1, Publish, r.ticket)
<1>0. /\ q \in QueueType /\ r \in Row /\ r.key \in Pubkey /\ q.nextId \in Nat
      /\ \A x \in q.rows : x \in Row
  BY Zenon DEF QueueInv, QueueType, Row
<1>1. /\ a \in Row /\ a.id = r.id /\ a.key = r.key /\ a.seq = r.seq
      /\ a.op = Allow /\ a.owner = NoWorker
  BY <1>0, Zenon DEF Row, NewRow, Operation
<1>2. /\ b \in Row /\ b.id = q.nextId /\ b.key = r.key
      /\ b.seq = r.seq + 1 /\ b.op = Publish /\ b.ticket = r.ticket
      /\ b.owner = NoWorker
  BY <1>0 DEF Row, NewRow, Operation
<1>rows. q2.rows = {Shifted(r, x) : x \in q.rows \ {r}} \cup {a, b}
  BY Zenon DEF Recover
<1>3. /\ q2.nextId = q.nextId + 1
      /\ q2.last = [q.last EXCEPT ![r.key] = @ + 1]
      /\ q2.issued = q.issued
      /\ q2 = [rows |-> q2.rows, last |-> q2.last, nextId |-> q2.nextId,
               issued |-> q2.issued]
  BY Zenon DEF Recover
<1> HIDE DEF a, b
<1>4. \A x \in q.rows \ {r} : Shifted(r, x) \in Row
  BY <1>0, ShiftedRow, Zenon
<1>5. q2 \in QueueType
  <2>1. q2.rows \in SUBSET Row
    BY <1>1, <1>2, <1>rows, <1>4
  <2>2. q2.last \in [Pubkey -> Nat] /\ q2.nextId \in Nat /\ q2.issued \in [Pubkey -> Nat]
    BY <1>0, <1>3 DEF QueueType
  <2> QED
    BY <2>1, <2>2, <1>3, Zenon DEF QueueType
<1>6. ASSUME NEW y \in q2.rows, y # a, y # b
      PROVE  \E x \in q.rows \ {r} :
               /\ y = Shifted(r, x) /\ y.id = x.id /\ y.key = x.key
               /\ y.op = x.op /\ y.ticket = x.ticket /\ y.owner = x.owner
               /\ y.key # r.key => y.seq = x.seq
               /\ y.key = r.key => y.seq = x.seq + 1 /\ x.seq > r.seq
  <2>1. PICK x \in q.rows \ {r} : y = Shifted(r, x)
    BY <1>rows, <1>6, Zenon
  <2>2. x.key = r.key => x.seq > r.seq
    <3>1. x.key = r.key => r.seq <= x.seq /\ x.seq # r.seq
      BY Zenon DEF QueueInv, IsHead
    <3> QED
      BY <3>1, <1>0 DEF Row
  <2>3. /\ y.id = x.id /\ y.key = x.key
        /\ y.op = x.op /\ y.ticket = x.ticket /\ y.owner = x.owner
        /\ y.key # r.key => y.seq = x.seq
        /\ y.key = r.key => y.seq = x.seq + 1
    <3>1. x \in Row
      BY <1>0, Zenon
    <3> QED
      BY <3>1, <2>1, <2>2, <1>0, ShiftedRow
  <2> QED
    BY <2>1, <2>2, <2>3, Zenon
<1>7. \A x \in q.rows \ {r} : \E y \in q2.rows :
        y.key = x.key /\ y.op = x.op /\ y.ticket = x.ticket
  <2> TAKE x \in q.rows \ {r}
  <2>1. Shifted(r, x) \in q2.rows
    BY <1>rows, Zenon
  <2> QED
    BY <2>1, <1>0, ShiftedRow, Zenon
<1>8. a \in q2.rows /\ b \in q2.rows
  BY <1>rows, Zenon
<1>9. \A y \in q2.rows : y = a \/ y = b \/ \E x \in q.rows \ {r} :
       /\ y = Shifted(r, x) /\ y.id = x.id /\ y.key = x.key
       /\ y.op = x.op /\ y.ticket = x.ticket /\ y.owner = x.owner
       /\ y.key # r.key => y.seq = x.seq
       /\ y.key = r.key => y.seq = x.seq + 1 /\ x.seq > r.seq
  BY <1>6, Zenon
<1>10. Recovered(q, r, q2, a, b)
  BY <1>1, <1>2, <1>3, <1>5, <1>7, <1>8, <1>9, Zenon DEF Recovered
<1> QED
  BY <1>10, Zenon DEF a, b

\* Recovery's renumbering and insertion keep the queue well formed.
LEMMA RecoverQueueInv ==
  ASSUME NEW q, QueueInv(q), NEW r \in q.rows, r.op = Publish, IsHead(q, r),
         NEW q2, NEW a, NEW b, Recovered(q, r, q2, a, b)
  PROVE  QueueInv(q2)
<1>0. /\ q \in QueueType /\ r \in Row /\ r.key \in Pubkey /\ q.nextId \in Nat
      /\ \A x \in q.rows : x \in Row /\ x.id < q.nextId /\ x.seq <= q.last[x.key]
  BY Zenon DEF QueueInv, QueueType, Row
<1>1. /\ q2 \in QueueType
      /\ q2.nextId = q.nextId + 1
      /\ q2.last = [q.last EXCEPT ![r.key] = @ + 1]
      /\ q2.issued = q.issued
  BY Zenon DEF Recovered
<1>2. /\ a \in q2.rows /\ a \in Row /\ a.id = r.id /\ a.key = r.key
      /\ a.seq = r.seq /\ a.op = Allow /\ a.owner = NoWorker
      /\ b \in q2.rows /\ b \in Row /\ b.id = q.nextId /\ b.key = r.key
      /\ b.seq = r.seq + 1 /\ b.op = Publish /\ b.ticket = r.ticket
      /\ b.owner = NoWorker
  BY Zenon DEF Recovered
<1>3. \A y \in q2.rows : y # a /\ y # b => \E x \in q.rows \ {r} :
        /\ y = Shifted(r, x) /\ y.id = x.id /\ y.key = x.key
        /\ y.op = x.op /\ y.ticket = x.ticket /\ y.owner = x.owner
        /\ y.key # r.key => y.seq = x.seq
        /\ y.key = r.key => y.seq = x.seq + 1 /\ x.seq > r.seq
  BY Zenon DEF Recovered
<1>4. /\ \A x, v \in q.rows : x.id = v.id => x = v
      /\ \A x, v \in q.rows : x.key = v.key /\ x.seq = v.seq => x = v
      /\ \A x \in q.rows : x.op = Publish => x.ticket \in 1..q.issued[x.key]
      /\ \A x, v \in q.rows :
           x.op = Publish /\ v.op = Publish /\ x.key = v.key /\ x.seq < v.seq
             => x.ticket < v.ticket
  BY Zenon DEF QueueInv
<1>5. \A y \in q2.rows : y.id < q2.nextId /\ y.seq <= q2.last[y.key]
  <2> SUFFICES ASSUME NEW y \in q2.rows
               PROVE  y.id < q2.nextId /\ y.seq <= q2.last[y.key]
    BY Zenon
  <2>1. CASE y = a \/ y = b
    BY <2>1, <1>0, <1>1, <1>2 DEF QueueType, Row
  <2>2. CASE y # a /\ y # b
    <3>1. PICK x \in q.rows \ {r} :
               /\ y.id = x.id /\ y.key = x.key
               /\ y.key # r.key => y.seq = x.seq
               /\ y.key = r.key => y.seq = x.seq + 1
      BY <2>2, <1>3, Zenon
    <3> QED
      BY <3>1, <1>0, <1>1 DEF QueueType, Row
  <2> QED
    BY <2>1, <2>2, Zenon
<1>6. \A y, z \in q2.rows : y.id = z.id => y = z
  <2> SUFFICES ASSUME NEW y \in q2.rows, NEW z \in q2.rows, y.id = z.id
               PROVE  y = z
    BY Zenon
  <2>1. \A u \in q2.rows : u # a /\ u # b => u.id # a.id /\ u.id # b.id
    BY <1>0, <1>2, <1>3, <1>4 DEF Row
  <2>2. a.id # b.id
    BY <1>0, <1>2 DEF Row
  <2>3. CASE y \in {a, b} \/ z \in {a, b}
    BY <2>1, <2>2, <2>3, Zenon
  <2>4. CASE y \notin {a, b} /\ z \notin {a, b}
    <3>1. PICK x \in q.rows : y = Shifted(r, x) /\ y.id = x.id
      BY <2>4, <1>3, Zenon
    <3>2. PICK v \in q.rows : z = Shifted(r, v) /\ z.id = v.id
      BY <2>4, <1>3, Zenon
    <3> QED
      BY <3>1, <3>2, <1>4, Zenon
  <2> QED
    BY <2>3, <2>4, Zenon
<1>7. \A y, z \in q2.rows : y.key = z.key /\ y.seq = z.seq => y = z
  <2> SUFFICES ASSUME NEW y \in q2.rows, NEW z \in q2.rows,
                      y.key = z.key, y.seq = z.seq
               PROVE  y = z
    BY Zenon
  <2>1. \A u \in q2.rows : u # a /\ u # b /\ u.key = r.key
                             => u.seq # a.seq /\ u.seq # b.seq
    BY <1>0, <1>2, <1>3 DEF Row
  <2>2. a.seq # b.seq
    BY <1>0, <1>2 DEF Row
  <2>3. CASE y \in {a, b} \/ z \in {a, b}
    BY <2>1, <2>2, <2>3, <1>2, Zenon
  <2>4. CASE y \notin {a, b} /\ z \notin {a, b}
    <3>1. PICK x \in q.rows : /\ y = Shifted(r, x) /\ y.key = x.key
                              /\ y.key # r.key => y.seq = x.seq
                              /\ y.key = r.key => y.seq = x.seq + 1
      BY <2>4, <1>3, Zenon
    <3>2. PICK v \in q.rows : /\ z = Shifted(r, v) /\ z.key = v.key
                              /\ z.key # r.key => z.seq = v.seq
                              /\ z.key = r.key => z.seq = v.seq + 1
      BY <2>4, <1>3, Zenon
    <3>3. x.seq = v.seq
      BY <3>1, <3>2, <1>0 DEF Row
    <3> QED
      BY <3>1, <3>2, <3>3, <1>4, Zenon
  <2> QED
    BY <2>3, <2>4, Zenon
<1>8. \A y \in q2.rows : y.op = Publish => y.ticket \in 1..q2.issued[y.key]
  <2> SUFFICES ASSUME NEW y \in q2.rows, y.op = Publish
               PROVE  y.ticket \in 1..q2.issued[y.key]
    BY Zenon
  <2>1. CASE y = a
    BY <2>1, <1>2, Zenon DEF Allow, Publish
  <2>2. CASE y = b
    BY <2>2, <1>1, <1>2, <1>4, Zenon
  <2>3. CASE y # a /\ y # b
    BY <2>3, <1>1, <1>3, <1>4
  <2> QED
    BY <2>1, <2>2, <2>3, Zenon
<1>9. \A y, z \in q2.rows :
        y.op = Publish /\ z.op = Publish /\ y.key = z.key /\ y.seq < z.seq
          => y.ticket < z.ticket
  <2> SUFFICES ASSUME NEW y \in q2.rows, NEW z \in q2.rows, y.op = Publish,
                      z.op = Publish, y.key = z.key, y.seq < z.seq
               PROVE  y.ticket < z.ticket
    BY Zenon
  <2>1. y # a /\ z # a
    BY <1>2, Zenon DEF Allow, Publish
  <2>2. z # b
    BY <2>1, <1>0, <1>2, <1>3 DEF Row
  <2>3. PICK v \in q.rows \ {r} :
               /\ z.key = v.key /\ z.op = v.op /\ z.ticket = v.ticket
               /\ z.key # r.key => z.seq = v.seq
               /\ z.key = r.key => z.seq = v.seq + 1 /\ v.seq > r.seq
    BY <2>1, <2>2, <1>3, Zenon
  <2>4. CASE y = b
    BY <2>3, <2>4, <1>2, <1>0, <1>4 DEF Row
  <2>5. CASE y # b
    <3>1. PICK x \in q.rows : /\ y.key = x.key /\ y.op = x.op /\ y.ticket = x.ticket
                              /\ y.key # r.key => y.seq = x.seq
                              /\ y.key = r.key => y.seq = x.seq + 1
      BY <2>1, <2>5, <1>3, Zenon
    <3>2. x.seq < v.seq
      BY <2>3, <3>1, <1>0 DEF Row
    <3> QED
      BY <2>3, <3>1, <3>2, <1>4
  <2> QED
    BY <2>4, <2>5, Zenon
<1>10. \A y \in q2.rows : y.owner # NoWorker => IsHead(q2, y)
  <2> SUFFICES ASSUME NEW y \in q2.rows, y.owner # NoWorker, NEW z \in q2.rows,
                      z.key = y.key
               PROVE  y.seq <= z.seq
    BY Zenon DEF IsHead
  <2>1. PICK x \in q.rows \ {r} : /\ y.key = x.key /\ y.owner = x.owner
                                  /\ y.key # r.key => y.seq = x.seq
                                  /\ y.key = r.key => x.seq > r.seq
    BY <1>2, <1>3, Zenon
  <2>2. \A v \in q.rows : v.key = x.key => x.seq <= v.seq
    BY <2>1, Zenon DEF QueueInv, IsHead
  <2>3. x.key # r.key
    BY <2>1, <2>2, <1>0 DEF Row
  <2>4. PICK v \in q.rows : z.key = v.key /\ z.seq = v.seq
    BY <2>1, <2>3, <1>2, <1>3
  <2> QED
    BY <2>1, <2>2, <2>3, <2>4, Zenon
<1> QED
  BY <1>1, <1>5, <1>6, <1>7, <1>8, <1>9, <1>10, Zenon DEF QueueInv

(***************************************************************************)
(* How Delivery survives: when rows are appended, and when a step of a     *)
(* dispatcher, or of time, changes rows already queued.                    *)
(***************************************************************************)
LEMMA ExtendsDelivery ==
  ASSUME IndInv, QueueInv(queue'), NEW K, Extends(queue, queue', K),
         UNCHANGED <<worker, accepted, late>>
  PROVE  Delivery'
<1>0. /\ queue \in QueueType /\ queue' \in QueueType
      /\ \A r \in queue.rows : r \in Row
      /\ \A r \in queue'.rows : r \in Row
      /\ queue.issued \in [Pubkey -> Nat] /\ queue'.issued \in [Pubkey -> Nat]
      /\ queue.nextId \in Nat /\ queue'.nextId \in Nat
  BY Zenon DEF IndInv, QueueInv, QueueType
<1>1. /\ queue.rows \subseteq queue'.rows
      /\ queue.nextId <= queue'.nextId
      /\ \A k \in Pubkey : queue.issued[k] <= queue'.issued[k]
      /\ \A r \in queue'.rows : r \notin queue.rows =>
           /\ r.id >= queue.nextId
           /\ r.owner = NoWorker
           /\ r.op = Publish => r.ticket > queue.issued[r.key]
      /\ \A k \in Pubkey : \A t \in (queue.issued[k] + 1)..queue'.issued[k] :
           \E r \in queue'.rows : r.key = k /\ r.op = Publish /\ r.ticket = t
  BY Zenon DEF Extends
<1>2. WorkerInv'
  <2> SUFFICES ASSUME NEW w \in Worker, worker[w].phase # "idle",
                      NEW x, x = worker[w].row
               PROVE  /\ x.id < queue'.nextId
                      /\ x.op = Publish => x.ticket \in 1..queue'.issued[x.key]
                      /\ \A r \in queue'.rows : r.id = x.id /\ r.owner = w =>
                           r.key = x.key /\ r.op = x.op /\ r.ticket = x.ticket
                      /\ x.op = Publish /\ worker[w].phase = "ok"
                           => x.ticket \in accepted[x.key]
    BY DEF WorkerInv
  <2>1. /\ x.id < queue.nextId
        /\ x.op = Publish => x.ticket \in 1..queue.issued[x.key]
        /\ \A r \in queue.rows : r.id = x.id /\ r.owner = w =>
             r.key = x.key /\ r.op = x.op /\ r.ticket = x.ticket
        /\ x.op = Publish /\ worker[w].phase = "ok" => x.ticket \in accepted[x.key]
    BY Zenon DEF IndInv, Delivery, WorkerInv
  <2>2. x \in Row
    BY Zenon DEF IndInv, TypeOK
  <2>3. w # NoWorker
    BY NoWorkerAssumption, Zenon
  <2> QED
    BY <1>0, <1>1, <2>1, <2>2, <2>3 DEF Row
<1>3. LateInv'
  <2>1. \A m \in late : m.key \in Pubkey
    BY Zenon DEF IndInv, TypeOK, Request
  <2> QED
    BY <1>0, <1>1, <2>1 DEF IndInv, Delivery, LateInv
<1>4. NoOvertaking'
  <2>1. ASSUME NEW w \in Worker, NEW r \in queue'.rows,
               worker[w].phase # "idle", worker[w].row.op = Publish,
               r.op = Publish, r.key = worker[w].row.key
        PROVE  worker[w].row.ticket <= r.ticket
    <3>1. CASE r \in queue.rows
      BY <2>1, <3>1, Zenon DEF IndInv, Delivery, NoOvertaking
    <3>2. CASE r \notin queue.rows
      <4>1. worker[w].row.ticket \in 1..queue.issued[r.key]
        BY <2>1, Zenon DEF IndInv, Delivery, WorkerInv
      <4> QED
        BY <4>1, <3>2, <2>1, <1>0, <1>1 DEF Row
    <3> QED
      BY <3>1, <3>2, Zenon
  <2>2. ASSUME NEW m \in late, NEW r \in queue'.rows,
               m.op = Publish, r.op = Publish, r.key = m.key
        PROVE  m.ticket <= r.ticket
    <3>1. CASE r \in queue.rows
      BY <2>2, <3>1, Zenon DEF IndInv, Delivery, NoOvertaking
    <3>2. CASE r \notin queue.rows
      <4>1. m.ticket \in 1..queue.issued[r.key]
        BY <2>2, Zenon DEF IndInv, Delivery, LateInv
      <4> QED
        BY <4>1, <3>2, <2>2, <1>0, <1>1 DEF Row
    <3> QED
      BY <3>1, <3>2, Zenon
  <2> QED
    BY <2>1, <2>2, Zenon DEF NoOvertaking
<1>5. AcceptedPrefix'
  <2> SUFFICES ASSUME NEW k \in Pubkey
               PROVE  \E n \in 0..queue'.issued[k] : accepted[k] = 1..n
    BY Zenon DEF AcceptedPrefix
  <2>1. PICK n \in 0..queue.issued[k] : accepted[k] = 1..n
    BY Zenon DEF IndInv, Delivery, AcceptedPrefix
  <2>2. n \in 0..queue'.issued[k]
    BY <1>0, <1>1
  <2> QED
    BY <2>1, <2>2, Zenon
<1>6. NothingLost'
  <2> SUFFICES ASSUME NEW k \in Pubkey, NEW t \in 1..queue'.issued[k]
               PROVE  \/ t \in accepted[k]
                      \/ \E r \in queue'.rows :
                           r.key = k /\ r.op = Publish /\ r.ticket = t
    BY Zenon DEF NothingLost
  <2>1. CASE t \in 1..queue.issued[k]
    BY <2>1, <1>1 DEF IndInv, Delivery, NothingLost
  <2>2. CASE t \in (queue.issued[k] + 1)..queue'.issued[k]
    BY <2>2, <1>1
  <2> QED
    BY <2>1, <2>2, <1>0
<1> QED
  BY <1>2, <1>3, <1>4, <1>5, <1>6, Zenon DEF Delivery

\* A step that issues no event keeps every queued event that is not accepted,
\* and gives no worker a row it did not have.
Rearranges ==
  /\ queue' \in QueueType
  /\ queue'.issued = queue.issued
  /\ queue.nextId <= queue'.nextId
  /\ \A y \in queue'.rows : y.op = Publish =>
       \E x \in queue.rows : x.op = Publish /\ x.key = y.key /\ x.ticket = y.ticket
  /\ \A x \in queue.rows : x.op = Publish =>
       \/ x.ticket \in accepted[x.key]
       \/ \E y \in queue'.rows : /\ y.op = Publish /\ y.key = x.key
                                 /\ y.ticket = x.ticket
  /\ \A y \in queue'.rows : y.owner # NoWorker =>
       \E x \in queue.rows : /\ x.id = y.id /\ x.owner = y.owner
                             /\ x.key = y.key /\ x.op = y.op /\ x.ticket = y.ticket

\* A step that keeps every undelivered event queued and hands no worker a new
\* row keeps the delivery invariants.
LEMMA RearrangesDelivery ==
  ASSUME IndInv, Rearranges, UNCHANGED <<accepted, late>>,
         \A w \in Worker : worker'[w].phase = "idle" \/ worker'[w] = worker[w]
  PROVE  Delivery'
<1>0. /\ queue \in QueueType /\ queue' \in QueueType
      /\ queue.nextId \in Nat /\ queue'.nextId \in Nat
  BY Zenon DEF IndInv, QueueInv, QueueType, Rearranges
<1>1. WorkerInv'
  <2> SUFFICES ASSUME NEW w \in Worker, worker'[w].phase # "idle",
                      NEW x, x = worker'[w].row
               PROVE  /\ x.id < queue'.nextId
                      /\ x.op = Publish => x.ticket \in 1..queue'.issued[x.key]
                      /\ \A r \in queue'.rows : r.id = x.id /\ r.owner = w =>
                           r.key = x.key /\ r.op = x.op /\ r.ticket = x.ticket
                      /\ x.op = Publish /\ worker'[w].phase = "ok"
                           => x.ticket \in accepted'[x.key]
    BY Zenon DEF WorkerInv
  <2>1. worker'[w] = worker[w]
    BY Zenon
  <2>2. /\ x.id < queue.nextId
        /\ x.op = Publish => x.ticket \in 1..queue.issued[x.key]
        /\ \A r \in queue.rows : r.id = x.id /\ r.owner = w =>
             r.key = x.key /\ r.op = x.op /\ r.ticket = x.ticket
        /\ x.op = Publish /\ worker[w].phase = "ok" => x.ticket \in accepted[x.key]
    BY <2>1 DEF IndInv, Delivery, WorkerInv
  <2>3. x \in Row /\ x.id \in Nat
    BY <2>1, Zenon DEF IndInv, TypeOK, Row
  <2>4. w # NoWorker
    BY NoWorkerAssumption, Zenon
  <2>5. x.id < queue'.nextId
    BY <1>0, <2>2, <2>3 DEF Rearranges
  <2>6. \A r \in queue'.rows : r.id = x.id /\ r.owner = w =>
           r.key = x.key /\ r.op = x.op /\ r.ticket = x.ticket
    BY <2>2, <2>4 DEF Rearranges
  <2> QED
    BY <2>1, <2>2, <2>5, <2>6, Zenon DEF Rearranges
<1>2. LateInv'
  BY Zenon DEF IndInv, Delivery, LateInv, Rearranges
<1>3. NoOvertaking'
  BY DEF IndInv, Delivery, NoOvertaking, Rearranges
<1>4. AcceptedPrefix'
  BY Zenon DEF IndInv, Delivery, AcceptedPrefix, Rearranges
<1>5. NothingLost'
  <2> SUFFICES ASSUME NEW k \in Pubkey, NEW t \in 1..queue.issued[k]
               PROVE  \/ t \in accepted[k]
                      \/ \E r \in queue'.rows :
                           r.key = k /\ r.op = Publish /\ r.ticket = t
    BY DEF NothingLost, Rearranges
  <2>1. \/ t \in accepted[k]
        \/ \E r \in queue.rows : r.key = k /\ r.op = Publish /\ r.ticket = t
    BY DEF IndInv, Delivery, NothingLost
  <2> QED
    BY <2>1 DEF Rearranges
<1> QED
  BY <1>1, <1>2, <1>3, <1>4, <1>5, Zenon DEF Delivery

\* q2 is a sound queue that extends q.
Grows(q, q2, K) ==
  /\ QueueInv(q2)
  /\ Extends(q, q2, K)
  /\ \A j \in Pubkey : q.last[j] <= q2.last[j]

\* One enqueue grows the queue at the end of one aggregate.
LEMMA EnqueueGrows ==
  ASSUME NEW q, QueueInv(q), NEW k \in Pubkey, NEW op \in Operation
  PROVE  Grows(q, Enqueue(q, k, op), {k})
<1>1. q \in QueueType
  BY DEF QueueInv
<1> QED
  BY <1>1, EnqueueQueueInv, EnqueueExtends, EnqueueLast, Zenon DEF Grows

\* A skipped registration or record leaves the queue as it is, which is a growth.
LEMMA GrowsRefl ==
  ASSUME NEW q, QueueInv(q), NEW K
  PROVE  Grows(q, q, K)
<1>1. q.nextId \in Nat /\ q.issued \in [Pubkey -> Nat] /\ q.last \in [Pubkey -> Nat]
  BY Zenon DEF QueueInv, QueueType
<1>2. \A j \in Pubkey : (q.issued[j] + 1)..q.issued[j] = {}
  BY <1>1
<1> QED
  BY <1>1, <1>2 DEF Grows, Extends

\* The enqueues of one transaction compose.
LEMMA GrowsTrans ==
  ASSUME NEW q1, NEW q2, NEW q3, NEW K, NEW L, QueueInv(q1),
         Grows(q1, q2, K), Grows(q2, q3, L)
  PROVE  Grows(q1, q3, K \cup L)
<1>1. q1 \in QueueType /\ q2 \in QueueType /\ q3 \in QueueType
  BY Zenon DEF Grows, QueueInv
<1>2. Extends(q1, q3, K \cup L)
  BY <1>1, ExtendsTrans, Zenon DEF Grows
<1>3. \A j \in Pubkey : q1.last[j] <= q3.last[j]
  BY <1>1 DEF Grows, QueueType
<1> QED
  BY <1>2, <1>3, Zenon DEF Grows

\* A publish, with the registration it may need, grows the queue at the end of
\* its publisher's aggregate.
LEMMA EnqueuePublishGrows ==
  ASSUME NEW q, QueueInv(q), NEW k \in Pubkey
  PROVE  Grows(q, EnqueuePublish(q, k), {k})
<1>1. Grows(q, WithAllow(q, k), {k})
  <2>1. CASE RegisteredOrPending(q, k)
    BY <2>1, GrowsRefl, Zenon DEF WithAllow
  <2>2. CASE ~RegisteredOrPending(q, k)
    BY <2>2, EnqueueGrows, Zenon DEF WithAllow, Operation
  <2> QED
    BY <2>1, <2>2, Zenon
<1>2. Grows(WithAllow(q, k), EnqueuePublish(q, k), {k})
  BY <1>1, EnqueueGrows, Zenon DEF Grows, EnqueuePublish, Operation
<1>3. Grows(q, EnqueuePublish(q, k), {k} \cup {k})
  BY <1>1, <1>2, GrowsTrans, Zenon
<1> QED
  BY <1>3, {k} \cup {k} = {k}, Zenon

-----------------------------------------------------------------------------

(***************************************************************************)
(* Enqueue operations.                                                     *)
(***************************************************************************)
\* Rows appended for publishers that are not purged leave purges alone.
LEMMA GrowsIndInv ==
  ASSUME IndInv, NEW K, Grows(queue, queue', K),
         K \cap purged = {},
         UNCHANGED <<worker, accepted, late, purged, covered, allowed, drifts>>,
         registered' \in SUBSET Pubkey,
         mapping' \in [Source -> Nat],
         \A s \in Source : Author[s] \notin K => mapping'[s] \in {0, mapping[s]},
         operation' \in [Source -> Version \cup {NoVersion}]
  PROVE  IndInv'
<1>1. QueueInv(queue') /\ Extends(queue, queue', K)
  BY Zenon DEF Grows
<1>2. TypeOK'
  BY <1>1, Zenon DEF IndInv, TypeOK, QueueInv, QueueType
<1>3. Delivery'
  BY <1>1, ExtendsDelivery, Zenon
<1>4. PurgeIsLast'
  BY <1>1, Zenon DEF IndInv, PurgeIsLast, Extends
<1>5. PurgeCoversMappings'
  BY AuthorAssumption, Zenon DEF IndInv, PurgeCoversMappings
<1>6. QueueInv(queue)'
  BY <1>1, Zenon
<1> QED
  BY <1>2, <1>3, <1>4, <1>5, <1>6, Zenon DEF IndInv

\* EnqueueEvent keeps the inductive invariant.
LEMMA EnqueueEventStep ==
  ASSUME IndInv, NEW s \in Source, NEW v \in Version \cup {NoVersion}, EnqueueEvent(s, v)
  PROVE  IndInv'
<1> DEFINE k == Author[s]
<1>1. k \in Pubkey
  BY AuthorAssumption, Zenon
<1>2. Grows(queue, queue', {k})
  BY <1>1, EnqueuePublishGrows, Zenon DEF IndInv, EnqueueEvent
<1>3. queue.issued[k] + 1 \in Nat /\ mapping \in [Source -> Nat]
  BY <1>1 DEF IndInv, TypeOK
<1>4. operation' \in [Source -> Version \cup {NoVersion}]
  BY Zenon DEF EnqueueEvent, SaveSourceOperation, IndInv, TypeOK
<1> QED
  BY <1>1, <1>2, <1>3, <1>4, GrowsIndInv DEF EnqueueEvent, IndInv, TypeOK, relayVars

\* EnqueueDelete keeps the inductive invariant.
LEMMA EnqueueDeleteStep ==
  ASSUME IndInv, NEW s \in Source, EnqueueDelete(s)
  PROVE  IndInv'
<1> DEFINE k == Author[s]
<1>1. k \in Pubkey
  BY AuthorAssumption, Zenon
<1>2. Grows(queue, queue', {k})
  BY <1>1, EnqueuePublishGrows, Zenon DEF IndInv, EnqueueDelete
<1> QED
  BY <1>1, <1>2, GrowsIndInv DEF EnqueueDelete, IndInv, TypeOK, relayVars

\* EnqueueUpdate keeps the inductive invariant.
LEMMA EnqueueUpdateStep ==
  ASSUME IndInv, NEW s \in Source, NEW v \in Version \cup {NoVersion}, EnqueueUpdate(s, v)
  PROVE  IndInv'
<1> DEFINE k == Author[s]
<1>1. k \in Pubkey
  BY AuthorAssumption
<1>2. Grows(queue, EnqueuePublish(queue, k), {k})
  BY <1>1, EnqueuePublishGrows, Zenon DEF IndInv
<1>3. Grows(EnqueuePublish(queue, k), queue', {k})
  BY <1>1, <1>2, EnqueueGrows, Zenon DEF Grows, EnqueueUpdate, Operation
<1>4. Grows(queue, queue', {k} \cup {k})
  BY <1>2, <1>3, GrowsTrans, Zenon DEF IndInv
<1>5. Grows(queue, queue', {k})
  BY <1>4, {k} \cup {k} = {k}, Zenon
<1>6. queue.issued[k] + 2 \in Nat /\ mapping \in [Source -> Nat]
  BY <1>1 DEF IndInv, TypeOK
<1>7. operation' \in [Source -> Version \cup {NoVersion}]
  BY Zenon DEF EnqueueUpdate, SaveSourceOperation, IndInv, TypeOK
<1> QED
  BY <1>1, <1>5, <1>6, <1>7, GrowsIndInv DEF EnqueueUpdate, IndInv, TypeOK, relayVars

\* ReconcileBatch keeps the inductive invariant, whichever records it skips.
LEMMA ReconcileBatchStep ==
  ASSUME IndInv, NEW x \in Source, NEW vx \in Version,
         NEW y \in Source, NEW vy \in Version, ReconcileBatch(x, vx, y, vy)
  PROVE  IndInv'
<1> DEFINE doX == Changed(x, vx)
           doY == x # y /\ Changed(y, vy)
           kx == Author[x]
           ky == Author[y]
           qx == IF doX THEN EnqueuePublish(queue, kx) ELSE queue
<1>1. kx \in Pubkey /\ ky \in Pubkey
  BY AuthorAssumption, Zenon
<1>2. Grows(queue, qx, {kx})
  BY <1>1, EnqueuePublishGrows, GrowsRefl, Zenon DEF IndInv
<1>3. queue' = IF doY THEN EnqueuePublish(qx, ky) ELSE qx
  BY Zenon DEF ReconcileBatch
<1>4. QueueInv(qx)
  BY <1>2, Zenon DEF Grows
<1> HIDE DEF qx
<1>5. Grows(qx, queue', {ky})
  BY <1>1, <1>3, <1>4, EnqueuePublishGrows, GrowsRefl, Zenon
<1>6. Grows(queue, queue', {kx, ky})
  <2>1. Grows(queue, queue', {kx} \cup {ky})
    BY <1>2, <1>5, GrowsTrans, Zenon DEF IndInv
  <2> QED
    BY <2>1, {kx} \cup {ky} = {kx, ky}, Zenon
<1>7. queue.issued[kx] + 1 \in Nat /\ qx.issued[ky] + 1 \in Nat
  BY <1>1, <1>4 DEF IndInv, TypeOK, QueueInv, QueueType
<1>8. /\ mapping' = [s \in Source |->
           CASE doX /\ s = x -> queue.issued[kx] + 1
             [] doY /\ s = y -> qx.issued[ky] + 1
             [] OTHER -> mapping[s]]
      /\ operation' = [s \in Source |->
           CASE doX /\ s = x -> vx
             [] doY /\ s = y -> vy
             [] OTHER -> operation[s]]
  BY Zenon DEF ReconcileBatch, qx
<1> HIDE DEF doX, doY
<1>9. mapping' \in [Source -> Nat]
  BY <1>7, <1>8, Zenon DEF IndInv, TypeOK
<1>10. operation' \in [Source -> Version \cup {NoVersion}]
  BY <1>8, Zenon DEF IndInv, TypeOK
<1>11. \A s \in Source : Author[s] \notin {kx, ky} => mapping'[s] \in {0, mapping[s]}
  BY <1>8, Zenon
<1>12. /\ {kx, ky} \cap purged = {}
       /\ UNCHANGED <<worker, accepted, late, purged, covered, allowed, drifts,
                      registered>>
  BY Zenon DEF ReconcileBatch, relayVars
<1>13. registered' \in SUBSET Pubkey
  BY <1>12, Zenon DEF IndInv, TypeOK
<1> QED
  BY <1>6, <1>9, <1>10, <1>11, <1>12, <1>13, GrowsIndInv, Zenon

\* EnqueuePurge keeps the inductive invariant: the unallow is the last row and
\* the deletion names what is mapped.
LEMMA EnqueuePurgeStep ==
  ASSUME IndInv, NEW k \in Pubkey, EnqueuePurge(k)
  PROVE  IndInv'
<1> DEFINE q1 == Enqueue(queue, k, Publish)
<1>0. QueueInv(queue) /\ queue \in QueueType
  BY Zenon DEF IndInv, QueueInv
<1>1. Grows(queue, q1, {k}) /\ QueueInv(q1)
  BY <1>0, EnqueueGrows, Zenon DEF Operation, Grows
<1>2. queue' = Enqueue(q1, k, Unallow)
  BY Zenon DEF EnqueuePurge
<1>3. Grows(q1, queue', {k}) /\ QueueInv(queue')
  BY <1>1, <1>2, EnqueueGrows, Zenon DEF Operation, Grows
<1>4. Grows(queue, queue', {k})
  <2>1. Grows(queue, queue', {k} \cup {k})
    BY <1>0, <1>1, <1>3, GrowsTrans, Zenon
  <2> QED
    BY <2>1, {k} \cup {k} = {k}, Zenon
<1>5. Delivery'
  BY <1>3, <1>4, ExtendsDelivery, Zenon DEF Grows, EnqueuePurge, relayVars
<1>6. covered' \in [Pubkey -> SUBSET Nat]
  <2>1. {mapping[s] : s \in {t \in Source : Author[t] = k /\ mapping[t] # 0}}
          \in SUBSET Nat
    BY DEF IndInv, TypeOK
  <2> QED
    BY <2>1, Zenon DEF EnqueuePurge, IndInv, TypeOK
<1>7. TypeOK'
  BY <1>3, <1>6, Zenon DEF IndInv, TypeOK, QueueInv, QueueType, EnqueuePurge, relayVars
<1>8. PurgeCoversMappings'
  <2> SUFFICES ASSUME NEW s \in Source, Author[s] \in purged'
               PROVE  mapping[s] \in covered'[Author[s]] \cup {0}
    BY Zenon DEF PurgeCoversMappings, EnqueuePurge
  <2>1. covered \in [Pubkey -> SUBSET Nat] /\ Author[s] \in Pubkey
    BY AuthorAssumption, Zenon DEF IndInv, TypeOK
  <2>2. CASE Author[s] = k
    <3>1. covered'[k] = {mapping[t] : t \in {u \in Source :
                                        Author[u] = k /\ mapping[u] # 0}}
      BY <2>1, Zenon DEF EnqueuePurge
    <3>2. mapping[s] # 0 => mapping[s] \in covered'[k]
      BY <2>2, <3>1, Zenon
    <3> QED
      BY <2>2, <3>2, Zenon
  <2>3. CASE Author[s] # k
    BY <2>1, <2>3, Zenon DEF EnqueuePurge, IndInv, PurgeCoversMappings
  <2> QED
    BY <2>2, <2>3, Zenon
<1>9. PurgeIsLast'
  <2> DEFINE a == NewRow(queue.nextId, k, queue.last[k] + 1, Publish,
                         queue.issued[k] + 1)
             b == NewRow(q1.nextId, k, q1.last[k] + 1, Unallow, 0)
  <2>1. \A r \in queue.rows : r.key = k => r.op # Unallow
    BY Zenon DEF EnqueuePurge, Pending
  <2>2. a.op = Publish /\ q1.rows = queue.rows \cup {a}
    BY Zenon DEF Enqueue, NewRow
  <2>3. /\ b.op = Unallow /\ b.key = k /\ b.seq = q1.last[k] + 1
        /\ queue'.rows = q1.rows \cup {b}
    <3>1. b.op = Unallow /\ b.key = k /\ b.seq = q1.last[k] + 1
      BY Zenon DEF NewRow
    <3>2. Unallow # Publish
      BY Zenon DEF Unallow, Publish
    <3> HIDE DEF q1
    <3>3. queue'.rows = q1.rows \cup {b}
      BY <1>2, <3>2, Zenon DEF Enqueue
    <3> QED
      BY <3>1, <3>3, Zenon
  <2> HIDE DEF a, b, q1
  <2>4. \A r \in q1.rows : r.key = k => r.op # Unallow
    BY <2>1, <2>2, Zenon DEF Publish, Unallow
  <2>5. \A r \in q1.rows : r.key = k => r.seq < b.seq
    BY <1>1, <2>3 DEF QueueInv, QueueType, Row
  <2>6. \A r \in queue'.rows : r.key # k => r \in queue.rows
    BY <1>4, Zenon DEF Grows, Extends
  <2>7. purged' = purged \cup {k}
    BY Zenon DEF EnqueuePurge
  <2> SUFFICES ASSUME NEW r \in queue'.rows, NEW p \in queue'.rows,
                      r.key \in purged', p.key = r.key,
                      r.op = Unallow, p.op # Unallow
               PROVE  p.seq < r.seq
    BY Zenon DEF PurgeIsLast
  <2>8. CASE r.key = k
    <3>1. r = b /\ p # b
      BY <2>3, <2>4, <2>8, Zenon
    <3> QED
      BY <3>1, <2>3, <2>5, <2>8, Zenon
  <2>9. CASE r.key # k
    BY <2>6, <2>7, <2>9, Zenon DEF IndInv, PurgeIsLast
  <2> QED
    BY <2>8, <2>9, Zenon
<1> QED
  BY <1>3, <1>5, <1>7, <1>8, <1>9, Zenon DEF IndInv

\* EnqueueOutbox keeps the inductive invariant: it refuses all but an unallow
\* of a purged publisher.
LEMMA EnqueueOutboxStep ==
  ASSUME IndInv, NEW k \in Pubkey, NEW op \in Operation, EnqueueOutbox(k, op)
  PROVE  IndInv'
<1>1. Grows(queue, queue', {k})
  BY EnqueueGrows, Zenon DEF IndInv, EnqueueOutbox
<1>2. CASE k \notin purged
  BY <1>1, <1>2, GrowsIndInv DEF EnqueueOutbox, IndInv, TypeOK, relayVars
<1>3. CASE op = Unallow
  <2>1. TypeOK'
    BY <1>1, Zenon DEF Grows, QueueInv, QueueType, IndInv, TypeOK, EnqueueOutbox, relayVars
  <2>2. Delivery'
    BY <1>1, ExtendsDelivery, Zenon DEF Grows, EnqueueOutbox, relayVars
  <2>3. PurgeCoversMappings'
    BY Zenon DEF IndInv, PurgeCoversMappings, EnqueueOutbox
  <2>4. PurgeIsLast'
    <3> DEFINE a == NewRow(queue.nextId, k, queue.last[k] + 1, Unallow, 0)
    <3>1. /\ a.op = Unallow /\ a.key = k /\ a.seq = queue.last[k] + 1
          /\ queue'.rows = queue.rows \cup {a}
      BY <1>3, Zenon DEF EnqueueOutbox, Enqueue, NewRow, Publish, Unallow
    <3> HIDE DEF a
    <3>2. \A r \in queue.rows : r.key = k => r.seq < a.seq
      BY <3>1 DEF IndInv, QueueInv, QueueType, Row
    <3> QED
      BY <3>1, <3>2 DEF IndInv, PurgeIsLast, EnqueueOutbox
  <2> QED
    BY <1>1, <2>1, <2>2, <2>3, <2>4, Zenon DEF IndInv, Grows
<1> QED
  BY <1>2, <1>3, Zenon DEF EnqueueOutbox

\* SaveEventAndEnqueue keeps the inductive invariant: it refuses a purged
\* publisher.
LEMMA SaveEventAndEnqueueStep ==
  ASSUME IndInv, NEW s \in Source, SaveEventAndEnqueue(s)
  PROVE  IndInv'
<1> DEFINE k == Author[s]
<1>1. k \in Pubkey
  BY AuthorAssumption
<1>2. Grows(queue, queue', {k})
  BY <1>1, EnqueueGrows, Zenon DEF IndInv, SaveEventAndEnqueue, Operation
<1>3. queue.issued[k] + 1 \in Nat /\ mapping \in [Source -> Nat]
  BY <1>1 DEF IndInv, TypeOK
<1> QED
  BY <1>1, <1>2, <1>3, GrowsIndInv DEF SaveEventAndEnqueue, IndInv, TypeOK, relayVars

\* Operations that write neither the queue nor a purge.
LEMMA TablesStep ==
  ASSUME IndInv,
         \/ \E k \in Pubkey : SetPublisherRegistered(k) \/ ClearPublisherRegistration(k)
         \/ \E s \in Source : DeleteEventBySourceURI(s)
  PROVE  IndInv'
<1>1. /\ UNCHANGED <<queue, worker, accepted, late, purged, covered, allowed,
                     drifts, operation>>
      /\ registered' \in SUBSET Pubkey
      /\ mapping' \in [Source -> Nat]
      /\ \A s \in Source : mapping'[s] \in {0, mapping[s]}
  BY DEF SetPublisherRegistered, ClearPublisherRegistration,
         DeleteEventBySourceURI, IndInv, TypeOK, relayVars
<1>2. Grows(queue, queue', {})
  BY <1>1, GrowsRefl, Zenon DEF IndInv
<1> QED
  BY <1>1, <1>2, GrowsIndInv, Zenon DEF IndInv, TypeOK

\* No operation takes an issued ticket back.
LEMMA EnqueueIssued ==
  ASSUME NEW q, q.issued \in [Pubkey -> Nat], NEW k \in Pubkey, NEW op
  PROVE  /\ Enqueue(q, k, op).issued \in [Pubkey -> Nat]
         /\ \A j \in Pubkey : q.issued[j] <= Enqueue(q, k, op).issued[j]
<1>1. CASE op = Publish
  <2>1. Enqueue(q, k, op).issued = [q.issued EXCEPT ![k] = @ + 1]
    BY <1>1, Zenon DEF Enqueue
  <2> HIDE DEF Enqueue
  <2> QED
    BY <2>1
<1>2. CASE op # Publish
  <2>1. Enqueue(q, k, op).issued = q.issued
    BY <1>2, Zenon DEF Enqueue
  <2> QED
    BY <2>1
<1> QED
  BY <1>1, <1>2, Zenon

\* A publish never takes an issued event back.
LEMMA EnqueuePublishIssued ==
  ASSUME NEW q, q.issued \in [Pubkey -> Nat], NEW k \in Pubkey
  PROVE  /\ EnqueuePublish(q, k).issued \in [Pubkey -> Nat]
         /\ \A j \in Pubkey : q.issued[j] <= EnqueuePublish(q, k).issued[j]
<1> DEFINE p == WithAllow(q, k)
<1>1. p.issued \in [Pubkey -> Nat] /\ \A j \in Pubkey : q.issued[j] <= p.issued[j]
  BY EnqueueIssued DEF WithAllow
<1> HIDE DEF p
<1>2. /\ Enqueue(p, k, Publish).issued \in [Pubkey -> Nat]
      /\ \A j \in Pubkey : p.issued[j] <= Enqueue(p, k, Publish).issued[j]
  BY <1>1, EnqueueIssued, Zenon
<1>3. EnqueuePublish(q, k) = Enqueue(p, k, Publish)
  BY Zenon DEF EnqueuePublish, p
<1> QED
  BY <1>1, <1>2, <1>3

\* No enqueue operation takes an issued event back.
LEMMA SyncIssued ==
  ASSUME IndInv, Sync
  PROVE  \A j \in Pubkey : queue.issued[j] <= queue'.issued[j]
<1>0. queue.issued \in [Pubkey -> Nat] /\ \A s \in Source : Author[s] \in Pubkey
  BY AuthorAssumption, Zenon DEF IndInv, TypeOK
<1>1. CASE \E s \in Source, v \in Version \cup {NoVersion} : EnqueueEvent(s, v)
  BY <1>0, <1>1, EnqueuePublishIssued, Zenon DEF EnqueueEvent
<1>2. CASE \E s \in Source : EnqueueDelete(s)
  BY <1>0, <1>2, EnqueuePublishIssued, Zenon DEF EnqueueDelete
<1>3. ASSUME NEW s \in Source, NEW v \in Version \cup {NoVersion}, EnqueueUpdate(s, v)
      PROVE  \A j \in Pubkey : queue.issued[j] <= queue'.issued[j]
  <2> DEFINE p == EnqueuePublish(queue, Author[s])
  <2>1. p.issued \in [Pubkey -> Nat] /\ \A j \in Pubkey : queue.issued[j] <= p.issued[j]
    BY <1>0, EnqueuePublishIssued, Zenon
  <2>2. queue' = Enqueue(p, Author[s], Publish)
    BY <1>3, Zenon DEF EnqueueUpdate
  <2> HIDE DEF p
  <2> QED
    BY <1>0, <2>1, <2>2, EnqueueIssued
<1>4. ASSUME NEW x \in Source, NEW y \in Source, NEW vx \in Version, NEW vy \in Version,
             ReconcileBatch(x, vx, y, vy)
      PROVE  \A j \in Pubkey : queue.issued[j] <= queue'.issued[j]
  <2> DEFINE p == IF Changed(x, vx) THEN EnqueuePublish(queue, Author[x]) ELSE queue
  <2>1. p.issued \in [Pubkey -> Nat] /\ \A j \in Pubkey : queue.issued[j] <= p.issued[j]
    BY <1>0, EnqueuePublishIssued
  <2>2. queue' = p \/ queue' = EnqueuePublish(p, Author[y])
    BY <1>4, Zenon DEF ReconcileBatch
  <2> HIDE DEF p
  <2> QED
    BY <1>0, <2>1, <2>2, EnqueuePublishIssued
<1>5. ASSUME NEW k \in Pubkey, EnqueuePurge(k)
      PROVE  \A j \in Pubkey : queue.issued[j] <= queue'.issued[j]
  <2> DEFINE p == Enqueue(queue, k, Publish)
  <2>1. p.issued \in [Pubkey -> Nat] /\ \A j \in Pubkey : queue.issued[j] <= p.issued[j]
    BY <1>0, EnqueueIssued, Zenon
  <2>2. queue' = Enqueue(p, k, Unallow)
    BY <1>5, Zenon DEF EnqueuePurge
  <2> HIDE DEF p
  <2> QED
    BY <1>0, <2>1, <2>2, EnqueueIssued
<1> QED
  BY <1>1, <1>2, <1>3, <1>4, <1>5, Zenon DEF Sync

-----------------------------------------------------------------------------
(***************************************************************************)
(* Dispatcher, relay and time.                                             *)
(***************************************************************************)
\* Steps that change only fields of a row the other rows do not look at.
LEMMA ReplaceRearranges ==
  ASSUME IndInv, NEW r \in queue.rows, NEW new \in Row,
         new.id = r.id, new.key = r.key, new.seq = r.seq, new.op = r.op,
         new.ticket = r.ticket, new.owner \in {NoWorker, r.owner},
         queue' = Replace(queue, r, new)
  PROVE  /\ Rearranges
         /\ QueueInv(queue')
         /\ purged' = purged => PurgeIsLast'
<1>0. QueueInv(queue) /\ queue \in QueueType /\ queue.nextId \in Nat
  BY IndInvQueue, Zenon
<1>1. new.owner # NoWorker => IsHead(queue, r)
  BY <1>0, Zenon DEF QueueInv
<1>2. QueueInv(queue')
  BY <1>0, <1>1, ReplaceQueueInv, Zenon
<1>3. /\ queue'.rows = (queue.rows \ {r}) \cup {new}
      /\ queue'.nextId = queue.nextId /\ queue'.issued = queue.issued
  BY <1>0, Zenon DEF Replace, QueueType
<1>4. Rearranges
  <2>1. queue' \in QueueType /\ queue.nextId <= queue'.nextId
    BY <1>0, <1>2, <1>3, QueueInvType
  <2> QED
    BY <1>3, <2>1, Zenon DEF Rearranges
<1>5. purged' = purged => PurgeIsLast'
  BY <1>3 DEF IndInv, PurgeIsLast
<1> QED
  BY <1>2, <1>4, <1>5, Zenon

\* A step that rearranges the queue and gives no worker a new row.
LEMMA RearrangesIndInv ==
  ASSUME IndInv, Rearranges, QueueInv(queue'), PurgeIsLast',
         UNCHANGED <<accepted, late, purged, covered>>,
         worker' \in [Worker -> [phase : Phase, row : Row \cup {NoRow}]],
         \A w \in Worker : worker'[w].phase = "idle" \/ worker'[w] = worker[w],
         registered' \in SUBSET Pubkey, allowed' \in SUBSET Pubkey, drifts' \in Nat,
         mapping' \in [Source -> Nat],
         \A s \in Source : mapping'[s] \in {0, mapping[s]},
         operation' \in [Source -> Version \cup {NoVersion}]
  PROVE  IndInv'
<1>1. Delivery'
  BY RearrangesDelivery, Zenon
<1>2. \A w \in Worker : worker'[w].phase # "idle" => worker'[w].row \in Row
  BY Zenon DEF IndInv, TypeOK
<1>3. TypeOK'
  BY <1>2, Zenon DEF IndInv, TypeOK, QueueInv, QueueType
<1>4. PurgeCoversMappings'
  BY Zenon DEF IndInv, PurgeCoversMappings
<1> QED
  BY <1>1, <1>3, <1>4, Zenon DEF IndInv

\* A step that leaves the outbox alone drops no event.
LEMMA SameQueueRearranges ==
  ASSUME IndInv, UNCHANGED <<queue, purged>>
  PROVE  Rearranges /\ QueueInv(queue') /\ PurgeIsLast'
<1>1. queue \in QueueType /\ queue.nextId \in Nat /\ queue.nextId <= queue.nextId
  BY IndInvQueue
<1>2. Rearranges
  BY <1>1, Zenon DEF Rearranges
<1>3. QueueInv(queue')
  BY Zenon DEF IndInv
<1>4. PurgeIsLast'
  BY Zenon DEF IndInv, PurgeIsLast
<1> QED
  BY <1>2, <1>3, <1>4, Zenon

\* A worker that lets go of its row keeps its type.
LEMMA ReleaseType ==
  ASSUME IndInv, NEW w \in Worker, Release(w)
  PROVE  /\ worker' \in [Worker -> [phase : Phase, row : Row \cup {NoRow}]]
         /\ \A v \in Worker : worker'[v].phase = "idle" \/ worker'[v] = worker[v]
<1>1. [phase |-> "idle", row |-> NoRow] \in [phase : Phase, row : Row \cup {NoRow}]
  BY Zenon DEF Phase
<1> QED
  BY <1>1, Zenon DEF Release, IndInv, TypeOK

\* A crash of a dispatcher keeps the inductive invariant.
LEMMA CrashStep ==
  ASSUME IndInv, NEW w \in Worker, Crash(w)
  PROVE  IndInv'
<1>1. Release(w) /\ UNCHANGED <<queue, registered, purged, covered, mapping, operation,
                                allowed, accepted, late, drifts>>
  BY Zenon DEF Crash, storeVars, relayVars
<1>2. Rearranges /\ QueueInv(queue') /\ PurgeIsLast'
  BY <1>1, SameQueueRearranges, Zenon
<1> QED
  BY <1>1, <1>2, ReleaseType, RearrangesIndInv, Zenon DEF IndInv, TypeOK

\* The relay's forgetting a publisher keeps the inductive invariant.
LEMMA RelayForgetsStep ==
  ASSUME IndInv, NEW k \in Pubkey, RelayForgets(k)
  PROVE  IndInv'
<1>1. UNCHANGED <<queue, registered, purged, covered, mapping, operation,
                  worker, accepted, late>>
  BY Zenon DEF RelayForgets, storeVars
<1>2. Rearranges /\ QueueInv(queue') /\ PurgeIsLast'
  BY <1>1, SameQueueRearranges, Zenon
<1>3. allowed' \in SUBSET Pubkey /\ drifts' \in Nat
  BY DEF RelayForgets, IndInv, TypeOK
<1> QED
  BY <1>1, <1>2, <1>3, RearrangesIndInv, Zenon DEF IndInv, TypeOK

\* The end of a lease keeps the inductive invariant.
LEMMA LeaseLapsesStep ==
  ASSUME IndInv, NEW r \in queue.rows, LeaseLapses(r)
  PROVE  IndInv'
<1> DEFINE new == [r EXCEPT !.lapsed = TRUE]
<1>0. r \in Row
  BY IndInvQueue, Zenon
<1>1. /\ new \in Row /\ new.id = r.id /\ new.key = r.key /\ new.seq = r.seq
      /\ new.op = r.op /\ new.ticket = r.ticket /\ new.owner = r.owner
  BY <1>0, Zenon DEF Row
<1>2. queue' = Replace(queue, r, new)
  BY Zenon DEF LeaseLapses
<1> HIDE DEF new
<1>3. UNCHANGED <<registered, purged, covered, mapping, operation, worker,
                  allowed, accepted, late, drifts>>
  BY Zenon DEF LeaseLapses, relayVars
<1>4. Rearranges /\ QueueInv(queue') /\ PurgeIsLast'
  BY <1>1, <1>2, <1>3, ReplaceRearranges, Zenon
<1> QED
  BY <1>3, <1>4, RearrangesIndInv, Zenon DEF IndInv, TypeOK

\* The end of a backoff keeps the inductive invariant.
LEMMA BackoffElapsesStep ==
  ASSUME IndInv, NEW r \in queue.rows, BackoffElapses(r)
  PROVE  IndInv'
<1> DEFINE new == [r EXCEPT !.ready = TRUE]
<1>0. r \in Row
  BY IndInvQueue
<1>1. /\ new \in Row /\ new.id = r.id /\ new.key = r.key /\ new.seq = r.seq
      /\ new.op = r.op /\ new.ticket = r.ticket /\ new.owner = r.owner
  BY <1>0, Zenon DEF Row
<1>2. queue' = Replace(queue, r, new)
  BY Zenon DEF BackoffElapses
<1> HIDE DEF new
<1>3. UNCHANGED <<registered, purged, covered, mapping, operation, worker,
                  allowed, accepted, late, drifts>>
  BY Zenon DEF BackoffElapses, relayVars
<1>4. Rearranges /\ QueueInv(queue') /\ PurgeIsLast'
  BY <1>1, <1>2, <1>3, ReplaceRearranges, Zenon
<1> QED
  BY <1>3, <1>4, RearrangesIndInv, Zenon DEF IndInv, TypeOK

\* Completing a row whose event was accepted drops no undelivered event.
LEMMA RemoveRearranges ==
  ASSUME IndInv, NEW r \in queue.rows, queue' = Remove(queue, r), purged' = purged,
         r.op = Publish => r.ticket \in accepted[r.key]
  PROVE  Rearranges /\ QueueInv(queue') /\ PurgeIsLast'
<1>0. QueueInv(queue) /\ queue \in QueueType /\ queue.nextId \in Nat
  BY IndInvQueue, Zenon
<1>1. QueueInv(queue')
  BY <1>0, RemoveQueueInv, Zenon
<1>2. /\ queue'.rows = queue.rows \ {r}
      /\ queue'.nextId = queue.nextId /\ queue'.issued = queue.issued
  BY <1>0, Zenon DEF Remove, QueueType
<1>3. queue' \in QueueType /\ queue.nextId <= queue'.nextId
  BY <1>0, <1>1, <1>2, QueueInvType
<1>4. Rearranges
  BY <1>2, <1>3, Zenon DEF Rearranges
<1>5. PurgeIsLast'
  BY <1>2, Zenon DEF IndInv, PurgeIsLast
<1> QED
  BY <1>1, <1>4, <1>5, Zenon

\* Recovery keeps every event queued and in front of a purge's unallow.
LEMMA RecoverRearranges ==
  ASSUME IndInv, NEW r \in queue.rows, r.op = Publish, r.owner # NoWorker,
         queue' = Recover(queue, r), purged' = purged
  PROVE  Rearranges /\ QueueInv(queue') /\ PurgeIsLast'
<1> DEFINE a == NewRow(r.id, r.key, r.seq, Allow, 0)
           b == NewRow(queue.nextId, r.key, r.seq + 1, Publish, r.ticket)
<1>0. /\ QueueInv(queue) /\ queue \in QueueType /\ queue.nextId \in Nat
      /\ IsHead(queue, r)
      /\ r.seq \in Nat /\ \A x \in queue.rows : x.seq \in Nat
  BY IndInvQueue, Zenon DEF QueueInv
<1>1. Recovered(queue, r, queue', a, b)
  BY <1>0, RecoverRows, Zenon
<1> HIDE DEF a, b
<1>2. QueueInv(queue')
  BY <1>0, <1>1, RecoverQueueInv, Zenon
<1>3. /\ queue' \in QueueType
      /\ queue'.nextId = queue.nextId + 1
      /\ queue'.issued = queue.issued
      /\ a.key = r.key /\ a.seq = r.seq /\ a.op = Allow /\ a.owner = NoWorker
      /\ b \in queue'.rows
      /\ b.key = r.key /\ b.seq = r.seq + 1 /\ b.op = Publish
      /\ b.ticket = r.ticket /\ b.owner = NoWorker
  BY <1>1, Zenon DEF Recovered
<1>4. \A y \in queue'.rows : y = a \/ y = b \/ \E x \in queue.rows \ {r} :
        /\ y.id = x.id /\ y.key = x.key
        /\ y.op = x.op /\ y.ticket = x.ticket /\ y.owner = x.owner
        /\ y.key # r.key => y.seq = x.seq
        /\ y.key = r.key => y.seq = x.seq + 1 /\ x.seq > r.seq
  BY <1>1, Zenon DEF Recovered
<1>5. \A x \in queue.rows \ {r} : \E y \in queue'.rows :
        y.key = x.key /\ y.op = x.op /\ y.ticket = x.ticket
  BY <1>1, Zenon DEF Recovered
<1>6. Allow # Publish /\ Allow # Unallow /\ Publish # Unallow
  BY Zenon DEF Allow, Publish, Unallow
<1>7. Rearranges
  <2>1. queue.nextId <= queue'.nextId
    BY <1>0, <1>3
  <2>2. \A y \in queue'.rows : y.op = Publish =>
          \E x \in queue.rows :
            x.op = Publish /\ x.key = y.key /\ x.ticket = y.ticket
    BY <1>3, <1>4, <1>6
  <2>3. \A x \in queue.rows : x.op = Publish =>
          \E y \in queue'.rows :
            y.op = Publish /\ y.key = x.key /\ y.ticket = x.ticket
    BY <1>3, <1>5
  <2>4. \A y \in queue'.rows : y.owner # NoWorker =>
          \E x \in queue.rows :
            /\ x.id = y.id /\ x.owner = y.owner
            /\ x.key = y.key /\ x.op = y.op /\ x.ticket = y.ticket
    BY <1>3, <1>4
  <2> QED
    BY <1>3, <2>1, <2>2, <2>3, <2>4, Zenon DEF Rearranges
<1>8. PurgeIsLast'
  <2> SUFFICES ASSUME NEW y \in queue'.rows, NEW z \in queue'.rows,
                      y.key \in purged, z.key = y.key,
                      y.op = Unallow, z.op # Unallow
               PROVE  z.seq < y.seq
    BY Zenon DEF PurgeIsLast
  <2>1. PICK x \in queue.rows \ {r} :
          /\ x.key = y.key /\ x.op = Unallow
          /\ y.key # r.key => y.seq = x.seq
          /\ y.key = r.key => y.seq = x.seq + 1 /\ x.seq > r.seq
    BY <1>3, <1>4, <1>6, Zenon
  <2>2. CASE z = a
    BY <1>0, <1>3, <2>1, <2>2
  <2>3. CASE z = b
    BY <1>0, <1>3, <2>1, <2>3
  <2>4. CASE z # a /\ z # b
    <3>1. PICK o \in queue.rows \ {r} :
            /\ o.key = z.key /\ o.op = z.op
            /\ z.key # r.key => z.seq = o.seq
            /\ z.key = r.key => z.seq = o.seq + 1 /\ o.seq > r.seq
      BY <1>4, <2>4, Zenon
    <3>2. o.seq < x.seq
      BY <2>1, <3>1, Zenon DEF IndInv, PurgeIsLast
    <3> QED
      BY <1>0, <2>1, <3>1, <3>2
  <2> QED
    BY <2>2, <2>3, <2>4, Zenon
<1> QED
  BY <1>2, <1>7, <1>8, Zenon

\* What a worker writes under a claim it still has.
LEMMA OwnedRow ==
  ASSUME IndInv, NEW w \in Worker, worker[w].phase # "idle",
         NEW r \in queue.rows, Owned(queue, w, r)
  PROVE  /\ r \in Row /\ r.owner # NoWorker
         /\ r.key = worker[w].row.key /\ r.op = worker[w].row.op
         /\ r.ticket = worker[w].row.ticket
         /\ r.op = Publish /\ worker[w].phase = "ok" => r.ticket \in accepted[r.key]
BY NoWorkerAssumption
   DEF Owned, IndInv, Delivery, WorkerInv, QueueInv, QueueType

\* Every outcome DispatchOne can write keeps the inductive invariant.
LEMMA FinishStep ==
  ASSUME IndInv, NEW w \in Worker, Finish(w)
  PROVE  IndInv'
<1>1. /\ worker[w].phase # "idle" /\ Release(w)
      /\ UNCHANGED <<purged, covered, allowed, accepted, late, drifts>>
  BY Zenon DEF Finish, relayVars
<1>2. Allow # Publish /\ Allow # Unallow /\ Publish # Unallow
  BY Zenon DEF Allow, Publish, Unallow
<1> DEFINE Written == /\ Rearranges /\ QueueInv(queue') /\ PurgeIsLast'
                      /\ registered' \in SUBSET Pubkey
                      /\ mapping' \in [Source -> Nat]
                      /\ \A s \in Source : mapping'[s] \in {0, mapping[s]}
                      /\ operation' \in [Source -> Version \cup {NoVersion}]
<1>3. SUFFICES Written
  BY <1>1, ReleaseType, RearrangesIndInv, Zenon DEF IndInv, TypeOK
<1>4. CASE ClaimLost(w)
  BY <1>1, <1>4, SameQueueRearranges, Zenon DEF ClaimLost, IndInv, TypeOK
<1>5. CASE FinishClaimed(w)
  <2>1. PICK r \in queue.rows :
          /\ Owned(queue, w, r)
          /\ \/ worker[w].phase = "ok" /\ CompleteOutbox(w, r)
             \/ worker[w].phase = "ok" /\ CompletePublisherRegistration(w, r)
             \/ worker[w].phase = "ok" /\ CompletePublisherUnregistration(w, r)
             \/ worker[w].phase = "restricted" /\ RecoverPublisherRegistration(w, r)
             \/ worker[w].phase = "failed" /\ RetryOutbox(r)
    BY <1>5, Zenon DEF FinishClaimed
  <2>2. /\ r \in Row /\ r.owner # NoWorker
        /\ r.key = worker[w].row.key /\ r.op = worker[w].row.op
        /\ r.op = Publish /\ worker[w].phase = "ok" => r.ticket \in accepted[r.key]
        /\ r.key \in Pubkey
    BY <1>1, <2>1, OwnedRow, Zenon DEF Row
  <2>3. CASE worker[w].phase = "ok" /\ CompleteOutbox(w, r)
    BY <1>1, <2>2, <2>3, RemoveRearranges, Zenon DEF CompleteOutbox, IndInv, TypeOK
  <2>4. CASE worker[w].phase = "ok" /\ CompletePublisherRegistration(w, r)
    <3>1. registered' \in SUBSET Pubkey /\ UNCHANGED <<mapping, operation>>
      BY <2>2, <2>4, Zenon DEF CompletePublisherRegistration, IndInv, TypeOK
    <3>2. Rearranges /\ QueueInv(queue') /\ PurgeIsLast'
      BY <1>1, <1>2, <2>2, <2>4, RemoveRearranges, Zenon DEF CompletePublisherRegistration
    <3> QED
      BY <3>1, <3>2, Zenon DEF IndInv, TypeOK
  <2>5. CASE worker[w].phase = "ok" /\ CompletePublisherUnregistration(w, r)
    <3>1. registered' \in SUBSET Pubkey
      BY <2>5, Zenon DEF CompletePublisherUnregistration, IndInv, TypeOK
    <3>2. Rearranges /\ QueueInv(queue') /\ PurgeIsLast'
      BY <1>1, <1>2, <2>2, <2>5, RemoveRearranges, Zenon DEF CompletePublisherUnregistration
    <3>3. /\ mapping' \in [Source -> Nat]
          /\ \A s \in Source : mapping'[s] \in {0, mapping[s]}
          /\ operation' \in [Source -> Version \cup {NoVersion}]
      BY <2>5, Zenon DEF CompletePublisherUnregistration, IndInv, TypeOK
    <3> QED
      BY <3>1, <3>2, <3>3, Zenon
  <2>6. CASE worker[w].phase = "restricted" /\ RecoverPublisherRegistration(w, r)
    <3>1. registered' \in SUBSET Pubkey /\ UNCHANGED <<mapping, operation>>
      BY <2>6, Zenon DEF RecoverPublisherRegistration, IndInv, TypeOK
    <3>2. Rearranges /\ QueueInv(queue') /\ PurgeIsLast'
      BY <1>1, <2>2, <2>6, RecoverRearranges, Zenon DEF RecoverPublisherRegistration
    <3> QED
      BY <3>1, <3>2 DEF IndInv, TypeOK
  <2>7. CASE worker[w].phase = "failed" /\ RetryOutbox(r)
    <3> DEFINE new == [r EXCEPT !.owner = NoWorker, !.lapsed = FALSE,
                                !.ready = FALSE]
    <3>1. /\ new \in Row /\ new.id = r.id /\ new.key = r.key /\ new.seq = r.seq
          /\ new.op = r.op /\ new.ticket = r.ticket /\ new.owner = NoWorker
      BY <2>2, Zenon DEF Row
    <3>2. queue' = Replace(queue, r, new) /\ UNCHANGED <<registered, mapping, operation>>
      BY <2>7, Zenon DEF RetryOutbox
    <3> HIDE DEF new
    <3>3. Rearranges /\ QueueInv(queue') /\ PurgeIsLast'
      BY <1>1, <3>1, <3>2, ReplaceRearranges, Zenon
    <3> QED
      BY <3>2, <3>3, Zenon DEF IndInv, TypeOK
  <2> QED
    BY <2>1, <2>3, <2>4, <2>5, <2>6, <2>7, Zenon
<1> QED
  BY <1>4, <1>5, Zenon DEF Finish

\* The next claimed row is a head, so nothing of its aggregate is older.
LEMMA ClaimOutboxStep ==
  ASSUME IndInv, NEW w \in Worker, ClaimOutbox(w)
  PROVE  IndInv'
<1>1. PICK r \in queue.rows :
        /\ Claimable(queue, r)
        /\ queue' = Replace(queue, r, [r EXCEPT !.owner = w, !.lapsed = FALSE])
        /\ worker' = [worker EXCEPT ![w] = [phase |-> "claimed", row |-> r]]
  BY Zenon DEF ClaimOutbox
<1> DEFINE new == [r EXCEPT !.owner = w, !.lapsed = FALSE]
<1>2. /\ QueueInv(queue) /\ queue \in QueueType /\ queue.nextId \in Nat
      /\ r \in Row /\ r.id < queue.nextId /\ r.key \in Pubkey /\ r.ticket \in Nat
      /\ r.op = Publish => r.ticket \in 1..queue.issued[r.key]
      /\ IsHead(queue, r)
  BY <1>1, Zenon DEF IndInv, QueueInv, QueueType, Row, Claimable
<1>3. /\ new \in Row /\ new.id = r.id /\ new.key = r.key /\ new.seq = r.seq
      /\ new.op = r.op /\ new.ticket = r.ticket /\ new.owner = w
  BY <1>2, Zenon DEF Row
<1>4. queue' = Replace(queue, r, new)
  BY <1>1, Zenon
<1> HIDE DEF new
<1>5. QueueInv(queue')
  BY <1>2, <1>3, <1>4, ReplaceQueueInv, Zenon
<1>6. /\ queue'.rows = (queue.rows \ {r}) \cup {new}
      /\ queue'.nextId = queue.nextId /\ queue'.issued = queue.issued
      /\ queue' \in QueueType
  BY <1>2, <1>4, <1>5, Zenon DEF Replace, QueueType, QueueInv
<1>7. UNCHANGED <<registered, purged, covered, mapping, operation,
                  allowed, accepted, late, drifts>>
  BY Zenon DEF ClaimOutbox, relayVars
<1>8. /\ worker' \in [Worker -> [phase : Phase, row : Row \cup {NoRow}]]
      /\ worker'[w].phase = "claimed" /\ worker'[w].row = r
      /\ \A v \in Worker : v # w => worker'[v] = worker[v]
  <2>1. [phase |-> "claimed", row |-> r] \in [phase : Phase, row : Row \cup {NoRow}]
    BY <1>2, Zenon DEF Phase
  <2> QED
    BY <1>1, <2>1, Zenon DEF IndInv, TypeOK
<1>9. TypeOK'
  <2>1. \A v \in Worker : worker'[v].phase # "idle" => worker'[v].row \in Row
    BY <1>2, <1>8, Zenon DEF IndInv, TypeOK
  <2> QED
    BY <1>6, <1>7, <1>8, <2>1 DEF IndInv, TypeOK, QueueType
<1>10. WorkerInv'
  <2> SUFFICES ASSUME NEW v \in Worker, worker'[v].phase # "idle",
                      NEW x, x = worker'[v].row
               PROVE  /\ x.id < queue'.nextId
                      /\ x.op = Publish => x.ticket \in 1..queue'.issued[x.key]
                      /\ \A p \in queue'.rows : p.id = x.id /\ p.owner = v =>
                           p.key = x.key /\ p.op = x.op /\ p.ticket = x.ticket
                      /\ x.op = Publish /\ worker'[v].phase = "ok"
                           => x.ticket \in accepted'[x.key]
    BY DEF WorkerInv
  <2>1. CASE v = w
    <3>1. \A p \in queue'.rows : p.id = x.id =>
                           p.key = x.key /\ p.op = x.op /\ p.ticket = x.ticket
      <4>1. \A p \in queue.rows : p.id = r.id => p = r
        BY <1>2, Zenon DEF QueueInv
      <4> QED
        BY <1>3, <1>6, <1>8, <2>1, <4>1, Zenon
    <3> QED
      BY <1>2, <1>6, <1>8, <2>1, <3>1, Zenon
  <2>2. CASE v # w
    <3>1. worker'[v] = worker[v]
      BY <1>8, <2>2, Zenon
    <3> QED
      BY <1>3, <1>6, <1>7, <2>2, <3>1 DEF IndInv, Delivery, WorkerInv
  <2> QED
    BY <2>1, <2>2, Zenon
<1>11. NoOvertaking'
  <2>1. \A p \in queue.rows : p.op = Publish /\ r.op = Publish /\ p.key = r.key
                                => r.ticket <= p.ticket
    <3> SUFFICES ASSUME NEW p \in queue.rows, p.op = Publish, r.op = Publish,
                        p.key = r.key
                 PROVE  r.ticket <= p.ticket
      BY Zenon
    <3>1. p \in Row /\ p.seq \in Nat /\ p.ticket \in Nat /\ r.seq \in Nat
      BY <1>2, Zenon DEF QueueType, Row
    <3>2. r.seq <= p.seq
      BY <1>2, Zenon DEF IsHead
    <3>3. CASE r.seq = p.seq
      BY <1>2, <3>1, <3>3 DEF QueueInv
    <3>4. CASE r.seq < p.seq
      BY <1>2, <3>1, <3>4 DEF QueueInv
    <3> QED
      BY <3>1, <3>2, <3>3, <3>4
  <2>2. \A p \in queue'.rows : \E o \in queue.rows :
          o.op = p.op /\ o.key = p.key /\ o.ticket = p.ticket
    BY <1>3, <1>6, Zenon
  <2>3. ASSUME NEW v \in Worker, NEW p \in queue'.rows,
               worker'[v].phase # "idle", worker'[v].row.op = Publish,
               p.op = Publish, p.key = worker'[v].row.key
        PROVE  worker'[v].row.ticket <= p.ticket
    <3>1. PICK o \in queue.rows : o.op = p.op /\ o.key = p.key /\ o.ticket = p.ticket
      BY <2>2, Zenon
    <3>2. CASE v = w
      BY <1>8, <2>1, <2>3, <3>1, <3>2, Zenon
    <3>3. CASE v # w
      BY <1>8, <2>3, <3>1, <3>3, Zenon DEF IndInv, Delivery, NoOvertaking
    <3> QED
      BY <3>2, <3>3, Zenon
  <2>4. ASSUME NEW m \in late', NEW p \in queue'.rows,
               m.op = Publish, p.op = Publish, p.key = m.key
        PROVE  m.ticket <= p.ticket
    <3>1. PICK o \in queue.rows : o.op = p.op /\ o.key = p.key /\ o.ticket = p.ticket
      BY <2>2, Zenon
    <3> QED
      BY <1>7, <2>4, <3>1, Zenon DEF IndInv, Delivery, NoOvertaking
  <2> QED
    BY <2>3, <2>4, Zenon DEF NoOvertaking
<1>12. NothingLost'
  BY <1>3, <1>6, <1>7 DEF IndInv, Delivery, NothingLost
<1>13. LateInv' /\ AcceptedPrefix'
  BY <1>6, <1>7, Zenon DEF IndInv, Delivery, LateInv, AcceptedPrefix
<1>14. PurgeIsLast' /\ PurgeCoversMappings'
  BY <1>3, <1>6, <1>7 DEF IndInv, PurgeIsLast, PurgeCoversMappings
<1> QED
  BY <1>5, <1>9, <1>10, <1>11, <1>12, <1>13, <1>14, Zenon DEF IndInv, Delivery

\* The relay receives the next event of publisher k.
Receives(k) ==
  \E n \in 1..queue.issued[k] :
    /\ accepted[k] = 1..(n - 1)
    /\ accepted' = [accepted EXCEPT ![k] = 1..n]

\* A request for an event that no queued event precedes: the event has been
\* accepted already, or it is the next one.
Deliverable(m) ==
  /\ m.key \in Pubkey
  /\ m.op = Publish =>
       /\ m.ticket \in 1..queue.issued[m.key]
       /\ \A r \in queue.rows : r.op = Publish /\ r.key = m.key => m.ticket <= r.ticket

\* A request that no queued event precedes is a duplicate or exactly the next
\* event of its publisher.
LEMMA NextTicket ==
  ASSUME IndInv, NEW m, Deliverable(m), m.op = Publish
  PROVE  \/ m.ticket \in accepted[m.key]
         \/ /\ accepted[m.key] = 1..(m.ticket - 1)
            /\ accepted[m.key] \cup {m.ticket} = 1..m.ticket
<1>1. /\ m.key \in Pubkey /\ queue.issued[m.key] \in Nat
      /\ m.ticket \in 1..queue.issued[m.key]
  BY Zenon DEF Deliverable, IndInv, TypeOK
<1>2. PICK n \in 0..queue.issued[m.key] : accepted[m.key] = 1..n
  BY <1>1, Zenon DEF IndInv, Delivery, AcceptedPrefix
<1>3. \A t \in 1..queue.issued[m.key] : t < m.ticket => t \in 1..n
  <2> SUFFICES ASSUME NEW t \in 1..queue.issued[m.key], t < m.ticket,
                      t \notin accepted[m.key]
               PROVE  FALSE
    BY <1>2, Zenon
  <2>1. PICK r \in queue.rows : r.key = m.key /\ r.op = Publish /\ r.ticket = t
    BY <1>1 DEF IndInv, Delivery, NothingLost
  <2>2. m.ticket <= t
    BY <2>1, Zenon DEF Deliverable
  <2> QED
    BY <1>1, <2>2
<1>4. CASE m.ticket <= n
  BY <1>1, <1>2, <1>4
<1>5. CASE m.ticket > n
  <2>1. CASE m.ticket = n + 1
    BY <1>1, <1>2, <2>1
  <2>2. CASE m.ticket > n + 1
    BY <1>1, <1>2, <1>3, <2>2
  <2> QED
    BY <1>1, <1>5, <2>1, <2>2
<1> QED
  BY <1>1, <1>4, <1>5

\* Whatever request the relay handles, it receives nothing new or the next event.
LEMMA RelayHandlesNext ==
  ASSUME IndInv, NEW m, Deliverable(m), RelayHandles(m)
  PROVE  /\ allowed' \in SUBSET Pubkey
         /\ accepted' = accepted \/ Receives(m.key)
         /\ m.op = Publish /\ Accepts(m) => m.ticket \in accepted'[m.key]
<1>1. /\ m.key \in Pubkey /\ queue.issued[m.key] \in Nat
      /\ accepted \in [Pubkey -> SUBSET Nat] /\ allowed \in SUBSET Pubkey
  BY Zenon DEF Deliverable, IndInv, TypeOK
<1>2. allowed' \in SUBSET Pubkey
  BY <1>1, Zenon DEF RelayHandles
<1>3. CASE m.op = Publish /\ Accepts(m)
  <2>1. accepted' = [accepted EXCEPT ![m.key] = @ \cup {m.ticket}]
    BY <1>3, Zenon DEF RelayHandles
  <2>2. CASE m.ticket \in accepted[m.key]
    <3>1. accepted[m.key] \cup {m.ticket} = accepted[m.key]
      BY <2>2, Zenon
    <3> QED
      BY <1>1, <1>2, <2>1, <2>2, <3>1, Zenon
  <2>3. CASE /\ accepted[m.key] = 1..(m.ticket - 1)
             /\ accepted[m.key] \cup {m.ticket} = 1..m.ticket
    <3>1. m.ticket \in 1..queue.issued[m.key]
      BY <1>3, Zenon DEF Deliverable
    <3>2. Receives(m.key)
      BY <2>1, <2>3, <3>1, Zenon DEF Receives
    <3>3. m.ticket \in accepted'[m.key]
      BY <1>1, <2>1, Zenon
    <3> QED
      BY <1>2, <3>2, <3>3, Zenon
  <2> QED
    BY <1>3, <2>2, <2>3, NextTicket, Zenon
<1>4. CASE ~(m.op = Publish /\ Accepts(m))
  BY <1>2, <1>4, Zenon DEF RelayHandles
<1> QED
  BY <1>3, <1>4, Zenon

\* A step in which the relay receives at most the next event of a publisher,
\* and workers keep their rows.
LEMMA ReceivesIndInv ==
  ASSUME IndInv, NEW k \in Pubkey, accepted' = accepted \/ Receives(k),
         UNCHANGED storeVars, allowed' \in SUBSET Pubkey, drifts' = drifts,
         worker' \in [Worker -> [phase : Phase, row : Row \cup {NoRow}]],
         \A w \in Worker :
           \/ worker'[w] = worker[w]
           \/ /\ worker[w].phase # "idle" /\ worker'[w].row = worker[w].row
              /\ worker[w].row.op = Publish /\ worker'[w].phase = "ok"
                   => worker[w].row.ticket \in accepted'[worker[w].row.key],
         late' \in SUBSET Request,
         \A m \in late' : m \in late \/ Deliverable(m)
  PROVE  IndInv'
<1>1. UNCHANGED <<queue, registered, purged, covered, mapping, operation>>
  BY Zenon DEF storeVars
<1>2. /\ accepted \in [Pubkey -> SUBSET Nat]
      /\ \A j \in Pubkey : queue.issued[j] \in Nat
  BY Zenon DEF IndInv, TypeOK
<1>3. /\ accepted' \in [Pubkey -> SUBSET Nat]
      /\ \A j \in Pubkey : accepted[j] \subseteq accepted'[j]
      /\ \A j \in Pubkey : accepted'[j] = accepted[j]
                             \/ \E n \in 0..queue.issued[j] : accepted'[j] = 1..n
  <2>1. CASE accepted' = accepted
    BY <1>2, <2>1, Zenon
  <2>2. CASE Receives(k)
    <3>1. PICK n \in 1..queue.issued[k] :
            /\ accepted[k] = 1..(n - 1)
            /\ accepted' = [accepted EXCEPT ![k] = 1..n]
      BY <2>2, Zenon DEF Receives
    <3>2. /\ n \in 0..queue.issued[k] /\ 1..(n - 1) \subseteq 1..n
          /\ 1..n \in SUBSET Nat
      BY <1>2, <3>1
    <3> QED
      BY <1>2, <3>1, <3>2, Zenon
  <2> QED
    BY <2>1, <2>2, Zenon
<1>4. TypeOK'
  <2>1. \A w \in Worker : worker'[w].phase # "idle" => worker'[w].row \in Row
    BY Zenon DEF IndInv, TypeOK
  <2> QED
    BY <1>1, <1>3, <2>1, Zenon DEF IndInv, TypeOK
<1>5. QueueInv(queue') /\ PurgeIsLast' /\ PurgeCoversMappings'
  BY <1>1, Zenon DEF IndInv, PurgeIsLast, PurgeCoversMappings
<1>6. WorkerInv'
  <2> SUFFICES ASSUME NEW w \in Worker, worker'[w].phase # "idle",
                      NEW x, x = worker'[w].row
               PROVE  /\ x.id < queue.nextId
                      /\ x.op = Publish => x.ticket \in 1..queue.issued[x.key]
                      /\ \A r \in queue.rows : r.id = x.id /\ r.owner = w =>
                           r.key = x.key /\ r.op = x.op /\ r.ticket = x.ticket
                      /\ x.op = Publish /\ worker'[w].phase = "ok"
                           => x.ticket \in accepted'[x.key]
    BY <1>1, Zenon DEF WorkerInv
  <2>1. worker[w].phase # "idle" /\ worker[w].row = x
    BY Zenon
  <2>2. x \in Row /\ x.key \in Pubkey
    BY <2>1, Zenon DEF IndInv, TypeOK, Row
  <2>3. /\ x.id < queue.nextId
        /\ x.op = Publish => x.ticket \in 1..queue.issued[x.key]
        /\ \A r \in queue.rows : r.id = x.id /\ r.owner = w =>
             r.key = x.key /\ r.op = x.op /\ r.ticket = x.ticket
        /\ x.op = Publish /\ worker[w].phase = "ok" => x.ticket \in accepted[x.key]
    BY <2>1 DEF IndInv, Delivery, WorkerInv
  <2>4. x.op = Publish /\ worker'[w].phase = "ok" => x.ticket \in accepted'[x.key]
    BY <1>3, <2>1, <2>2, <2>3, Zenon
  <2> QED
    BY <2>3, <2>4, Zenon
<1>7. LateInv'
  BY <1>1, Zenon DEF IndInv, Delivery, LateInv, Deliverable
<1>8. NoOvertaking'
  <2>1. \A w \in Worker : worker'[w].phase # "idle" =>
          worker[w].phase # "idle" /\ worker'[w].row = worker[w].row
    BY Zenon
  <2> QED
    BY <1>1, <2>1, Zenon DEF IndInv, Delivery, NoOvertaking, Deliverable
<1>9. AcceptedPrefix'
  BY <1>1, <1>3, Zenon DEF IndInv, Delivery, AcceptedPrefix
<1>10. NothingLost'
  BY <1>1, <1>3 DEF IndInv, Delivery, NothingLost
<1> QED
  BY <1>4, <1>5, <1>6, <1>7, <1>8, <1>9, <1>10 DEF IndInv, Delivery

\* What a worker past its claim delivers, and what is on its way, is deliverable.
LEMMA RequestDeliverable ==
  ASSUME IndInv
  PROVE  /\ \A w \in Worker : worker[w].phase # "idle" =>
              Deliverable(RequestOf(worker[w].row)) /\ RequestOf(worker[w].row) \in Request
         /\ \A m \in late : Deliverable(m) /\ m \in Request
<1>1. ASSUME NEW w \in Worker, worker[w].phase # "idle"
      PROVE  Deliverable(RequestOf(worker[w].row)) /\ RequestOf(worker[w].row) \in Request
  <2>1. worker[w].row \in Row
    BY <1>1, Zenon DEF IndInv, TypeOK
  <2>2. RequestOf(worker[w].row) \in Request
    BY <2>1, Zenon DEF RequestOf, Request, Row
  <2>3. Deliverable(RequestOf(worker[w].row))
    BY <1>1, <2>1, Zenon
       DEF Deliverable, RequestOf, Row, IndInv, Delivery, WorkerInv, NoOvertaking
  <2> QED
    BY <2>2, <2>3, Zenon
<1>2. ASSUME NEW m \in late
      PROVE  Deliverable(m) /\ m \in Request
  <2>1. m \in Request
    BY Zenon DEF IndInv, TypeOK
  <2> QED
    BY <2>1, Zenon DEF Deliverable, Request, IndInv, Delivery, LateInv, NoOvertaking
<1> QED
  BY <1>1, <1>2, Zenon

\* A worker that learns the result of its delivery keeps its type.
LEMMA SetPhaseType ==
  ASSUME IndInv, NEW w \in Worker, NEW p \in Phase, SetPhase(w, p)
  PROVE  /\ worker' \in [Worker -> [phase : Phase, row : Row \cup {NoRow}]]
         /\ worker'[w].phase = p /\ worker'[w].row = worker[w].row
         /\ \A v \in Worker : v # w => worker'[v] = worker[v]
BY Zenon DEF SetPhase, IndInv, TypeOK

\* A delivery the relay answers keeps the inductive invariant.
LEMMA RelayAnswersStep ==
  ASSUME IndInv, NEW w \in Worker, RelayAnswers(w)
  PROVE  /\ IndInv'
         /\ accepted' = accepted \/ \E k \in Pubkey : Receives(k)
<1> DEFINE m == RequestOf(worker[w].row)
           k == worker[w].row.key
<1>1. /\ worker[w].phase # "idle" /\ RelayHandles(m)
      /\ UNCHANGED storeVars /\ late' = late /\ drifts' = drifts
  BY Zenon DEF RelayAnswers
<1>2. Deliverable(m) /\ m.key = k /\ m.op = worker[w].row.op
      /\ m.ticket = worker[w].row.ticket
  BY <1>1, RequestDeliverable, Zenon DEF RequestOf
<1>3. k \in Pubkey
  BY <1>2, Zenon DEF Deliverable
<1>4. PICK p \in {"ok", "restricted"} :
        /\ SetPhase(w, p)
        /\ p = "ok" => Accepts(m)
  BY Zenon DEF RelayAnswers
<1>5. p \in Phase
  BY <1>4, Zenon DEF Phase
<1> HIDE DEF m, k
<1>6. /\ allowed' \in SUBSET Pubkey
      /\ accepted' = accepted \/ Receives(k)
      /\ m.op = Publish /\ Accepts(m) => m.ticket \in accepted'[k]
  BY <1>1, <1>2, RelayHandlesNext, Zenon
<1>7. /\ worker' \in [Worker -> [phase : Phase, row : Row \cup {NoRow}]]
      /\ worker'[w].phase = p /\ worker'[w].row = worker[w].row
      /\ \A v \in Worker : v # w => worker'[v] = worker[v]
  BY <1>4, <1>5, SetPhaseType, Zenon
<1>8. \A v \in Worker :
        \/ worker'[v] = worker[v]
        \/ /\ worker[v].phase # "idle" /\ worker'[v].row = worker[v].row
           /\ worker[v].row.op = Publish /\ worker'[v].phase = "ok"
                => worker[v].row.ticket \in accepted'[worker[v].row.key]
  BY <1>1, <1>2, <1>4, <1>6, <1>7 DEF k
<1>9. late' \in SUBSET Request
  BY <1>1, Zenon DEF IndInv, TypeOK
<1> QED
  BY <1>1, <1>3, <1>6, <1>7, <1>8, <1>9, ReceivesIndInv, Zenon

\* A delivery that fails or times out keeps the inductive invariant.
LEMMA DeliveryFailsStep ==
  ASSUME IndInv, NEW w \in Worker, DeliveryFails(w) \/ DeliveryTimesOut(w)
  PROVE  IndInv'
<1>1. /\ worker[w].phase # "idle" /\ SetPhase(w, "failed")
      /\ UNCHANGED storeVars /\ UNCHANGED <<allowed, accepted, drifts>>
      /\ late' \subseteq late \cup {RequestOf(worker[w].row)}
  BY Zenon DEF DeliveryFails, DeliveryTimesOut, relayVars
<1>2. "failed" \in Phase /\ "failed" # "ok"
  BY Zenon DEF Phase
<1>3. /\ worker' \in [Worker -> [phase : Phase, row : Row \cup {NoRow}]]
      /\ worker'[w].phase = "failed" /\ worker'[w].row = worker[w].row
      /\ \A v \in Worker : v # w => worker'[v] = worker[v]
  BY <1>1, <1>2, SetPhaseType, Zenon
<1>4. /\ Deliverable(RequestOf(worker[w].row))
      /\ RequestOf(worker[w].row) \in Request
  BY <1>1, RequestDeliverable, Zenon
<1>5. late' \in SUBSET Request /\ \A m \in late' : m \in late \/ Deliverable(m)
  BY <1>1, <1>4 DEF IndInv, TypeOK
<1>6. worker[w].row.key \in Pubkey
  BY <1>1, Zenon DEF IndInv, TypeOK, Row
<1>7. \A v \in Worker :
        \/ worker'[v] = worker[v]
        \/ /\ worker[v].phase # "idle" /\ worker'[v].row = worker[v].row
           /\ worker'[v].phase # "ok"
  BY <1>1, <1>2, <1>3
<1>8. allowed' \in SUBSET Pubkey
  BY <1>1, Zenon DEF IndInv, TypeOK
<1> QED
  BY <1>1, <1>3, <1>5, <1>6, <1>7, <1>8, ReceivesIndInv, Zenon

\* A request that reaches the relay after its timeout keeps the inductive
\* invariant.
LEMMA LateArrivalStep ==
  ASSUME IndInv, NEW m \in late, LateArrival(m)
  PROVE  /\ IndInv'
         /\ accepted' = accepted \/ \E k \in Pubkey : Receives(k)
<1>1. /\ RelayHandles(m) /\ late' \subseteq late
      /\ UNCHANGED storeVars /\ UNCHANGED <<worker, drifts>>
  BY Zenon DEF LateArrival
<1>2. Deliverable(m) /\ m.key \in Pubkey
  BY RequestDeliverable, Zenon DEF Deliverable
<1>3. allowed' \in SUBSET Pubkey /\ (accepted' = accepted \/ Receives(m.key))
  BY <1>1, <1>2, RelayHandlesNext, Zenon
<1>4. /\ worker' \in [Worker -> [phase : Phase, row : Row \cup {NoRow}]]
      /\ late' \in SUBSET Request
  BY <1>1, Zenon DEF IndInv, TypeOK
<1> QED
  BY <1>1, <1>2, <1>3, <1>4, ReceivesIndInv

(***************************************************************************)
(* The theorems.                                                           *)
(***************************************************************************)
LEMMA InitIndInv == Init => IndInv
<1> SUFFICES ASSUME Init PROVE IndInv
  BY Zenon
<1>1. /\ queue \in QueueType
      /\ queue.rows = {} /\ queue.issued = [k \in Pubkey |-> 0]
  BY Zenon DEF Init, QueueType
<1>2. [phase |-> "idle", row |-> NoRow] \in [phase : Phase, row : Row \cup {NoRow}]
  BY Zenon DEF Phase
<1>3. TypeOK
  BY <1>1, <1>2, Zenon DEF Init, TypeOK, QueueType
<1>4. QueueInv(queue)
  BY <1>1, Zenon DEF QueueInv
<1>5. \A w \in Worker : worker[w].phase = "idle"
  BY Zenon DEF Init
<1>6. AcceptedPrefix
  <2>1. \A k \in Pubkey : accepted[k] = 1..0 /\ 0 \in 0..queue.issued[k]
    BY <1>1 DEF Init
  <2> QED
    BY <2>1, Zenon DEF AcceptedPrefix
<1>7. NothingLost
  BY <1>1 DEF NothingLost
<1>8. Delivery
  <2>1. WorkerInv
    BY <1>5, Zenon DEF WorkerInv
  <2>2. LateInv
    BY Zenon DEF Init, LateInv
  <2>3. NoOvertaking
    BY <1>1, Zenon DEF NoOvertaking
  <2> QED
    BY <1>6, <1>7, <2>1, <2>2, <2>3, Zenon DEF Delivery
<1>9. PurgeIsLast /\ PurgeCoversMappings
  BY <1>1, Zenon DEF Init, PurgeIsLast, PurgeCoversMappings
<1> QED
  BY <1>3, <1>4, <1>8, <1>9, Zenon DEF IndInv

\* A step that changes nothing keeps the inductive invariant.
LEMMA StutterIndInv ==
  ASSUME IndInv, UNCHANGED vars
  PROVE  IndInv'
<1>1. UNCHANGED <<queue, registered, purged, covered, mapping, operation,
                  worker, allowed, accepted, late, drifts>>
  BY Zenon DEF vars
<1>2. Rearranges /\ QueueInv(queue') /\ PurgeIsLast'
  BY <1>1, SameQueueRearranges, Zenon
<1> QED
  BY <1>1, <1>2, RearrangesIndInv DEF IndInv, TypeOK

\* Every step keeps the inductive invariant.
LEMMA NextIndInv ==
  ASSUME IndInv, [Next]_vars
  PROVE  IndInv'
<1>1. CASE Sync
  BY <1>1, EnqueueEventStep, EnqueueUpdateStep, EnqueueDeleteStep,
     ReconcileBatchStep, EnqueuePurgeStep DEF Sync
<1>2. CASE OtherOperations
  BY <1>2, EnqueueOutboxStep, SaveEventAndEnqueueStep, TablesStep, Zenon
     DEF OtherOperations
<1>3. ASSUME NEW w \in Worker, Dispatch(w) PROVE IndInv'
  BY <1>3, ClaimOutboxStep, StutterIndInv, RelayAnswersStep, DeliveryFailsStep,
     FinishStep DEF Dispatch, Poll
<1>4. CASE Environment
  BY <1>4, CrashStep, LeaseLapsesStep, BackoffElapsesStep, LateArrivalStep,
     RelayForgetsStep DEF Environment
<1>5. CASE UNCHANGED vars
  BY <1>5, StutterIndInv, Zenon
<1> QED
  BY <1>1, <1>2, <1>3, <1>4, <1>5 DEF Next, BridgeNext

\* The inductive invariant holds in every reachable state of the store, the
\* dispatchers and the relay.
THEOREM Invariance == Spec => []IndInv
<1>1. Init => IndInv
  BY InitIndInv, Zenon
<1>2. IndInv /\ [Next]_vars => IndInv'
  BY NextIndInv, Zenon
<1> QED
  BY <1>1, <1>2, PTL DEF Spec

\* The inductive invariant implies the safety properties the runs check.
LEMMA IndInvSafe ==
  ASSUME IndInv
  PROVE  TypeOK /\ UniqueSequences /\ NoOvertaking /\ DeliveredInOrder
         /\ NothingLost /\ PurgeIsLast /\ PurgeCoversMappings
<1>1. UniqueSequences
  BY Zenon DEF IndInv, QueueInv, UniqueSequences
<1>2. DeliveredInOrder
  <2> SUFFICES ASSUME NEW k \in Pubkey, NEW t \in accepted[k], NEW u \in 1..t
               PROVE  u \in accepted[k]
    BY Zenon DEF DeliveredInOrder
  <2>1. PICK n \in 0..queue.issued[k] : accepted[k] = 1..n
    BY Zenon DEF IndInv, Delivery, AcceptedPrefix
  <2>2. queue.issued[k] \in Nat
    BY Zenon DEF IndInv, TypeOK
  <2> QED
    BY <2>1, <2>2
<1> QED
  BY <1>1, <1>2 DEF IndInv, Delivery

\* Every variable keeps its type in every state of the store, the dispatchers
\* and the relay.
THEOREM TypeCorrect == Spec => []TypeOK
BY Invariance, IndInvSafe, PTL

\* After any transaction the UNIQUE constraint of the outbox table holds,
\* although RecoverPublisherRegistration renumbers queued rows.
THEOREM SequencesStayUnique == Spec => []UniqueSequences
BY Invariance, IndInvSafe, PTL

\* For any number of dispatchers, any leases that lapse under them, any crash,
\* any lost, late or repeated request: no delivery is ahead of an older event
\* of its publisher that is still queued.
THEOREM NeverOvertaken == Spec => []NoOvertaking
BY Invariance, IndInvSafe, PTL

\* Under the same faults, the relay accepts the events of a publisher in the
\* order they were enqueued.
THEOREM OrderedDelivery == Spec => []DeliveredInOrder
BY Invariance, IndInvSafe, PTL

\* An enqueued event is queued until the relay has accepted it.
THEOREM NoEventLost == Spec => []NothingLost
BY Invariance, IndInvSafe, PTL

\* A purged publisher has nothing queued behind its unallow.
THEOREM PurgeSafe == Spec => []PurgeIsLast
BY Invariance, IndInvSafe, PTL

\* A purged publisher has nothing mapped that its purge deletion does not name.
THEOREM PurgeComplete == Spec => []PurgeCoversMappings
BY Invariance, IndInvSafe, PTL

(***************************************************************************)
(* Refinement: the outbox implements a first-in, first-out channel.        *)
(***************************************************************************)
\* No step takes an issued event back.
LEMMA NextIssued ==
  ASSUME IndInv, Next
  PROVE  \A j \in Pubkey : queue.issued[j] <= queue'.issued[j]
<1>0. queue.issued \in [Pubkey -> Nat] /\ \A s \in Source : Author[s] \in Pubkey
  BY AuthorAssumption, Zenon DEF IndInv, TypeOK
<1>1. CASE OtherOperations
  BY <1>0, <1>1, EnqueueIssued
     DEF OtherOperations, EnqueueOutbox, SaveEventAndEnqueue, SetPublisherRegistered,
         ClearPublisherRegistration, DeleteEventBySourceURI
<1>2. queue \in QueueType
  BY IndInvQueue, Zenon
<1>3. \A r, new : Replace(queue, r, new).issued = queue.issued
  BY <1>2, Zenon DEF Replace, QueueType
<1>4. \A r : Remove(queue, r).issued = queue.issued
  BY <1>2, Zenon DEF Remove, QueueType
<1>5. \A r : Recover(queue, r).issued = queue.issued
  BY Zenon DEF Recover
<1>6. ASSUME Environment PROVE queue'.issued = queue.issued
  <2>1. CASE \E r \in queue.rows : LeaseLapses(r)
    BY <2>1, <1>3, Zenon DEF LeaseLapses
  <2>2. CASE \E r \in queue.rows : BackoffElapses(r)
    BY <2>2, <1>3, Zenon DEF BackoffElapses
  <2>3. CASE UNCHANGED queue
    BY <2>3, Zenon
  <2> QED
    BY <1>6, <2>1, <2>2, <2>3, Zenon
       DEF Environment, Crash, LateArrival, RelayForgets, storeVars
<1>7. ASSUME NEW w \in Worker, Dispatch(w)
      PROVE  queue'.issued = queue.issued
  <2>1. CASE Finish(w)
    <3>1. CASE ClaimLost(w)
      BY <3>1, Zenon DEF ClaimLost
    <3>2. ASSUME NEW r \in queue.rows,
                 \/ CompleteOutbox(w, r)
                 \/ CompletePublisherRegistration(w, r)
                 \/ CompletePublisherUnregistration(w, r)
          PROVE  queue'.issued = queue.issued
      BY <3>2, <1>4, Zenon DEF CompleteOutbox, CompletePublisherRegistration,
                        CompletePublisherUnregistration
    <3>3. ASSUME NEW r \in queue.rows, RecoverPublisherRegistration(w, r)
          PROVE  queue'.issued = queue.issued
      BY <3>3, <1>5, Zenon DEF RecoverPublisherRegistration
    <3>4. ASSUME NEW r \in queue.rows, RetryOutbox(r)
          PROVE  queue'.issued = queue.issued
      BY <3>4, <1>3 DEF RetryOutbox
    <3> QED
      BY <2>1, <3>1, <3>2, <3>3, <3>4, Zenon DEF Finish, FinishClaimed
  <2>2. CASE ClaimOutbox(w)
    BY <2>2, <1>3 DEF ClaimOutbox
  <2>3. CASE UNCHANGED queue
    BY <2>3, Zenon
  <2> QED
    BY <1>7, <2>1, <2>2, <2>3, Zenon
       DEF Dispatch, Poll, RelayAnswers, DeliveryFails, DeliveryTimesOut,
           storeVars, vars
<1>8. \A j \in Pubkey : queue.issued[j] <= queue.issued[j]
  BY <1>0
<1> QED
  BY <1>0, <1>1, <1>6, <1>7, <1>8, SyncIssued, Zenon DEF Next, BridgeNext

\* Only an answered or a late request changes what the relay has accepted.
LEMMA NextAccepted ==
  ASSUME IndInv, Next
  PROVE  \/ accepted' = accepted
         \/ queue' = queue /\ \E k \in Pubkey : Receives(k)
<1>1. CASE Sync
  BY <1>1 DEF Sync, EnqueueEvent, EnqueueUpdate, EnqueueDelete, ReconcileBatch,
              EnqueuePurge, relayVars
<1>2. CASE OtherOperations
  BY <1>2, Zenon DEF OtherOperations, EnqueueOutbox, SaveEventAndEnqueue,
              SetPublisherRegistered, ClearPublisherRegistration,
              DeleteEventBySourceURI, relayVars
<1>3. ASSUME NEW w \in Worker, Dispatch(w)
      PROVE  \/ accepted' = accepted
             \/ queue' = queue /\ \E k \in Pubkey : Receives(k)
  <2>1. CASE RelayAnswers(w)
    BY <2>1, RelayAnswersStep, Zenon DEF RelayAnswers, storeVars
  <2> QED
    BY <1>3, <2>1, Zenon DEF Dispatch, ClaimOutbox, Poll, DeliveryFails,
                      DeliveryTimesOut, Finish, relayVars, vars
<1>4. CASE Environment
  <2>1. ASSUME NEW m \in late, LateArrival(m)
        PROVE  \/ accepted' = accepted
               \/ queue' = queue /\ \E k \in Pubkey : Receives(k)
    BY <2>1, LateArrivalStep, Zenon DEF LateArrival, storeVars
  <2> QED
    BY <1>4, <2>1, Zenon DEF Environment, Crash, LeaseLapses, BackoffElapses,
                      RelayForgets, relayVars
<1> QED
  BY <1>1, <1>2, <1>3, <1>4, Zenon DEF Next, BridgeNext

\* Every step of the store, the dispatchers and the relay is, for a caller, a
\* send, the receipt of the next event of one publisher, or nothing.
THEOREM OutboxImplementsChannel == Spec => ChannelSafe
<1>1. Init => Channel!Init
  BY DEF Init, Channel!Init
<1>2. IndInv /\ IndInv' /\ [Next]_vars => [Channel!Next]_(Channel!vars)
  <2> SUFFICES ASSUME IndInv, IndInv', [Next]_vars
               PROVE  Channel!Next \/ UNCHANGED <<queue.issued, accepted>>
    BY Zenon DEF Channel!vars
  <2>1. CASE UNCHANGED vars
    BY <2>1, Zenon DEF vars
  <2>2. CASE Next /\ accepted' = accepted
    <3>1. queue'.issued \in [Pubkey -> Nat]
      BY Zenon DEF IndInv, TypeOK
    <3>2. \A j \in Pubkey : queue.issued[j] <= queue'.issued[j]
      BY <2>2, NextIssued, Zenon
    <3> QED
      BY <2>2, <3>1, <3>2, Zenon DEF Channel!Next, Channel!Send
  <2>3. CASE queue' = queue /\ \E k \in Pubkey : Receives(k)
    BY <2>3, Zenon DEF Receives, Channel!Next, Channel!Receive
  <2> QED
    BY <2>1, <2>2, <2>3, NextAccepted, Zenon
<1> QED
  BY <1>1, <1>2, Invariance, PTL DEF Spec, ChannelSafe, Channel!SafeSpec
=============================================================================
