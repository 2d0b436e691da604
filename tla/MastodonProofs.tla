--------------------------- MODULE MastodonProofs ---------------------------
(***************************************************************************)
(* The safety properties of MastodonSync for any timelines, budget, page   *)
(* size and number of statuses.                                            *)
(*                                                                         *)
(* CoverInv explains the three cursors of a timeline: what lies between    *)
(* next and ceiling was read by earlier pages, and while a page is handled *)
(* the statuses above the one it continues at are settled or still on it.  *)
(*                                                                         *)
(* VersionInv explains why no version is enqueued twice: of a status that  *)
(* is awaited, on a page or in the stream, only versions that are at least *)
(* as new as the enqueued ones come, and nothing is awaited of a status    *)
(* whose deletion was handled.                                             *)
(***************************************************************************)
EXTENDS MastodonSync, FiniteSetTheorems, WellFoundedInduction, TLAPS

Status == [kind : Kind, version : Nat \ {0}, deleted : BOOLEAN]
Message == [op : {"update", "status.update", "delete"}, id : Nat, version : Nat]
Pc == {"idle", "page", "statuses", "committed", "ceiling", "next", "index", "connect",
       "stream"}
Cursors == [committed : [Feed -> Nat], ceiling : [Feed -> Nat], next : [Feed -> Nat],
            index : Nat]
Locals == [pc : Pc, visited : Nat, remaining : Int, ceiling : Nat,
           page : SUBSET (Nat \X Nat), nextMax : Nat, used : Nat]

StoreOK == mapping \in [Id -> Nat] /\ sent \in [Id -> Seq(Nat)]

TypeOK ==
  /\ statuses \in Seq(Status) /\ Len(statuses) <= MaxStatus
  /\ cursor \in Cursors /\ worker \in Locals /\ inbox \in Seq(Message) /\ StoreOK

Bounds ==
  /\ \A f \in Feed : cursor.committed[f] <= Len(statuses) /\ cursor.ceiling[f] <= Len(statuses)
  /\ worker.ceiling <= Len(statuses)
  /\ worker.pc = "page" => worker.remaining >= 1
  /\ worker.pc = "statuses" => worker.ceiling = cursor.ceiling[feed]
  /\ \A x \in worker.page : x[1] \in DOMAIN statuses /\ x[2] # 0

Recorded == \A i \in Id : mapping[i] # 0 => sent[i] # << >>

\* The part of the gap that earlier pages have covered.
GapRead ==
  \A f \in Feed, i \in DOMAIN statuses :
    /\ f \in statuses[i].kind.feeds
    /\ cursor.next[f] # 0 /\ cursor.next[f] <= i /\ i <= cursor.ceiling[f]
    => Settled(i)

\* The part that the page in hand covers.
PageRead ==
  worker.pc = "statuses" =>
    \A i \in DOMAIN statuses :
      /\ feed \in statuses[i].kind.feeds
      /\ cursor.committed[feed] < i /\ i <= worker.ceiling
      /\ cursor.next[feed] = 0 \/ i < cursor.next[feed]
      /\ worker.nextMax = 0 \/ worker.nextMax <= i
      => Settled(i) \/ \E x \in worker.page : x[1] = i

Closing ==
  worker.pc = "committed" =>
    \A i \in DOMAIN statuses :
      feed \in statuses[i].kind.feeds /\ i <= worker.ceiling => Settled(i)

CoverInv == TypeOK /\ Bounds /\ Recorded /\ GapRead /\ PageRead /\ Closing /\ CommittedCovers

-----------------------------------------------------------------------------
(***************************************************************************)
(* Pages.                                                                  *)
(***************************************************************************)

LEMMA Least ==
  ASSUME NEW S \in SUBSET Nat, S # {}
  PROVE  \E m \in S : \A i \in S : m <= i
<1> DEFINE R == OpToRel(<, Nat)
<1>1. IsWellFoundedOn(R, Nat)
  BY NatLessThanWellFounded, Zenon
<1>2. \A x, y \in Nat : x < y => <<x, y>> \in R
  BY Zenon DEF OpToRel
<1> HIDE DEF R
<1>3. PICK x \in S : \A y \in S : ~ (<<y, x>> \in R)
  BY <1>1, WFMin, Zenon
<1>4. \A i \in S : i \in Nat /\ x \in Nat /\ ~(i < x)
  BY <1>2, <1>3, Zenon
<1>5. \A i \in S : x <= i
  BY <1>4
<1> QED BY <1>3, <1>5, Zenon

LEMMA Greatest ==
  ASSUME NEW n \in Nat, NEW S \in SUBSET Nat, S # {}, \A i \in S : i <= n
  PROVE  \E m \in S : \A i \in S : i <= m
<1> DEFINE T == {k \in Nat : \E i \in S : k = n - i}
<1>1. PICK i \in S : TRUE
  BY Zenon
<1>2. n - i \in T
  OBVIOUS
<1>3. PICK m \in T : \A k \in T : m <= k
  BY <1>2, Least, Zenon
<1>4. PICK j \in S : m = n - j
  BY Zenon
<1>5. \A k \in S : n - k \in T
  OBVIOUS
<1>6. \A k \in S : k <= j
  BY <1>3, <1>4, <1>5
<1> QED BY <1>6, Zenon

Above(S, i) == {j \in S : j > i}
AreNewest(ids, all, limit) ==
  /\ ids \in SUBSET all
  /\ \A i \in all : i \in ids <=> Cardinality(Above(all, i)) < limit

\* The newest elements of a set of ids: a page holds everything above its
\* smallest status, and everything when it is not full.
LEMMA Newest ==
  ASSUME NEW n \in Nat, NEW all \in SUBSET (1..n), NEW limit \in Nat, limit # 0,
         NEW ids, AreNewest(ids, all, limit)
  PROVE  /\ Cardinality(ids) \in Nat
         /\ \A i \in all, m \in ids : m <= i => i \in ids
         /\ Cardinality(ids) # limit => ids = all
         /\ ids = {} => all = {}
<1> DEFINE above(i) == Above(all, i)
<1>1. IsFiniteSet(all) /\ all \in SUBSET Nat
  <2>1. IsFiniteSet(1..n)
    BY FS_Interval
  <2>2. IsFiniteSet(all)
    BY <2>1, FS_Subset, Zenon
  <2> QED BY <2>2
<1>2. /\ ids \in SUBSET all
      /\ \A i \in all : i \in ids <=> Cardinality(above(i)) < limit
      /\ \A i : above(i) \in SUBSET all /\ \A j \in all : j \in above(i) <=> j > i
  BY DEF AreNewest, Above
<1> HIDE DEF above
<1>3. IsFiniteSet(ids) /\ Cardinality(ids) \in Nat
  <2>1. IsFiniteSet(ids)
    BY <1>1, <1>2, FS_Subset, Zenon
  <2> QED BY <2>1, FS_CardinalityType
<1>4. \A i : IsFiniteSet(above(i)) /\ Cardinality(above(i)) \in Nat
  BY <1>1, <1>2, FS_Subset, FS_CardinalityType
<1>5. ASSUME NEW i \in all, NEW m \in ids, m <= i
      PROVE  i \in ids
  <2>1. above(i) \in SUBSET above(m)
    <3> SUFFICES ASSUME NEW j \in above(i) PROVE j \in above(m)
      OBVIOUS
    <3>1. j \in all /\ m \in all
      BY <1>2
    <3>2. j > i
      BY <1>2, <3>1
    <3>3. j > m
      BY <1>1, <1>5, <3>1, <3>2
    <3> QED BY <1>2, <3>1, <3>3
  <2>2. Cardinality(above(i)) <= Cardinality(above(m))
    BY <1>4, <2>1, FS_Subset
  <2>3. m \in all /\ Cardinality(above(m)) < limit
    <3>1. m \in all
      BY <1>2
    <3> QED BY <1>2, <3>1
  <2>4. Cardinality(above(i)) < limit
    BY <1>4, <2>2, <2>3
  <2> QED BY <1>2, <2>4
<1>6. ASSUME ids # all
      PROVE  ids # {} /\ ~(Cardinality(ids) < limit)
  <2> DEFINE out == {i \in all : i \notin ids}
  <2>1. PICK m \in out : \A i \in out : i <= m
    <3>1. out # {} /\ out \in SUBSET Nat
      BY <1>1, <1>2, <1>6, Zenon
    <3>2. \A i \in out : i <= n
      OBVIOUS
    <3> HIDE DEF out
    <3> QED BY <3>1, <3>2, Greatest, Zenon
  <2>2. m \in all /\ ~(Cardinality(above(m)) < limit)
    BY <1>2, <2>1
  <2>3. above(m) \in SUBSET ids
    <3> SUFFICES ASSUME NEW j \in above(m) PROVE j \in ids
      OBVIOUS
    <3>1. j \in all
      BY <1>2
    <3>2. j > m
      BY <1>2, <3>1
    <3> QED BY <1>1, <2>1, <2>2, <3>1, <3>2
  <2>4. Cardinality(above(m)) <= Cardinality(ids)
    BY <1>3, <2>3, FS_Subset
  <2>5. ~(Cardinality(ids) < limit)
    BY <1>3, <1>4, <2>2, <2>4
  <2>6. ids # {}
    <3>1. Cardinality({}) = 0
      BY FS_EmptySet
    <3>2. Cardinality({}) < limit
      BY <3>1
    <3> QED BY <2>5, <3>2
  <2> QED BY <2>5, <2>6
<1>7. Cardinality(ids) <= limit
  <2>1. CASE ids = {}
    <3>1. Cardinality(ids) = 0
      BY <2>1, FS_EmptySet
    <3> QED BY <3>1
  <2>2. CASE ids # {}
    <3>1. ids \in SUBSET Nat
      BY <1>1, <1>2
    <3>2. PICK m \in ids : \A i \in ids : m <= i
      BY <2>2, <3>1, Least
    <3>3. m \in all
      BY <1>2
    <3>4. Cardinality(above(m)) < limit
      BY <1>2, <3>3
    <3>5. ids \ {m} \in SUBSET above(m)
      <4> SUFFICES ASSUME NEW j \in ids, j # m PROVE j \in above(m)
        OBVIOUS
      <4>1. j \in all /\ j \in Nat /\ m \in Nat /\ m <= j
        BY <1>2, <3>1, <3>2
      <4>2. j > m
        BY <4>1
      <4> QED BY <1>2, <4>1, <4>2
    <3>6. Cardinality(ids \ {m}) <= Cardinality(above(m))
      BY <1>4, <3>5, FS_Subset
    <3>7. Cardinality(ids \ {m}) = Cardinality(ids) - 1
      BY <1>3, FS_RemoveElement, Zenon
    <3> QED BY <1>3, <1>4, <3>4, <3>6, <3>7
  <2> QED BY <2>1, <2>2
<1>8. Cardinality(ids) # limit => ids = all
  BY <1>3, <1>6, <1>7
<1> QED BY <1>2, <1>3, <1>5, <1>6, <1>8, Zenon

LEMMA SmallestLargest ==
  ASSUME NEW n \in Nat, NEW S \in SUBSET (1..n), S # {}
  PROVE  /\ Smallest(S) \in S /\ \A i \in S : Smallest(S) <= i
         /\ Largest(S) \in S /\ \A i \in S : i <= Largest(S)
<1>1. S \in SUBSET Nat /\ \A i \in S : i <= n
  OBVIOUS
<1>2. /\ \E m \in S : \A i \in S : m <= i
      /\ \E m \in S : \A i \in S : i <= m
  BY <1>1, Least, Greatest, Zenon
<1> QED BY <1>2, Zenon DEF Smallest, Largest

-----------------------------------------------------------------------------
(***************************************************************************)
(* Cursors and statuses.                                                   *)
(***************************************************************************)

LEMMA FeedType ==
  ASSUME cursor.index \in Nat
  PROVE  feed \in Feed /\ Len(Feeds) \in Nat \ {0}
<1> DEFINE n == Cardinality(Feed)
<1>1. n \in Nat /\ n # 0
  BY FeedAssumption, FS_CardinalityType, FS_EmptySet
<1>2. Feeds \in [1..n -> Feed]
  BY FeedAssumption
<1> HIDE DEF n
<1>3. Len(Feeds) = n
  BY <1>1, <1>2
<1>4. ((cursor.index + 0) % n) + 1 \in 1..n
  BY <1>1
<1> QED BY <1>1, <1>2, <1>3, <1>4 DEF feed, feedAt

LEMMA SaveCursor ==
  ASSUME cursor \in Cursors, NEW f \in Feed, NEW v \in Nat
  PROVE  /\ LET c == [cursor EXCEPT !.committed[f] = v] IN
              /\ c \in Cursors /\ c.committed = [cursor.committed EXCEPT ![f] = v]
              /\ c.ceiling = cursor.ceiling /\ c.next = cursor.next /\ c.index = cursor.index
         /\ LET c == [cursor EXCEPT !.ceiling[f] = v] IN
              /\ c \in Cursors /\ c.ceiling = [cursor.ceiling EXCEPT ![f] = v]
              /\ c.committed = cursor.committed /\ c.next = cursor.next
              /\ c.index = cursor.index
         /\ LET c == [cursor EXCEPT !.next[f] = v] IN
              /\ c \in Cursors /\ c.next = [cursor.next EXCEPT ![f] = v]
              /\ c.committed = cursor.committed /\ c.ceiling = cursor.ceiling
              /\ c.index = cursor.index
BY Zenon DEF Cursors

LEMMA SettledStays ==
  ASSUME NEW i, Settled(i), statuses'[i].kind = statuses[i].kind,
         statuses[i].deleted => statuses'[i].deleted,
         sent[i] # << >> => sent'[i] # << >>
  PROVE  Settled(i)'
BY DEF Settled, Mirrored, isTarget, NormalizeStatus

\* handleStatus settles its status and unsettles none.
LEMMA HandleSettles ==
  ASSUME StoreOK, Recorded, NEW i \in Id, NEW v \in Nat \ {0}, handleStatus(i, v)
  PROVE  /\ StoreOK' /\ Recorded'
         /\ \A j \in Id : sent[j] # << >> => sent'[j] # << >>
         /\ Mirrored(i) => sent'[i] # << >>
<1>1. CASE ~Mirrored(i) \/ mapping[i] = v
  BY <1>1 DEF handleStatus, StoreOK, Recorded
<1>2. CASE Mirrored(i) /\ mapping[i] # v
  <2>1. mapping' = [mapping EXCEPT ![i] = v] /\ sent' = [sent EXCEPT ![i] = Append(@, v)]
    BY <1>2 DEF handleStatus
  <2>2. sent[i] \in Seq(Nat)
    BY DEF StoreOK
  <2>3. Append(sent[i], v) \in Seq(Nat) /\ Append(sent[i], v) # << >>
    BY <2>2
  <2> QED BY <2>1, <2>3 DEF StoreOK, Recorded
<1> QED BY <1>1, <1>2

\* Steps that leave the cursors alone and hand out no new page.
LEMMA AsideKeepsCover ==
  ASSUME CoverInv, TypeOK', Recorded', UNCHANGED cursor, Len(statuses) <= Len(statuses'),
         \A i \in DOMAIN statuses : /\ statuses'[i].kind = statuses[i].kind
                                    /\ statuses[i].deleted => statuses'[i].deleted,
         \A i \in Id : sent[i] # << >> => sent'[i] # << >>,
         \/ worker' = worker
         \/ /\ worker'.pc \notin {"statuses", "committed"} /\ worker'.page = {}
            /\ worker'.ceiling = 0 /\ (worker'.pc = "page" => worker'.remaining >= 1)
  PROVE  CoverInv'
<1>1. /\ statuses \in Seq(Status) /\ statuses' \in Seq(Status)
      /\ Len(statuses) \in Nat /\ Len(statuses') \in Nat
      /\ DOMAIN statuses = 1..Len(statuses) /\ DOMAIN statuses' = 1..Len(statuses')
      /\ DOMAIN statuses \subseteq DOMAIN statuses' /\ DOMAIN statuses \subseteq Id
  BY BackfillAssumption DEF CoverInv, TypeOK, Id
<1>2. \A i \in DOMAIN statuses : Settled(i) => Settled(i)'
  BY <1>1, SettledStays
<1>3. /\ cursor \in Cursors /\ feed' = feed /\ feed \in Feed
      /\ \A f \in Feed : /\ cursor.committed[f] \in Nat /\ cursor.committed[f] <= Len(statuses)
                         /\ cursor.ceiling[f] \in Nat /\ cursor.ceiling[f] <= Len(statuses)
      /\ worker.ceiling \in Nat /\ worker.ceiling <= Len(statuses)
  BY FeedType, Zenon DEF CoverInv, TypeOK, Cursors, Locals, Bounds, feed, feedAt
<1>4. \A i \in DOMAIN statuses' :
        /\ i <= worker.ceiling => i \in DOMAIN statuses
        /\ \A f \in Feed : i <= cursor.committed[f] \/ i <= cursor.ceiling[f]
                             => i \in DOMAIN statuses
  BY <1>1, <1>3
<1>5. Bounds'
  <2>1. /\ \A f \in Feed : /\ cursor'.committed[f] <= Len(statuses')
                           /\ cursor'.ceiling[f] <= Len(statuses')
        /\ worker.ceiling <= Len(statuses') /\ 0 <= Len(statuses')
    BY <1>1, <1>3
  <2>2. \A x \in worker'.page : x[1] \in DOMAIN statuses' /\ x[2] # 0
    BY <1>1 DEF CoverInv, Bounds
  <2>3. worker'.pc = "page" => worker'.remaining >= 1
    BY DEF CoverInv, Bounds
  <2>4. worker'.pc = "statuses" => worker'.ceiling = cursor'.ceiling[feed']
    BY <1>3 DEF CoverInv, Bounds
  <2> QED BY <2>1, <2>2, <2>3, <2>4 DEF Bounds
<1>6. GapRead'
  BY <1>2, <1>4 DEF CoverInv, GapRead
<1>7. PageRead'
  BY <1>2, <1>3, <1>4 DEF CoverInv, PageRead
<1>8. Closing'
  BY <1>2, <1>3, <1>4 DEF CoverInv, Closing
<1>9. CommittedCovers'
  BY <1>2, <1>4 DEF CoverInv, CommittedCovers
<1> QED BY <1>5, <1>6, <1>7, <1>8, <1>9 DEF CoverInv

-----------------------------------------------------------------------------
(***************************************************************************)
(* The instance.                                                           *)
(***************************************************************************)

LEMMA Pushed ==
  ASSUME inbox \in Seq(Message), NEW i \in Nat, NEW v \in Nat,
         NEW op \in {"update", "status.update", "delete"},
         statuses'[i].kind \in Kind, Push(op, i, v)
  PROVE  /\ inbox' \in Seq(Message) /\ Len(inbox) <= Len(inbox')
         /\ worker.pc # "stream" => inbox' = inbox
         /\ \A k \in 1..Len(inbox) : inbox'[k] = inbox[k]
         /\ \A k \in 1..Len(inbox') :
              k > Len(inbox) => inbox'[k].op = op /\ inbox'[k].id = i /\ inbox'[k].version = v
<1>1. CASE worker.pc # "stream"
  BY <1>1 DEF Push
<1>2. CASE worker.pc = "stream"
  <2> DEFINE n == Cardinality(statuses'[i].kind.feeds)
             m == [op |-> op, id |-> i, version |-> v]
             t == [k \in 1..n |-> m]
  <2>1. n \in Nat
    <3>1. statuses'[i].kind.feeds \in SUBSET Feed
      BY FeedAssumption
    <3>2. IsFiniteSet(statuses'[i].kind.feeds)
      BY <3>1, FeedAssumption, FS_Subset
    <3> QED BY <3>2, FS_CardinalityType
  <2>2. inbox' = inbox \o t
    BY <1>2 DEF Push
  <2>3. m \in Message
    BY DEF Message
  <2> HIDE DEF n, m
  <2>4. t \in Seq(Message) /\ Len(t) = n /\ \A k \in 1..n : t[k] = m
    BY <2>1, <2>3
  <2> HIDE DEF t
  <2>5. /\ inbox' \in Seq(Message) /\ Len(inbox') = Len(inbox) + n
        /\ \A k \in 1..Len(inbox) + n :
             inbox'[k] = IF k <= Len(inbox) THEN inbox[k] ELSE t[k - Len(inbox)]
    <3>1. ASSUME NEW M, NEW a \in Seq(M), NEW b \in Seq(M)
          PROVE  /\ a \o b \in Seq(M) /\ Len(a \o b) = Len(a) + Len(b)
                 /\ \A k \in 1..Len(a) + Len(b) :
                      (a \o b)[k] = IF k <= Len(a) THEN a[k] ELSE b[k - Len(a)]
      OBVIOUS
    <3> QED BY <3>1, <2>1, <2>2, <2>4, Zenon
  <2>6. Len(inbox) \in Nat
    OBVIOUS
  <2>7. \A k \in 1..Len(inbox') : k > Len(inbox) => inbox'[k] = m
    <3> SUFFICES ASSUME NEW k \in 1..Len(inbox'), k > Len(inbox) PROVE inbox'[k] = m
      OBVIOUS
    <3>1. k \in 1..Len(inbox) + n /\ ~(k <= Len(inbox)) /\ k - Len(inbox) \in 1..n
      BY <2>1, <2>5, <2>6
    <3>2. inbox'[k] = t[k - Len(inbox)]
      BY <2>5, <3>1
    <3> QED BY <2>4, <3>1, <3>2
  <2>8. Len(inbox) <= Len(inbox') /\ \A k \in 1..Len(inbox) : inbox'[k] = inbox[k]
    BY <2>1, <2>5, <2>6
  <2> QED BY <1>2, <2>5, <2>7, <2>8 DEF m
<1> QED BY <1>1, <1>2

\* What a step of the instance does to the statuses: one is added, or the
\* version or the deletion of one changes.
LEMMA Posted ==
  ASSUME statuses \in Seq(Status), NEW kind \in Kind, PostStatus(kind)
  PROVE  /\ statuses' \in Seq(Status) /\ Len(statuses') = Len(statuses) + 1
         /\ \A i \in 1..Len(statuses) : statuses'[i] = statuses[i]
         /\ statuses'[Len(statuses')] = [kind |-> kind, version |-> 1, deleted |-> FALSE]
         /\ statuses'[Len(statuses')].kind = kind
<1> DEFINE s == [kind |-> kind, version |-> 1, deleted |-> FALSE]
<1>1. s \in Status /\ s.kind = kind
  BY DEF Status
<1>2. statuses' = Append(statuses, s)
  BY DEF PostStatus
<1> HIDE DEF s
<1>3. /\ statuses' \in Seq(Status) /\ Len(statuses') = Len(statuses) + 1
      /\ \A i \in 1..Len(statuses) : statuses'[i] = statuses[i]
      /\ statuses'[Len(statuses) + 1] = s
  BY <1>1, <1>2
<1> QED BY <1>1, <1>3 DEF s

LEMMA Edited ==
  ASSUME statuses \in Seq(Status), NEW i \in DOMAIN statuses, EditStatus(i) \/ DeleteStatus(i)
  PROVE  /\ statuses' \in Seq(Status) /\ Len(statuses') = Len(statuses)
         /\ \A j \in DOMAIN statuses : j # i => statuses'[j] = statuses[j]
         /\ statuses'[i].kind = statuses[i].kind /\ statuses[i].deleted = FALSE
         /\ EditStatus(i) => /\ statuses'[i].version = statuses[i].version + 1
                             /\ statuses'[i].deleted = statuses[i].deleted
         /\ DeleteStatus(i) => /\ statuses'[i].version = statuses[i].version
                               /\ statuses'[i].deleted = TRUE
<1>1. statuses[i] \in Status /\ DOMAIN statuses = 1..Len(statuses) /\ Len(statuses) \in Nat
  OBVIOUS
<1>2. statuses[i].deleted = FALSE
  <2>1. i \notin Deleted
    BY DEF EditStatus, DeleteStatus, MayChange
  <2> QED BY <1>1, <2>1 DEF Deleted, Status
<1>3. ASSUME NEW s \in Status, statuses' = [statuses EXCEPT ![i] = s]
      PROVE  /\ statuses' \in Seq(Status) /\ Len(statuses') = Len(statuses)
             /\ \A j \in DOMAIN statuses : j # i => statuses'[j] = statuses[j]
             /\ statuses'[i] = s
  BY <1>1, <1>3
<1>4. CASE EditStatus(i)
  <2> DEFINE v == statuses[i].version + 1
             s == [statuses[i] EXCEPT !.version = v]
  <2>1. statuses' = [statuses EXCEPT ![i] = s]
    BY <1>4 DEF EditStatus
  <2>2. v \in Nat \ {0} /\ v # statuses[i].version
    BY <1>1 DEF Status
  <2> HIDE DEF v
  <2>3. s \in Status /\ s.kind = statuses[i].kind /\ s.version = v
        /\ s.deleted = statuses[i].deleted
    BY <1>1, <2>2 DEF Status
  <2> HIDE DEF s
  <2>4. ~DeleteStatus(i)
    <3>1. SUFFICES ASSUME DeleteStatus(i) PROVE FALSE
      OBVIOUS
    <3> DEFINE d == [statuses[i] EXCEPT !.deleted = TRUE]
    <3>2. statuses' = [statuses EXCEPT ![i] = d]
      BY <3>1 DEF DeleteStatus
    <3>3. d \in Status /\ d.version = statuses[i].version
      BY <1>1, Zenon DEF Status
    <3> HIDE DEF d
    <3> QED BY <1>3, <2>1, <2>2, <2>3, <3>2, <3>3
  <2> QED BY <1>2, <1>3, <2>1, <2>3, <2>4 DEF v
<1>5. CASE DeleteStatus(i) /\ ~EditStatus(i)
  <2> DEFINE s == [statuses[i] EXCEPT !.deleted = TRUE]
  <2>1. statuses' = [statuses EXCEPT ![i] = s]
    BY <1>5 DEF DeleteStatus
  <2>2. s \in Status /\ s.kind = statuses[i].kind /\ s.version = statuses[i].version
        /\ s.deleted = TRUE
    BY <1>1, Zenon DEF Status
  <2> HIDE DEF s
  <2> QED BY <1>2, <1>3, <1>5, <2>1, <2>2
<1> QED BY <1>4, <1>5, Zenon

LEMMA InstanceKeepsCover ==
  ASSUME CoverInv,
         \/ \E kind \in Kind : PostStatus(kind)
         \/ \E i \in DOMAIN statuses : EditStatus(i) \/ DeleteStatus(i)
  PROVE  CoverInv'
<1>1. /\ statuses \in Seq(Status) /\ Len(statuses) \in Nat /\ DOMAIN statuses = 1..Len(statuses)
      /\ Len(statuses) <= MaxStatus /\ inbox \in Seq(Message)
  BY DEF CoverInv, TypeOK
<1>2. UNCHANGED <<cursor, mapping, sent, worker>>
  BY Zenon DEF PostStatus, EditStatus, DeleteStatus, store
<1>3. /\ statuses' \in Seq(Status) /\ inbox' \in Seq(Message)
      /\ Len(statuses) <= Len(statuses') /\ Len(statuses') <= MaxStatus
      /\ \A i \in DOMAIN statuses : /\ statuses'[i].kind = statuses[i].kind
                                    /\ statuses[i].deleted => statuses'[i].deleted
  <2>1. ASSUME NEW kind \in Kind, PostStatus(kind) PROVE <1>3!:
    <3>1. /\ statuses' \in Seq(Status) /\ Len(statuses') = Len(statuses) + 1
          /\ \A i \in 1..Len(statuses) : statuses'[i] = statuses[i]
          /\ statuses'[Len(statuses')].kind = kind
      BY <1>1, <2>1, Posted, Zenon
    <3>2. Len(statuses) < MaxStatus /\ Push("update", Len(statuses'), 1)
      BY <2>1 DEF PostStatus
    <3>3. inbox' \in Seq(Message)
      <4> DEFINE i == Len(statuses')
      <4>1. i \in Nat /\ 1 \in Nat /\ statuses'[i].kind \in Kind /\ Push("update", i, 1)
        BY <1>1, <3>1, <3>2
      <4> HIDE DEF i
      <4> QED BY <1>1, <4>1, Pushed
    <3> QED BY <1>1, <3>1, <3>2, <3>3, BackfillAssumption
  <2>2. ASSUME NEW i \in DOMAIN statuses, EditStatus(i) \/ DeleteStatus(i) PROVE <1>3!:
    <3>1. /\ statuses' \in Seq(Status) /\ Len(statuses') = Len(statuses)
          /\ \A j \in DOMAIN statuses : j # i => statuses'[j] = statuses[j]
          /\ statuses'[i].kind = statuses[i].kind /\ statuses[i].deleted = FALSE
      BY <1>1, <2>2, Edited, Zenon
    <3>2. statuses'[i] \in Status /\ i \in Nat
      BY <1>1, <3>1
    <3>3. \E op \in {"update", "status.update", "delete"}, v \in Nat : Push(op, i, v)
      BY <2>2, <3>2 DEF EditStatus, DeleteStatus, Status
    <3>4. statuses'[i].kind \in Kind
      BY <3>2 DEF Status
    <3>5. inbox' \in Seq(Message)
      BY <1>1, <3>2, <3>3, <3>4, Pushed
    <3> QED BY <1>1, <3>1, <3>5
  <2> QED BY <2>1, <2>2
<1>4. TypeOK' /\ Recorded'
  BY <1>2, <1>3 DEF CoverInv, TypeOK, StoreOK, Recorded
<1> QED BY <1>2, <1>3, <1>4, AsideKeepsCover

-----------------------------------------------------------------------------
(***************************************************************************)
(* Backfill.                                                               *)
(***************************************************************************)

Resting(w) == w \in Locals /\ w.page = {} /\ w.ceiling = 0

LEMMA IdleType ==
  ASSUME NEW pc \in Pc, NEW visited \in Nat, NEW remaining \in Int
  PROVE  /\ Resting(Idle) /\ Idle.pc = "idle"
         /\ LET w == [Idle EXCEPT !.pc = pc] IN Resting(w) /\ w.pc = pc
         /\ LET w == [Idle EXCEPT !.pc = pc, !.remaining = remaining] IN
              Resting(w) /\ w.pc = pc /\ w.remaining = remaining
         /\ LET w == [Idle EXCEPT !.pc = pc, !.visited = visited, !.remaining = remaining] IN
              Resting(w) /\ w.pc = pc /\ w.remaining = remaining
<1>1. Resting(Idle) /\ Idle.pc = "idle"
  BY DEF Resting, Idle, Locals, Pc
<1>2. LET w == [Idle EXCEPT !.pc = pc] IN Resting(w) /\ w.pc = pc
  BY DEF Resting, Idle, Locals
<1>3. LET w == [Idle EXCEPT !.pc = pc, !.remaining = remaining] IN
        Resting(w) /\ w.pc = pc /\ w.remaining = remaining
  BY Zenon DEF Resting, Idle, Locals
<1>4. LET w == [Idle EXCEPT !.pc = pc, !.visited = visited, !.remaining = remaining] IN
        Resting(w) /\ w.pc = pc /\ w.remaining = remaining
  BY Zenon DEF Resting, Idle, Locals
<1> QED BY <1>1, <1>2, <1>3, <1>4

LEMMA GotoType ==
  ASSUME worker \in Locals, NEW pc \in Pc, Goto(pc)
  PROVE  /\ worker' \in Locals /\ worker'.pc = pc /\ worker'.page = worker.page
         /\ worker'.ceiling = worker.ceiling /\ worker'.remaining = worker.remaining
         /\ worker'.nextMax = worker.nextMax
BY DEF Goto, Locals, Pc

\* Steps between two attempts.
LEMMA RestKeepsCover ==
  ASSUME CoverInv, UNCHANGED <<statuses, cursor, mapping, sent>>, inbox' \in Seq(Message),
         Resting(worker'), worker'.pc \notin {"statuses", "committed"},
         worker'.pc = "page" => worker'.remaining >= 1
  PROVE  CoverInv'
<1>1. TypeOK' /\ Recorded' /\ worker'.page = {} /\ worker'.ceiling = 0
  BY DEF CoverInv, TypeOK, StoreOK, Recorded, Resting
<1>2. Len(statuses) \in Nat
  BY DEF CoverInv, TypeOK
<1> QED BY <1>1, <1>2, AsideKeepsCover

LEMMA ConnectKeepsCover ==
  ASSUME CoverInv, BeginBackfill \/ BackfillFails \/ Subscribe \/ Disconnect
  PROVE  CoverInv'
<1>1. UNCHANGED <<statuses, cursor, mapping, sent>> /\ (inbox' = inbox \/ inbox' = << >>)
  BY DEF BeginBackfill, BackfillFails, Subscribe, Disconnect, store
<1>2. inbox' \in Seq(Message)
  <2>1. << >> \in Seq(Message) /\ inbox \in Seq(Message)
    BY DEF CoverInv, TypeOK
  <2> QED BY <1>1, <2>1, Zenon
<1>3. /\ Resting(worker') /\ worker'.pc \notin {"statuses", "committed"}
      /\ worker'.pc = "page" => worker'.remaining >= 1
  <2>1. CASE BeginBackfill
    <3>1. BackfillLimit \in Int /\ BackfillLimit >= 1 /\ "page" \in Pc
      BY BackfillAssumption DEF Pc
    <3>2. worker' = [Idle EXCEPT !.pc = "page", !.remaining = BackfillLimit]
      BY <2>1 DEF BeginBackfill
    <3>3. Resting(worker') /\ worker'.pc = "page" /\ worker'.remaining = BackfillLimit
      BY <3>1, <3>2, IdleType, Zenon
    <3> QED BY <3>1, <3>3
  <2>2. CASE Subscribe
    <3>1. 0 \in Nat /\ 0 \in Int /\ "stream" \in Pc /\ worker' = [Idle EXCEPT !.pc = "stream"]
      BY <2>2 DEF Subscribe, Pc
    <3>2. Resting(worker') /\ worker'.pc = "stream"
      BY <3>1, IdleType, Zenon
    <3> QED BY <3>2
  <2>3. CASE BackfillFails \/ Disconnect
    <3>1. 0 \in Nat /\ 0 \in Int /\ "idle" \in Pc /\ worker' = Idle
      BY <2>3 DEF BackfillFails, Disconnect, Pc
    <3>2. Resting(worker') /\ worker'.pc = "idle"
      BY <3>1, IdleType, Zenon
    <3> QED BY <3>2
  <2> QED BY <2>1, <2>2, <2>3
<1> QED BY <1>1, <1>2, <1>3, RestKeepsCover

LEMMA HandleEventKeepsCover ==
  ASSUME CoverInv, HandleEvent, Head(inbox).id \in DOMAIN statuses,
         Head(inbox).op # "delete" => Head(inbox).version # 0
  PROVE  CoverInv'
<1>1. /\ inbox \in Seq(Message) /\ inbox # << >> /\ UNCHANGED <<statuses, cursor, worker>>
      /\ inbox' = Tail(inbox) /\ StoreOK /\ Recorded /\ statuses \in Seq(Status)
      /\ Len(statuses) <= MaxStatus
  BY DEF CoverInv, TypeOK, HandleEvent
<1>2. Head(inbox) \in Message /\ inbox' \in Seq(Message) /\ Head(inbox).id \in Id
  BY <1>1, BackfillAssumption DEF Id
<1>3. /\ StoreOK' /\ Recorded'
      /\ \A j \in Id : sent[j] # << >> => sent'[j] # << >>
  <2>1. CASE Head(inbox).op = "delete"
    <3>1. deleteStatus(Head(inbox).id)
      BY <2>1 DEF HandleEvent
    <3> QED BY <1>1, <1>2, <3>1 DEF deleteStatus, StoreOK, Recorded
  <2>2. CASE Head(inbox).op # "delete"
    <3>1. Head(inbox).version \in Nat \ {0}
      BY <1>2, <2>2 DEF Message
    <3>2. handleStatus(Head(inbox).id, Head(inbox).version)
      BY <2>2 DEF HandleEvent
    <3> QED BY <1>1, <1>2, <3>1, <3>2, HandleSettles
  <2> QED BY <2>1, <2>2
<1>4. TypeOK' /\ Len(statuses) \in Nat
  BY <1>1, <1>2, <1>3 DEF CoverInv, TypeOK
<1> QED BY <1>1, <1>3, <1>4, AsideKeepsCover

LEMMA ReadPageKeepsCover ==
  ASSUME CoverInv, ReadPage
  PROVE  CoverInv'
<1> DEFINE f == feed
           n == Len(statuses)
           limit == IF worker.remaining < PageLimit THEN worker.remaining ELSE PageLimit
           all == {i \in DOMAIN statuses : /\ ~statuses[i].deleted
                                           /\ f \in statuses[i].kind.feeds
                                           /\ i > cursor.committed[f]
                                           /\ cursor.next[f] = 0 \/ i < cursor.next[f]}
           ids == statusTimelinePage(f, cursor.committed[f], cursor.next[f], limit)
           c == IF cursor.ceiling[f] = 0 /\ ids # {} THEN Largest(ids) ELSE cursor.ceiling[f]
           page == {<<i, statuses[i].version>> : i \in ids}
<1>1. /\ worker.pc = "page" /\ UNCHANGED <<statuses, mapping, inbox, sent>>
      /\ cursor' = [cursor EXCEPT !.ceiling[f] = c]
  BY DEF ReadPage
<1>2. PICK nextMax \in IF ids = {} THEN {0}
                       ELSE IF Cardinality(ids) = limit THEN {Smallest(ids)}
                       ELSE {0, Smallest(ids)} :
        worker' = [worker EXCEPT !.pc = "statuses", !.ceiling = c, !.page = page,
                                 !.nextMax = nextMax, !.used = Cardinality(ids)]
  BY Zenon DEF ReadPage
<1>3. /\ statuses \in Seq(Status) /\ n \in Nat /\ DOMAIN statuses = 1..n
      /\ cursor \in Cursors /\ worker \in Locals /\ f \in Feed /\ n <= MaxStatus
      /\ DOMAIN statuses \subseteq Id
  BY FeedType, BackfillAssumption DEF CoverInv, TypeOK, Cursors, Id
<1>4. limit \in Nat /\ limit # 0
  BY <1>1, <1>3, BackfillAssumption DEF CoverInv, Bounds, Locals
<1>5. all \in SUBSET (1..n) /\ ids \in SUBSET all /\ AreNewest(ids, all, limit)
  <2>1. all \in SUBSET (1..n) /\ ids = {i \in all : Cardinality({j \in all : j > i}) < limit}
    BY <1>3 DEF statusTimelinePage
  <2> HIDE DEF all, ids, limit
  <2> QED BY <2>1 DEF AreNewest, Above
<1>6. \A i \in DOMAIN statuses : i \in all <=>
        /\ ~statuses[i].deleted /\ f \in statuses[i].kind.feeds
        /\ i > cursor.committed[f] /\ (cursor.next[f] = 0 \/ i < cursor.next[f])
  OBVIOUS
<1> HIDE DEF f, n, limit, all, ids, c, page
<1>7. /\ Cardinality(ids) \in Nat
      /\ \A i \in all, m \in ids : m <= i => i \in ids
      /\ Cardinality(ids) # limit => ids = all
      /\ ids = {} => all = {}
  <2>1. n \in Nat /\ limit \in Nat /\ limit # 0
    BY <1>3, <1>4
  <2> QED BY <1>5, <2>1, Newest, Zenon
<1>8. /\ ids \in SUBSET (1..n)
      /\ ids # {} => /\ Smallest(ids) \in ids /\ \A i \in ids : Smallest(ids) <= i
                     /\ Largest(ids) \in ids /\ \A i \in ids : i <= Largest(ids)
  <2>1. ids \in SUBSET (1..n)
    BY <1>5
  <2> QED BY <1>3, <2>1, SmallestLargest, Zenon
<1>9. nextMax \in Nat
  BY <1>2, <1>8
<1>10. c \in Nat /\ c <= n
  <2>1. cursor.ceiling[f] \in Nat /\ cursor.ceiling[f] <= n
    BY <1>3 DEF CoverInv, Bounds, Cursors, n
  <2>2. ids # {} => Largest(ids) \in 1..n
    BY <1>8, Zenon
  <2> QED BY <1>3, <2>1, <2>2 DEF c
<1>11. /\ page \in SUBSET (Nat \X Nat)
       /\ \A x \in page : x[1] \in DOMAIN statuses /\ x[2] # 0
       /\ \A i \in ids : \E x \in page : x[1] = i
  <2>1. \A i \in DOMAIN statuses : i \in Nat /\ statuses[i].version \in Nat \ {0}
    <3>1. \A i \in DOMAIN statuses : i \in Nat /\ statuses[i] \in Status
      BY <1>3 DEF n
    <3> QED BY <3>1 DEF Status
  <2>2. \A i \in ids : i \in DOMAIN statuses /\ i \in Nat /\ statuses[i].version \in Nat \ {0}
    BY <1>3, <1>8, <2>1
  <2>3. \A x \in page : \E i \in ids : x = <<i, statuses[i].version>>
    BY DEF page
  <2>4. \A i \in ids : <<i, statuses[i].version>> \in page
    BY DEF page
  <2>5. \A x \in page : x \in Nat \X Nat /\ x[1] \in DOMAIN statuses /\ x[2] # 0
    BY <2>2, <2>3
  <2>6. \A i \in ids : \E x \in page : x[1] = i
    BY <2>4, Zenon
  <2> QED BY <2>5, <2>6
<1>12. /\ worker' \in Locals /\ worker'.pc = "statuses" /\ worker'.ceiling = c
       /\ worker'.page = page /\ worker'.nextMax = nextMax
  BY <1>2, <1>3, <1>7, <1>9, <1>10, <1>11, Zenon DEF Locals, Pc
<1>13. /\ cursor' \in Cursors /\ cursor'.ceiling = [cursor.ceiling EXCEPT ![f] = c]
       /\ cursor'.committed = cursor.committed /\ cursor'.next = cursor.next
       /\ cursor'.index = cursor.index
  BY <1>1, <1>3, <1>10, SaveCursor, Zenon
<1>14. feed' = f
  BY <1>13 DEF feed, feedAt, f
<1>15. /\ cursor'.ceiling[f] = c
       /\ \A g \in Feed : g # f => cursor'.ceiling[g] = cursor.ceiling[g]
  BY <1>3, <1>13 DEF Cursors
<1>16. \A i \in DOMAIN statuses : Settled(i)' <=> Settled(i)
  BY <1>1 DEF Settled, Mirrored, isTarget, NormalizeStatus
<1>17. TypeOK' /\ Recorded'
  BY <1>1, <1>12, <1>13 DEF CoverInv, TypeOK, StoreOK, Recorded
<1>18. Bounds'
  BY <1>1, <1>10, <1>11, <1>12, <1>13, <1>14, <1>15 DEF CoverInv, Bounds, n
<1>19. GapRead'
  <2> SUFFICES ASSUME NEW g \in Feed, NEW i \in DOMAIN statuses,
                      g \in statuses[i].kind.feeds, cursor.next[g] # 0,
                      cursor.next[g] <= i, i <= cursor'.ceiling[g]
               PROVE  Settled(i)
    BY <1>1, <1>13, <1>16 DEF GapRead
  <2>1. CASE i <= cursor.ceiling[g]
    BY <2>1 DEF CoverInv, GapRead
  <2>2. CASE ~(i <= cursor.ceiling[g])
    <3>1. g = f /\ c # cursor.ceiling[f]
      BY <1>15, <2>2
    <3>2. ids # {} /\ c = Largest(ids)
      BY <3>1 DEF c
    <3>3. c \in all /\ c \in DOMAIN statuses
      BY <1>3, <1>5, <1>8, <3>2, Zenon
    <3>4. c < cursor.next[f]
      BY <1>6, <3>1, <3>3
    <3>5. i \in Nat /\ cursor.next[f] \in Nat
      BY <1>3 DEF Cursors
    <3> QED BY <1>10, <1>15, <3>1, <3>4, <3>5
  <2> QED BY <2>1, <2>2
<1>20. PageRead'
  <2> SUFFICES ASSUME NEW i \in DOMAIN statuses, f \in statuses[i].kind.feeds,
                      cursor.committed[f] < i, cursor.next[f] = 0 \/ i < cursor.next[f],
                      nextMax = 0 \/ nextMax <= i, ~Settled(i)
               PROVE  \E x \in page : x[1] = i
    BY <1>1, <1>12, <1>13, <1>14, <1>16 DEF PageRead
  <2>1. i \in Nat /\ cursor.committed[f] \in Nat
    BY <1>3 DEF Cursors
  <2>2. i \in all
    BY <1>6, <2>1 DEF Settled
  <2>3. i \in ids
    <3>1. ids # {}
      BY <1>7, <2>2
    <3>2. CASE nextMax = 0
      <4>1. Smallest(ids) # 0
        BY <1>8, <3>1
      <4> QED BY <1>2, <1>7, <2>2, <3>1, <3>2, <4>1
    <3>3. CASE nextMax # 0
      <4>1. nextMax = Smallest(ids) /\ nextMax <= i
        BY <1>2, <3>1, <3>3
      <4> QED BY <1>7, <1>8, <2>2, <3>1, <4>1
    <3> QED BY <3>2, <3>3
  <2> QED BY <1>11, <2>3
<1>21. Closing'
  BY <1>12 DEF Closing
<1>22. CommittedCovers'
  BY <1>1, <1>13, <1>16 DEF CoverInv, CommittedCovers
<1> QED BY <1>17, <1>18, <1>19, <1>20, <1>21, <1>22 DEF CoverInv

Oldest(page) == CHOOSE x \in page : \A y \in page : x[1] <= y[1]

LEMMA OldestOnPage ==
  ASSUME NEW page \in SUBSET (Nat \X Nat), page # {}
  PROVE  Oldest(page) \in page
<1> DEFINE S == {i \in Nat : \E x \in page : x[1] = i}
<1>1. \A x \in page : x[1] \in S
  OBVIOUS
<1>2. S # {} /\ S \in SUBSET Nat
  BY <1>1
<1>3. PICK m \in S : \A i \in S : m <= i
  BY <1>2, Least, Zenon
<1>4. PICK x \in page : x[1] = m
  OBVIOUS
<1>5. \A y \in page : x[1] <= y[1]
  BY <1>1, <1>3, <1>4
<1> QED BY <1>5 DEF Oldest

LEMMA HandlePageKeepsCover ==
  ASSUME CoverInv, HandlePage
  PROVE  CoverInv'
<1>1. /\ worker.pc = "statuses" /\ worker.page # {} /\ UNCHANGED <<statuses, cursor, inbox>>
  BY DEF HandlePage
<1>2. worker \in Locals /\ worker.page \in SUBSET (Nat \X Nat) /\ StoreOK /\ Recorded
      /\ statuses \in Seq(Status) /\ Len(statuses) <= MaxStatus
  BY DEF CoverInv, TypeOK, Locals
<1>3. PICK s \in worker.page :
        handleStatus(s[1], s[2]) /\ worker' = [worker EXCEPT !.page = @ \ {s}]
  <2>1. Oldest(worker.page) \in worker.page
    BY <1>1, <1>2, OldestOnPage
  <2> QED BY <2>1, Zenon DEF HandlePage, Oldest
<1>4. s[1] \in DOMAIN statuses /\ s[2] \in Nat \ {0} /\ s[1] \in Id
  BY <1>2, <1>3, BackfillAssumption DEF CoverInv, Bounds, Id
<1>5. /\ StoreOK' /\ Recorded'
      /\ \A j \in Id : sent[j] # << >> => sent'[j] # << >>
      /\ Mirrored(s[1]) => sent'[s[1]] # << >>
  BY <1>2, <1>3, <1>4, HandleSettles
<1>6. /\ worker' \in Locals /\ worker'.page = worker.page \ {s} /\ worker'.pc = "statuses"
      /\ worker'.ceiling = worker.ceiling /\ worker'.nextMax = worker.nextMax
      /\ worker'.remaining = worker.remaining
  BY <1>1, <1>2, <1>3, Zenon DEF Locals
<1>7. feed' = feed
  BY <1>1 DEF feed, feedAt
<1>8. /\ \A i \in DOMAIN statuses : Settled(i) => Settled(i)'
      /\ Settled(s[1])'
  <2>1. DOMAIN statuses \subseteq Id
    BY <1>2, BackfillAssumption DEF Id
  <2>2. \A i \in DOMAIN statuses : Settled(i) => Settled(i)'
    BY <1>1, <1>5, <2>1, SettledStays
  <2>3. Settled(s[1])'
    BY <1>1, <1>5 DEF Settled, Mirrored, isTarget, NormalizeStatus
  <2> QED BY <2>2, <2>3
<1>9. TypeOK'
  BY <1>1, <1>5, <1>6 DEF CoverInv, TypeOK
<1>10. Bounds'
  BY <1>1, <1>6, <1>7 DEF CoverInv, Bounds
<1>11. GapRead' /\ CommittedCovers'
  BY <1>1, <1>8 DEF CoverInv, GapRead, CommittedCovers
<1>12. PageRead'
  <2> SUFFICES ASSUME NEW i \in DOMAIN statuses, feed \in statuses[i].kind.feeds,
                      cursor.committed[feed] < i, i <= worker.ceiling,
                      cursor.next[feed] = 0 \/ i < cursor.next[feed],
                      worker.nextMax = 0 \/ worker.nextMax <= i, ~Settled(i)'
               PROVE  \E x \in worker.page \ {s} : x[1] = i
    BY <1>1, <1>6, <1>7 DEF PageRead
  <2>1. PICK x \in worker.page : x[1] = i
    BY <1>1, <1>8 DEF CoverInv, PageRead
  <2>2. x # s
    BY <1>8, <2>1
  <2> QED BY <2>1, <2>2
<1>13. Closing'
  BY <1>6 DEF Closing
<1> QED BY <1>5, <1>9, <1>10, <1>11, <1>12, <1>13 DEF CoverInv

\* Steps of recoverFeed that save a cursor: statuses and outbox stay, and a
\* cursor never goes beyond what is known of the timeline.
LEMMA SaveKeepsCover ==
  ASSUME CoverInv, UNCHANGED <<statuses, mapping, inbox, sent>>, cursor' \in Cursors,
         worker' \in Locals, worker'.pc # "statuses", worker'.page \subseteq worker.page,
         worker'.ceiling <= Len(statuses), worker'.pc = "page" => worker'.remaining >= 1,
         \A f \in Feed : /\ cursor'.committed[f] <= Len(statuses)
                         /\ cursor'.ceiling[f] <= Len(statuses),
         \A f \in Feed, i \in DOMAIN statuses :
           f \in statuses[i].kind.feeds =>
             /\ i <= cursor'.committed[f] => Settled(i)
             /\ cursor'.next[f] # 0 /\ cursor'.next[f] <= i /\ i <= cursor'.ceiling[f]
                  => Settled(i),
         worker'.pc = "committed" =>
           \A i \in DOMAIN statuses :
             feed' \in statuses[i].kind.feeds /\ i <= worker'.ceiling => Settled(i)
  PROVE  CoverInv'
<1>1. \A i \in DOMAIN statuses : Settled(i)' <=> Settled(i)
  BY DEF Settled, Mirrored, isTarget, NormalizeStatus
<1>2. TypeOK' /\ Recorded' /\ Bounds' /\ PageRead'
  BY DEF CoverInv, TypeOK, StoreOK, Recorded, Bounds, PageRead
<1>3. GapRead' /\ CommittedCovers'
  <2>1. \A f \in Feed, i \in DOMAIN statuses :
          f \in statuses[i].kind.feeds =>
            /\ i <= cursor'.committed[f] => Settled(i)'
            /\ cursor'.next[f] # 0 /\ cursor'.next[f] <= i /\ i <= cursor'.ceiling[f]
                 => Settled(i)'
    BY <1>1
  <2>2. GapRead'
    BY <2>1 DEF GapRead
  <2>3. CommittedCovers'
    BY <2>1 DEF CommittedCovers
  <2> QED BY <2>2, <2>3
<1>4. Closing'
  BY <1>1 DEF Closing
<1> QED BY <1>2, <1>3, <1>4 DEF CoverInv

\* What the invariant says of the feed in hand, before a cursor is saved.
LEMMA BeforeSave ==
  ASSUME CoverInv
  PROVE  /\ cursor \in Cursors /\ worker \in Locals /\ feed \in Feed
         /\ Len(statuses) \in Nat /\ DOMAIN statuses = 1..Len(statuses)
         /\ worker.ceiling \in Nat /\ worker.ceiling <= Len(statuses)
         /\ \A f \in Feed :
              /\ cursor.committed[f] \in Nat /\ cursor.committed[f] <= Len(statuses)
              /\ cursor.ceiling[f] \in Nat /\ cursor.ceiling[f] <= Len(statuses)
              /\ cursor.next[f] \in Nat
         /\ \A f \in Feed, i \in DOMAIN statuses :
              f \in statuses[i].kind.feeds =>
                /\ i <= cursor.committed[f] => Settled(i)
                /\ cursor.next[f] # 0 /\ cursor.next[f] <= i /\ i <= cursor.ceiling[f]
                     => Settled(i)
<1>1. cursor \in Cursors /\ worker \in Locals /\ statuses \in Seq(Status)
  BY DEF CoverInv, TypeOK
<1>2. feed \in Feed
  BY <1>1, FeedType DEF Cursors
<1>3. /\ worker.ceiling \in Nat /\ worker.ceiling <= Len(statuses)
      /\ \A f \in Feed :
           /\ cursor.committed[f] \in Nat /\ cursor.committed[f] <= Len(statuses)
           /\ cursor.ceiling[f] \in Nat /\ cursor.ceiling[f] <= Len(statuses)
           /\ cursor.next[f] \in Nat
  BY <1>1 DEF CoverInv, Bounds, Cursors, Locals
<1>4. \A f \in Feed, i \in DOMAIN statuses :
        f \in statuses[i].kind.feeds =>
          /\ i <= cursor.committed[f] => Settled(i)
          /\ cursor.next[f] # 0 /\ cursor.next[f] <= i /\ i <= cursor.ceiling[f] => Settled(i)
  BY DEF CoverInv, CommittedCovers, GapRead
<1> QED BY <1>1, <1>2, <1>3, <1>4

LEMMA PageDoneKeepsCover ==
  ASSUME CoverInv, PageDone
  PROVE  CoverInv'
<1>1. /\ worker.pc = "statuses" /\ worker.page = {} /\ worker.ceiling = cursor.ceiling[feed]
      /\ UNCHANGED <<statuses, mapping, inbox, sent>>
  BY DEF PageDone, CoverInv, Bounds
<1>2. \A i \in DOMAIN statuses :
        /\ feed \in statuses[i].kind.feeds /\ i <= worker.ceiling
        /\ worker.nextMax = 0 \/ worker.nextMax <= i
        => Settled(i)
  <2> SUFFICES ASSUME NEW i \in DOMAIN statuses, feed \in statuses[i].kind.feeds,
                      i <= worker.ceiling, worker.nextMax = 0 \/ worker.nextMax <= i
               PROVE  Settled(i)
    OBVIOUS
  <2>1. i \in Nat /\ cursor.committed[feed] \in Nat /\ cursor.next[feed] \in Nat
    BY BeforeSave
  <2>2. CASE i <= cursor.committed[feed]
    BY <2>2, BeforeSave
  <2>3. CASE cursor.next[feed] # 0 /\ cursor.next[feed] <= i
    BY <1>1, <2>3, BeforeSave
  <2>4. CASE cursor.committed[feed] < i /\ (cursor.next[feed] = 0 \/ i < cursor.next[feed])
    BY <1>1, <2>4 DEF CoverInv, PageRead
  <2> QED BY <2>1, <2>2, <2>3, <2>4
<1>3. CASE worker.nextMax # 0
  <2>1. cursor' = [cursor EXCEPT !.next[feed] = worker.nextMax] /\ Goto("index")
    BY <1>3 DEF PageDone
  <2>2. worker.nextMax \in Nat /\ "index" \in Pc /\ feed \in Feed
    BY BeforeSave DEF Locals, Pc
  <2>3. /\ cursor' \in Cursors /\ cursor'.next = [cursor.next EXCEPT ![feed] = worker.nextMax]
        /\ cursor'.committed = cursor.committed /\ cursor'.ceiling = cursor.ceiling
    BY <2>1, <2>2, BeforeSave, SaveCursor, Zenon
  <2>4. /\ worker' \in Locals /\ worker'.pc = "index" /\ worker'.page = worker.page
        /\ worker'.ceiling = worker.ceiling
    BY <2>1, <2>2, BeforeSave, GotoType
  <2>5. \A f \in Feed : cursor'.next[f] = IF f = feed THEN worker.nextMax ELSE cursor.next[f]
    BY <2>2, <2>3, BeforeSave DEF Cursors
  <2>6. \A f \in Feed, i \in DOMAIN statuses :
          f \in statuses[i].kind.feeds =>
            /\ i <= cursor'.committed[f] => Settled(i)
            /\ cursor'.next[f] # 0 /\ cursor'.next[f] <= i /\ i <= cursor'.ceiling[f]
                 => Settled(i)
    BY <1>1, <1>2, <2>3, <2>5, BeforeSave
  <2> QED BY <1>1, <2>3, <2>4, <2>6, BeforeSave, SaveKeepsCover
<1>4. CASE worker.nextMax = 0
  <2>1. cursor' = cursor /\ Goto("committed") /\ "committed" \in Pc
    BY <1>4 DEF PageDone, Pc
  <2>2. /\ worker' \in Locals /\ worker'.pc = "committed" /\ worker'.page = worker.page
        /\ worker'.ceiling = worker.ceiling
    BY <2>1, BeforeSave, GotoType
  <2>3. feed' = feed
    BY <2>1 DEF feed, feedAt
  <2> QED BY <1>1, <1>2, <1>4, <2>1, <2>2, <2>3, BeforeSave, SaveKeepsCover
<1> QED BY <1>3, <1>4

LEMMA CloseKeepsCover ==
  ASSUME CoverInv, SaveCommitted \/ ClearCeiling \/ ClearNext
  PROVE  CoverInv'
<1>1. UNCHANGED <<statuses, mapping, inbox, sent>> /\ 0 \in Nat
  BY DEF SaveCommitted, ClearCeiling, ClearNext
<1>2. /\ worker' \in Locals /\ worker'.pc \in {"ceiling", "next", "index"}
      /\ worker'.page = worker.page /\ worker'.ceiling = worker.ceiling
  <2>1. PICK pc \in {"ceiling", "next", "index"} : Goto(pc)
    BY DEF SaveCommitted, ClearCeiling, ClearNext
  <2>2. pc \in Pc
    BY DEF Pc
  <2> QED BY <2>1, <2>2, BeforeSave, GotoType
<1>3. /\ cursor' \in Cursors
      /\ \A f \in Feed :
           /\ \/ cursor'.committed[f] = cursor.committed[f]
              \/ /\ SaveCommitted /\ worker.pc = "committed" /\ f = feed
                 /\ cursor'.committed[f] = worker.ceiling
           /\ cursor'.ceiling[f] = cursor.ceiling[f] \/ cursor'.ceiling[f] = 0
           /\ cursor'.next[f] = cursor.next[f] \/ cursor'.next[f] = 0
  <2>1. CASE SaveCommitted
    <3>1. CASE worker.ceiling = 0
      BY <2>1, <3>1, BeforeSave DEF SaveCommitted
    <3>2. CASE worker.ceiling # 0
      <4>1. cursor' = [cursor EXCEPT !.committed[feed] = worker.ceiling]
            /\ worker.pc = "committed"
        BY <2>1, <3>2 DEF SaveCommitted
      <4>2. /\ cursor' \in Cursors
            /\ cursor'.committed = [cursor.committed EXCEPT ![feed] = worker.ceiling]
            /\ cursor'.ceiling = cursor.ceiling /\ cursor'.next = cursor.next
        BY <4>1, BeforeSave, SaveCursor, Zenon
      <4>3. \A f \in Feed :
              cursor'.committed[f] = IF f = feed THEN worker.ceiling ELSE cursor.committed[f]
        BY <4>2, BeforeSave DEF Cursors
      <4> QED BY <2>1, <4>1, <4>2, <4>3
    <3> QED BY <3>1, <3>2
  <2>2. CASE ClearCeiling
    <3>1. cursor' = [cursor EXCEPT !.ceiling[feed] = 0]
      BY <2>2 DEF ClearCeiling
    <3>2. /\ cursor' \in Cursors /\ cursor'.ceiling = [cursor.ceiling EXCEPT ![feed] = 0]
          /\ cursor'.committed = cursor.committed /\ cursor'.next = cursor.next
      BY <1>1, <3>1, BeforeSave, SaveCursor, Zenon
    <3> QED BY <3>2, BeforeSave DEF Cursors
  <2>3. CASE ClearNext
    <3>1. cursor' = [cursor EXCEPT !.next[feed] = 0]
      BY <2>3 DEF ClearNext
    <3>2. /\ cursor' \in Cursors /\ cursor'.next = [cursor.next EXCEPT ![feed] = 0]
          /\ cursor'.committed = cursor.committed /\ cursor'.ceiling = cursor.ceiling
      BY <1>1, <3>1, BeforeSave, SaveCursor, Zenon
    <3> QED BY <3>2, BeforeSave DEF Cursors
  <2> QED BY <2>1, <2>2, <2>3
<1>4. \A f \in Feed : cursor'.committed[f] <= Len(statuses) /\ cursor'.ceiling[f] <= Len(statuses)
  BY <1>3, BeforeSave
<1>5. worker.pc = "committed" => \A i \in DOMAIN statuses :
        feed \in statuses[i].kind.feeds /\ i <= worker.ceiling => Settled(i)
  BY DEF CoverInv, Closing
<1>6. \A f \in Feed, i \in DOMAIN statuses :
        f \in statuses[i].kind.feeds =>
          /\ i <= cursor'.committed[f] => Settled(i)
          /\ cursor'.next[f] # 0 /\ cursor'.next[f] <= i /\ i <= cursor'.ceiling[f]
               => Settled(i)
  <2> SUFFICES ASSUME NEW f \in Feed, NEW i \in DOMAIN statuses, f \in statuses[i].kind.feeds
               PROVE  /\ i <= cursor'.committed[f] => Settled(i)
                      /\ cursor'.next[f] # 0 /\ cursor'.next[f] <= i /\ i <= cursor'.ceiling[f]
                           => Settled(i)
    OBVIOUS
  <2>1. i \in Nat /\ i # 0
    BY BeforeSave
  <2> QED BY <1>3, <1>5, <2>1, BeforeSave
<1> QED BY <1>1, <1>2, <1>3, <1>4, <1>6, BeforeSave, SaveKeepsCover

LEMMA SaveIndexKeepsCover ==
  ASSUME CoverInv, SaveIndex
  PROVE  CoverInv'
<1> DEFINE visited == worker.visited + 1
           remaining == worker.remaining - worker.used
           pc == IF visited < Len(Feeds) /\ remaining > 0 THEN "page" ELSE "connect"
           index == (cursor.index + 1) % Len(Feeds)
<1>1. /\ UNCHANGED <<statuses, mapping, inbox, sent>>
      /\ cursor' = [cursor EXCEPT !.index = index]
      /\ worker' = [Idle EXCEPT !.pc = pc, !.visited = visited, !.remaining = remaining]
  BY DEF SaveIndex
<1>2. visited \in Nat /\ remaining \in Int /\ pc \in Pc /\ pc \in {"page", "connect"}
      /\ (pc = "page" => remaining >= 1)
  BY BeforeSave DEF Locals, Pc
<1>3. index \in Nat
  <2>1. cursor.index \in Nat
    BY BeforeSave DEF Cursors
  <2>2. Len(Feeds) \in Nat \ {0}
    BY <2>1, FeedType
  <2> HIDE DEF visited, remaining, pc
  <2> QED BY <2>1, <2>2
<1> HIDE DEF visited, remaining, pc, index
<1>4. Resting(worker') /\ worker'.pc = pc /\ worker'.remaining = remaining
  <2>1. worker' = [Idle EXCEPT !.pc = pc, !.visited = visited, !.remaining = remaining]
    BY <1>1
  <2> QED BY <1>2, <2>1, Zenon DEF Resting, Idle, Locals
<1>5. /\ cursor' \in Cursors /\ cursor'.committed = cursor.committed
      /\ cursor'.ceiling = cursor.ceiling /\ cursor'.next = cursor.next
  BY <1>1, <1>3, BeforeSave, Zenon DEF Cursors
<1>6. /\ worker' \in Locals /\ worker'.pc \notin {"statuses", "committed"}
      /\ worker'.page \subseteq worker.page /\ worker'.ceiling <= Len(statuses)
      /\ worker'.pc = "page" => worker'.remaining >= 1
  BY <1>2, <1>4, BeforeSave DEF Resting
<1> QED BY <1>1, <1>5, <1>6, BeforeSave, SaveKeepsCover
-----------------------------------------------------------------------------
(***************************************************************************)
(* Versions.                                                               *)
(***************************************************************************)

\* Version v of status i is on the page in hand or in the stream.
Awaited(i, v) ==
  \/ <<i, v>> \in worker.page
  \/ \E k \in DOMAIN inbox : inbox[k].op # "delete" /\ inbox[k].id = i /\ inbox[k].version = v

\* A worker has a page or a stream, and both agree with the instance.
Sources ==
  /\ inbox # << >> => worker.pc = "stream"
  /\ worker.page # {} => worker.pc = "statuses"
  /\ \A x, y \in worker.page : x[1] = y[1] => x = y
  /\ \A x \in worker.page : x[2] <= statuses[x[1]].version
  /\ \A k \in DOMAIN inbox :
       /\ inbox[k].id \in DOMAIN statuses
       /\ inbox[k].version <= statuses[inbox[k].id].version
       /\ inbox[k].op = "delete" => statuses[inbox[k].id].deleted
       /\ inbox[k].op # "delete" => inbox[k].version # 0
  /\ \A j, k \in DOMAIN inbox :
       j < k /\ inbox[j].id = inbox[k].id /\ inbox[k].op # "delete" =>
         inbox[j].op # "delete" /\ inbox[j].version <= inbox[k].version

\* The mapping holds the version enqueued last until a deletion is handled,
\* and after that nothing is awaited.
LastSent ==
  \A i \in Id :
    /\ \A k \in DOMAIN sent[i] :
         /\ i \in DOMAIN statuses /\ sent[i][k] <= statuses[i].version
         /\ \A v \in Nat : Awaited(i, v) => sent[i][k] <= v
    /\ mapping[i] # 0 => mapping[i] = sent[i][Len(sent[i])]
    /\ mapping[i] = 0 /\ sent[i] # << >> =>
         statuses[i].deleted /\ \A v \in Nat : ~Awaited(i, v)

VersionInv == Sources /\ LastSent /\ VersionsAscend

\* A step that enqueues nothing and after which no more is awaited.
LEMMA LessAwaited ==
  ASSUME VersionInv, Sources', UNCHANGED <<statuses, mapping, sent>>,
         \A i \in Id, v \in Nat : Awaited(i, v)' => Awaited(i, v)
  PROVE  VersionInv'
<1>1. LastSent'
  BY Zenon DEF VersionInv, LastSent
<1> QED BY <1>1, Zenon DEF VersionInv, VersionsAscend

\* An awaited version is handled, and what is awaited of the status now is no
\* older.
LEMMA HandledVersion ==
  ASSUME TypeOK, Recorded, VersionInv, Sources', UNCHANGED statuses,
         NEW i \in Id, i \in DOMAIN statuses, NEW v \in Nat \ {0}, handleStatus(i, v),
         Awaited(i, v), v <= statuses[i].version,
         \A j \in Id, w \in Nat : Awaited(j, w)' => Awaited(j, w),
         \A w \in Nat : Awaited(i, w)' => v <= w
  PROVE  VersionInv'
<1>1. CASE ~Mirrored(i) \/ mapping[i] = v
  <2>1. UNCHANGED <<mapping, sent>>
    BY <1>1, Zenon DEF handleStatus
  <2> QED BY <2>1, LessAwaited, Zenon
<1>2. CASE Mirrored(i) /\ mapping[i] # v
  <2>1. mapping' = [mapping EXCEPT ![i] = v] /\ sent' = [sent EXCEPT ![i] = Append(@, v)]
    BY <1>2, Zenon DEF handleStatus
  <2>2. mapping \in [Id -> Nat] /\ sent \in [Id -> Seq(Nat)]
    BY Zenon DEF TypeOK, StoreOK
  <2> DEFINE s == sent[i]
             n == Len(s)
  <2>3. s \in Seq(Nat) /\ n \in Nat /\ DOMAIN s = 1..n /\ \A k \in 1..n : s[k] \in Nat
    BY <2>2
  <2>4. /\ mapping'[i] = v /\ sent'[i] = Append(s, v)
        /\ \A j \in Id : j # i => mapping'[j] = mapping[j] /\ sent'[j] = sent[j]
    BY <2>1, <2>2, Zenon
  <2>5. /\ Len(sent'[i]) = n + 1 /\ DOMAIN sent'[i] = 1..n + 1 /\ sent'[i][n + 1] = v
        /\ \A k \in 1..n : sent'[i][k] = s[k]
    BY <2>3, <2>4
  <2>6. /\ \A k \in 1..n : s[k] <= v
        /\ \A j, k \in 1..n : j < k => s[j] < s[k]
    BY <2>3, Zenon DEF VersionInv, LastSent, VersionsAscend
  <2>7. n # 0 => s[n] # v
    <3>1. n # 0 => mapping[i] # 0
      <4>1. n # 0 => s # << >>
        BY <2>3
      <4> QED BY <2>2, <4>1 DEF VersionInv, LastSent
    <3> QED BY <1>2, <3>1 DEF VersionInv, LastSent
  <2> HIDE DEF s, n
  <2>8. \A k \in 1..n : s[k] < v
    <3> SUFFICES ASSUME NEW k \in 1..n PROVE s[k] < v
      BY Zenon
    <3>1. n \in 1..n /\ n # 0 /\ k <= n
      BY <2>3
    <3>2. s[k] \in Nat /\ s[n] \in Nat /\ s[n] <= v /\ s[n] # v /\ s[k] <= s[n]
      BY <2>3, <2>6, <2>7, <3>1
    <3> QED BY <3>2
  <2>9. VersionsAscend'
    <3>1. \A j, k \in 1..n + 1 : j < k => sent'[i][j] < sent'[i][k]
      <4> SUFFICES ASSUME NEW j \in 1..n + 1, NEW k \in 1..n + 1, j < k
                   PROVE  sent'[i][j] < sent'[i][k]
        BY Zenon
      <4>1. j \in 1..n /\ (k \in 1..n \/ k = n + 1)
        BY <2>3
      <4> QED BY <2>5, <2>6, <2>8, <4>1
    <3> QED BY <2>4, <2>5, <3>1 DEF VersionInv, VersionsAscend
  <2>10. LastSent'
    <3> SUFFICES ASSUME NEW j \in Id
                 PROVE  /\ \A k \in DOMAIN sent'[j] :
                             /\ j \in DOMAIN statuses /\ sent'[j][k] <= statuses[j].version
                             /\ \A w \in Nat : Awaited(j, w)' => sent'[j][k] <= w
                        /\ mapping'[j] # 0 => mapping'[j] = sent'[j][Len(sent'[j])]
                        /\ mapping'[j] = 0 /\ sent'[j] # << >> =>
                             statuses[j].deleted /\ \A w \in Nat : ~Awaited(j, w)'
      BY Zenon DEF LastSent
    <3>1. CASE j # i
      BY <2>4, <3>1 DEF VersionInv, LastSent
    <3>2. CASE j = i
      <4>1. \A k \in 1..n + 1 : sent'[i][k] \in Nat /\ sent'[i][k] <= v
        <5> SUFFICES ASSUME NEW k \in 1..n + 1 PROVE sent'[i][k] \in Nat /\ sent'[i][k] <= v
          BY Zenon
        <5>1. k \in 1..n \/ k = n + 1
          BY <2>3
        <5> QED BY <2>3, <2>5, <2>6, <5>1
      <4>2. statuses[i].version \in Nat
        <5>1. statuses[i] \in Status
          BY DEF TypeOK
        <5> QED BY <5>1, Zenon DEF Status
      <4>3. \A k \in 1..n + 1 : sent'[i][k] <= statuses[i].version
        BY <4>1, <4>2
      <4>4. \A k \in 1..n + 1, w \in Nat : Awaited(i, w)' => sent'[i][k] <= w
        BY <4>1
      <4> QED BY <2>4, <2>5, <3>2, <4>3, <4>4
    <3> QED BY <3>1, <3>2
  <2> QED BY <2>9, <2>10, Zenon DEF VersionInv
<1> QED BY <1>1, <1>2, Zenon

\* A step between the page and the stream: nothing is awaited after it.
LEMMA NothingAwaited ==
  ASSUME VersionInv, UNCHANGED <<statuses, mapping, sent>>, inbox' = << >>, worker'.page = {}
  PROVE  VersionInv'
<1>1. Sources'
  BY DEF Sources
<1>2. \A i \in Id, v \in Nat : ~Awaited(i, v)'
  BY DEF Awaited
<1> QED BY <1>1, <1>2, LessAwaited

LEMMA RestKeepsVersions ==
  ASSUME CoverInv, VersionInv,
         \/ BeginBackfill \/ BackfillFails \/ Subscribe \/ Disconnect
         \/ PageDone \/ SaveCommitted \/ ClearCeiling \/ ClearNext \/ SaveIndex
  PROVE  VersionInv'
<1>1. UNCHANGED <<statuses, mapping, sent>>
  BY Zenon DEF BeginBackfill, BackfillFails, Subscribe, Disconnect, PageDone, SaveCommitted,
         ClearCeiling, ClearNext, SaveIndex, store
<1>2. inbox' = << >>
  <2>1. worker.pc # "stream" => inbox = << >>
    BY Zenon DEF VersionInv, Sources
  <2> QED BY <2>1 DEF BeginBackfill, BackfillFails, Subscribe, Disconnect, PageDone,
             SaveCommitted, ClearCeiling, ClearNext, SaveIndex
<1>3. worker'.page = {}
  <2>1. CASE BeginBackfill \/ BackfillFails \/ Subscribe \/ Disconnect \/ SaveIndex
    <3>1. CASE BackfillFails \/ Disconnect
      BY <3>1 DEF BackfillFails, Disconnect, Idle
    <3>2. CASE Subscribe
      BY <3>2 DEF Subscribe, Idle
    <3>3. CASE BeginBackfill
      BY <3>3 DEF BeginBackfill, Idle
    <3>4. CASE SaveIndex
      BY <3>4 DEF SaveIndex, Idle
    <3> QED BY <2>1, <3>1, <3>2, <3>3, <3>4
  <2>2. CASE PageDone \/ SaveCommitted \/ ClearCeiling \/ ClearNext
    <3>1. worker.page = {}
      <4>1. worker.pc # "statuses" => worker.page = {}
        BY Zenon DEF VersionInv, Sources
      <4> QED BY <2>2, <4>1 DEF PageDone, SaveCommitted, ClearCeiling, ClearNext
    <3>2. \E pc \in Pc : Goto(pc)
      BY <2>2 DEF PageDone, SaveCommitted, ClearCeiling, ClearNext, Pc
    <3>3. worker'.page = worker.page
      BY <3>2, GotoType DEF CoverInv, TypeOK
    <3> QED BY <3>1, <3>3
  <2> QED BY <2>1, <2>2
<1> QED BY <1>1, <1>2, <1>3, NothingAwaited

LEMMA ReadPageKeepsVersions ==
  ASSUME CoverInv, VersionInv, ReadPage
  PROVE  VersionInv'
<1>1. worker.pc = "page" /\ UNCHANGED <<statuses, mapping, inbox, sent>>
  BY Zenon DEF ReadPage
<1>2. inbox = << >>
  BY <1>1 DEF VersionInv, Sources
<1>3. PICK ids \in SUBSET DOMAIN statuses :
        /\ worker'.pc = "statuses"
        /\ worker'.page = {<<i, statuses[i].version>> : i \in ids}
        /\ \A i \in ids : ~statuses[i].deleted
  <2>1. worker \in Locals
    BY DEF CoverInv, TypeOK
  <2> DEFINE f == feed
             limit == IF worker.remaining < PageLimit THEN worker.remaining ELSE PageLimit
             ids == statusTimelinePage(f, cursor.committed[f], cursor.next[f], limit)
             ceiling == IF cursor.ceiling[f] = 0 /\ ids # {} THEN Largest(ids)
                        ELSE cursor.ceiling[f]
             page == {<<i, statuses[i].version>> : i \in ids}
  <2>2. \E nextMax \in IF ids = {} THEN {0}
                       ELSE IF Cardinality(ids) = limit THEN {Smallest(ids)}
                       ELSE {0, Smallest(ids)} :
          worker' = [worker EXCEPT !.pc = "statuses", !.ceiling = ceiling, !.page = page,
                                   !.nextMax = nextMax, !.used = Cardinality(ids)]
    BY Zenon DEF ReadPage
  <2>3. ids \in SUBSET DOMAIN statuses /\ \A i \in ids : ~statuses[i].deleted
    BY Zenon DEF statusTimelinePage
  <2> HIDE DEF f, limit, ids, ceiling, page
  <2>4. worker'.pc = "statuses" /\ worker'.page = page
    BY <2>1, <2>2 DEF Locals
  <2> QED BY <2>3, <2>4 DEF page
<1>4. \A i \in DOMAIN statuses : statuses[i].version \in Nat
  <2>1. \A i \in DOMAIN statuses : statuses[i] \in Status
    BY DEF CoverInv, TypeOK
  <2> QED BY <2>1 DEF Status
<1>5. \A x \in worker'.page : /\ x[1] \in ids /\ x[2] = statuses[x[1]].version
                              /\ x = <<x[1], x[2]>>
  BY <1>3
<1>6. Sources'
  <2>1. \A x, y \in worker'.page : x[1] = y[1] => x = y
    BY <1>5
  <2>2. \A x \in worker'.page : x[2] <= statuses'[x[1]].version
    BY <1>1, <1>3, <1>4, <1>5
  <2> QED BY <1>1, <1>2, <1>3, <2>1, <2>2 DEF Sources
<1>7. \A i \in Id, v \in Nat :
        Awaited(i, v)' => i \in ids /\ v = statuses[i].version
  <2> SUFFICES ASSUME NEW i \in Id, NEW v \in Nat, Awaited(i, v)'
               PROVE  i \in ids /\ v = statuses[i].version
    OBVIOUS
  <2>1. <<i, v>> \in worker'.page
    BY <1>1, <1>2 DEF Awaited
  <2> QED BY <1>5, <2>1
<1>8. LastSent'
  BY <1>1, <1>3, <1>7 DEF VersionInv, LastSent
<1> QED BY <1>1, <1>6, <1>8 DEF VersionInv, VersionsAscend

LEMMA HandlePageKeepsVersions ==
  ASSUME CoverInv, VersionInv, HandlePage
  PROVE  VersionInv'
<1>1. /\ worker.pc = "statuses" /\ worker.page # {} /\ UNCHANGED <<statuses, inbox>>
      /\ TypeOK /\ Recorded
  BY Zenon DEF HandlePage, CoverInv
<1>2. worker \in Locals /\ worker.page \in SUBSET (Nat \X Nat)
      /\ statuses \in Seq(Status) /\ Len(statuses) <= MaxStatus /\ inbox = << >>
  BY <1>1 DEF TypeOK, Locals, VersionInv, Sources
<1>3. PICK s \in worker.page :
        handleStatus(s[1], s[2]) /\ worker' = [worker EXCEPT !.page = @ \ {s}]
  <2>1. Oldest(worker.page) \in worker.page
    BY <1>1, <1>2, OldestOnPage
  <2> QED BY <2>1, Zenon DEF HandlePage, Oldest
<1>4. s[1] \in DOMAIN statuses /\ s[2] \in Nat \ {0} /\ s[1] \in Id /\ s = <<s[1], s[2]>>
  BY <1>2, <1>3, BackfillAssumption DEF CoverInv, Bounds, Id
<1>5. worker'.page = worker.page \ {s} /\ worker'.pc = "statuses"
  BY <1>1, <1>2, <1>3 DEF Locals
<1>6. Sources'
  BY <1>1, <1>2, <1>5 DEF VersionInv, Sources
<1>7. /\ Awaited(s[1], s[2]) /\ \A j \in Id, w \in Nat : Awaited(j, w)' => Awaited(j, w)
      /\ s[2] <= statuses[s[1]].version
  BY <1>1, <1>3, <1>4, <1>5 DEF Awaited, VersionInv, Sources
<1>8. \A w \in Nat : ~Awaited(s[1], w)'
  <2> SUFFICES ASSUME NEW w \in Nat, Awaited(s[1], w)' PROVE FALSE
    OBVIOUS
  <2>1. <<s[1], w>> \in worker.page /\ <<s[1], w>> # s
    BY <1>1, <1>2, <1>5 DEF Awaited
  <2> QED BY <1>3, <2>1 DEF VersionInv, Sources
<1> QED BY <1>1, <1>3, <1>4, <1>6, <1>7, <1>8, HandledVersion

\* The first message of the stream is handled and the others move up.
LEMMA HandleEventKeepsVersions ==
  ASSUME CoverInv, VersionInv, HandleEvent
  PROVE  CoverInv' /\ VersionInv'
<1> DEFINE m == Head(inbox)
           n == Len(inbox)
<1>1. /\ worker.pc = "stream" /\ inbox # << >> /\ UNCHANGED <<statuses, worker>>
      /\ inbox' = Tail(inbox) /\ TypeOK /\ Recorded /\ inbox \in Seq(Message)
      /\ statuses \in Seq(Status) /\ Len(statuses) <= MaxStatus /\ mapping \in [Id -> Nat]
  BY DEF HandleEvent, CoverInv, TypeOK, StoreOK
<1>2. /\ n \in Nat \ {0} /\ DOMAIN inbox = 1..n /\ m = inbox[1] /\ m \in Message
      /\ inbox' \in Seq(Message) /\ DOMAIN inbox' = 1..n - 1
      /\ \A k \in 1..n - 1 : inbox'[k] = inbox[k + 1] /\ k + 1 \in 1..n
  BY <1>1
<1>3. /\ m.id \in DOMAIN statuses /\ m.version <= statuses[m.id].version
      /\ m.op = "delete" => statuses[m.id].deleted
      /\ m.op # "delete" => m.version # 0
  BY <1>2 DEF VersionInv, Sources
<1>4. CoverInv'
  BY <1>3, HandleEventKeepsCover, Zenon
<1>5. PICK i \in Id, v \in Nat : i = m.id /\ v = m.version
  <2>1. m.id \in Id /\ m.version \in Nat
    BY <1>1, <1>2, <1>3, BackfillAssumption DEF Id, Message
  <2> QED BY <2>1
<1> HIDE DEF m, n
<1>6. worker.page = {} /\ worker'.page = {}
  BY <1>1 DEF VersionInv, Sources
<1>7. Sources'
  <2>1. \A k \in 1..n - 1 :
          /\ inbox'[k].id \in DOMAIN statuses
          /\ inbox'[k].version <= statuses[inbox'[k].id].version
          /\ inbox'[k].op = "delete" => statuses[inbox'[k].id].deleted
          /\ inbox'[k].op # "delete" => inbox'[k].version # 0
    <3> SUFFICES ASSUME NEW k \in 1..n - 1, NEW a \in 1..n, inbox'[k] = inbox[a]
                 PROVE  /\ inbox'[k].id \in DOMAIN statuses
                        /\ inbox'[k].version <= statuses[inbox'[k].id].version
                        /\ inbox'[k].op = "delete" => statuses[inbox'[k].id].deleted
                        /\ inbox'[k].op # "delete" => inbox'[k].version # 0
      BY <1>2
    <3> QED BY <1>2 DEF VersionInv, Sources
  <2>2. \A j, k \in 1..n - 1 :
          j < k /\ inbox'[j].id = inbox'[k].id /\ inbox'[k].op # "delete" =>
            inbox'[j].op # "delete" /\ inbox'[j].version <= inbox'[k].version
    <3> SUFFICES ASSUME NEW j \in 1..n - 1, NEW k \in 1..n - 1, j < k,
                        inbox'[j].id = inbox'[k].id, inbox'[k].op # "delete"
                 PROVE  inbox'[j].op # "delete" /\ inbox'[j].version <= inbox'[k].version
      BY Zenon
    <3>1. PICK a, b \in DOMAIN inbox : a < b /\ inbox'[j] = inbox[a] /\ inbox'[k] = inbox[b]
      <4>1. j + 1 \in DOMAIN inbox /\ k + 1 \in DOMAIN inbox /\ j + 1 < k + 1
        BY <1>2
      <4> QED BY <1>2, <4>1, Zenon
    <3> QED BY <1>2, <3>1 DEF VersionInv, Sources
  <2> QED BY <1>1, <1>2, <1>6, <2>1, <2>2, Zenon DEF Sources
<1>8. \A j \in Id, w \in Nat : Awaited(j, w)' =>
        \E k \in DOMAIN inbox : /\ 1 < k /\ inbox[k].op # "delete" /\ inbox[k].id = j
                                /\ inbox[k].version = w
  <2> SUFFICES ASSUME NEW j \in Id, NEW w \in Nat, Awaited(j, w)'
               PROVE  \E k \in DOMAIN inbox : /\ 1 < k /\ inbox[k].op # "delete"
                                             /\ inbox[k].id = j /\ inbox[k].version = w
    OBVIOUS
  <2>1. PICK k \in 1..n - 1 : /\ inbox'[k].op # "delete" /\ inbox'[k].id = j
                              /\ inbox'[k].version = w
    BY <1>2, <1>6 DEF Awaited
  <2>2. k + 1 \in DOMAIN inbox /\ 1 < k + 1 /\ inbox[k + 1] = inbox'[k]
    BY <1>2
  <2> QED BY <2>1, <2>2, Zenon
<1>9. \A j \in Id, w \in Nat : Awaited(j, w)' => Awaited(j, w)
  BY <1>8 DEF Awaited
<1>10. \A w \in Nat : Awaited(i, w)' => m.op # "delete" /\ v <= w
  <2> SUFFICES ASSUME NEW w \in Nat, Awaited(i, w)'
               PROVE  m.op # "delete" /\ v <= w
    OBVIOUS
  <2>1. PICK k \in DOMAIN inbox : /\ 1 < k /\ inbox[k].op # "delete" /\ inbox[k].id = i
                                 /\ inbox[k].version = w
    BY <1>8
  <2>2. 1 \in DOMAIN inbox
    BY <1>2
  <2> QED BY <1>2, <1>5, <2>1, <2>2 DEF VersionInv, Sources
<1>11. VersionInv'
  <2>1. CASE m.op = "delete"
    <3>1. deleteStatus(i)
      BY <1>5, <2>1 DEF HandleEvent, m
    <3>2. /\ UNCHANGED sent
          /\ \A j \in Id : mapping'[j] = mapping[j] \/ (j = i /\ mapping'[j] = 0)
      BY <1>1, <1>5, <3>1 DEF deleteStatus
    <3>3. \A w \in Nat : ~Awaited(i, w)'
      BY <1>10, <2>1
    <3>4. LastSent'
      <4>1. statuses[i].deleted
        BY <1>3, <1>5, <2>1
      <4> QED BY <1>1, <1>9, <3>2, <3>3, <4>1 DEF VersionInv, LastSent
    <3> QED BY <1>7, <3>2, <3>4 DEF VersionInv, VersionsAscend
  <2>2. CASE m.op # "delete"
    <3>1. /\ handleStatus(i, v) /\ v \in Nat \ {0} /\ i \in DOMAIN statuses
          /\ v <= statuses[i].version
      BY <1>3, <1>5, <2>2 DEF HandleEvent, m
    <3>2. Awaited(i, v)
      BY <1>2, <1>5, <2>2 DEF Awaited
    <3> QED BY <1>1, <1>7, <1>9, <1>10, <3>1, <3>2, HandledVersion
  <2> QED BY <2>1, <2>2
<1> QED BY <1>4, <1>11, Zenon

\* The instance pushes only what is no older than the status, and deletes a
\* status once.
LEMMA PushKeepsVersions ==
  ASSUME TypeOK, Bounds, VersionInv, UNCHANGED <<mapping, sent, worker>>,
         NEW i \in Nat, NEW v \in Nat, NEW op \in {"update", "status.update", "delete"},
         Push(op, i, v), i \in DOMAIN statuses', statuses'[i].kind \in Kind,
         statuses' \in Seq(Status), Len(statuses) <= Len(statuses'),
         \A j \in DOMAIN statuses : /\ statuses[j].version <= statuses'[j].version
                                    /\ statuses[j].deleted => statuses'[j].deleted,
         v <= statuses'[i].version, op = "delete" => statuses'[i].deleted,
         op # "delete" => v # 0,
         (op # "delete" /\ i \in DOMAIN statuses) =>
           ~statuses[i].deleted /\ statuses[i].version <= v
  PROVE  VersionInv'
<1> DEFINE n == Len(inbox)
           p == Len(inbox')
<1>1. inbox \in Seq(Message) /\ n \in Nat /\ DOMAIN inbox = 1..n /\ statuses \in Seq(Status)
      /\ sent \in [Id -> Seq(Nat)] /\ worker.page \in SUBSET (Nat \X Nat)
  BY DEF TypeOK, StoreOK, Locals
<1>2. /\ inbox' \in Seq(Message) /\ p \in Nat /\ DOMAIN inbox' = 1..p /\ n <= p
      /\ worker.pc # "stream" => inbox' = inbox
      /\ \A k \in 1..n : inbox'[k] = inbox[k]
      /\ \A k \in 1..p : k > n => inbox'[k].op = op /\ inbox'[k].id = i /\ inbox'[k].version = v
  <2>1. inbox \in Seq(Message)
    BY <1>1, Zenon
  <2>2. /\ inbox' \in Seq(Message) /\ n <= p
        /\ worker.pc # "stream" => inbox' = inbox
        /\ \A k \in 1..n : inbox'[k] = inbox[k]
        /\ \A k \in 1..p : k > n => inbox'[k].op = op /\ inbox'[k].id = i /\ inbox'[k].version = v
    BY <2>1, Pushed
  <2> QED BY <2>2
<1> HIDE DEF n, p
<1>3. /\ \A k \in 1..n : inbox[k].version \in Nat
      /\ \A j \in DOMAIN statuses : /\ j \in DOMAIN statuses' /\ statuses[j].version \in Nat
                                    /\ statuses'[j].version \in Nat
  <2>1. \A k \in 1..n : inbox[k] \in Message
    BY <1>1
  <2>2. \A j \in DOMAIN statuses :
          j \in DOMAIN statuses' /\ statuses[j] \in Status /\ statuses'[j] \in Status
    <3>1. Len(statuses) \in Nat /\ Len(statuses') \in Nat
      BY <1>1
    <3> QED BY <1>1, <3>1
  <2> QED BY <2>1, <2>2, Zenon DEF Message, Status
<1>4. \A k \in 1..p : \/ k \in 1..n /\ inbox'[k] = inbox[k]
                      \/ /\ k \notin 1..n /\ inbox'[k].op = op /\ inbox'[k].id = i
                         /\ inbox'[k].version = v
  BY <1>1, <1>2
<1>5. Sources'
  <2>1. inbox' # << >> => worker'.pc = "stream"
    BY <1>2 DEF VersionInv, Sources
  <2>2. \A x \in worker'.page : x[2] <= statuses'[x[1]].version
    <3> SUFFICES ASSUME NEW x \in worker.page PROVE x[2] <= statuses'[x[1]].version
      OBVIOUS
    <3>1. x[1] \in DOMAIN statuses /\ x[2] <= statuses[x[1]].version /\ x[2] \in Nat
      BY <1>1 DEF Bounds, VersionInv, Sources
    <3> QED BY <1>3, <3>1
  <2>3. \A k \in 1..p :
          /\ inbox'[k].id \in DOMAIN statuses'
          /\ inbox'[k].version <= statuses'[inbox'[k].id].version
          /\ inbox'[k].op = "delete" => statuses'[inbox'[k].id].deleted
          /\ inbox'[k].op # "delete" => inbox'[k].version # 0
    <3> SUFFICES ASSUME NEW k \in 1..p
                 PROVE  /\ inbox'[k].id \in DOMAIN statuses'
                        /\ inbox'[k].version <= statuses'[inbox'[k].id].version
                        /\ inbox'[k].op = "delete" => statuses'[inbox'[k].id].deleted
                        /\ inbox'[k].op # "delete" => inbox'[k].version # 0
      OBVIOUS
    <3>1. CASE k \in 1..n
      <4>1. PICK j \in DOMAIN statuses :
              /\ inbox[k].id = j /\ inbox[k].version \in Nat
              /\ inbox[k].version <= statuses[j].version
              /\ inbox[k].op = "delete" => statuses[j].deleted
              /\ inbox[k].op # "delete" => inbox[k].version # 0
        BY <1>1, <1>3, <3>1, Zenon DEF VersionInv, Sources
      <4>2. /\ j \in DOMAIN statuses' /\ inbox[k].version <= statuses'[j].version
            /\ statuses[j].deleted => statuses'[j].deleted
        BY <1>3, <4>1
      <4>3. inbox'[k] = inbox[k]
        BY <1>2, <3>1
      <4> QED BY <4>1, <4>2, <4>3
    <3>2. CASE k \notin 1..n
      BY <1>4, <3>2
    <3> QED BY <3>1, <3>2
  <2>4. \A j, k \in 1..p :
          j < k /\ inbox'[j].id = inbox'[k].id /\ inbox'[k].op # "delete" =>
            inbox'[j].op # "delete" /\ inbox'[j].version <= inbox'[k].version
    <3> SUFFICES ASSUME NEW j \in 1..p, NEW k \in 1..p, j < k,
                        inbox'[j].id = inbox'[k].id, inbox'[k].op # "delete"
                 PROVE  inbox'[j].op # "delete" /\ inbox'[j].version <= inbox'[k].version
      OBVIOUS
    <3>1. CASE k \in 1..n
      <4>1. j \in 1..n
        BY <1>1, <3>1
      <4> QED BY <1>1, <1>2, <3>1, <4>1, Zenon DEF VersionInv, Sources
    <3>2. CASE k \notin 1..n /\ j \in 1..n
      <4>1. /\ inbox'[k].op = op /\ inbox'[k].id = i /\ inbox'[k].version = v
            /\ inbox'[j] = inbox[j]
        BY <1>2, <1>4, <3>2
      <4>2. /\ i \in DOMAIN statuses /\ inbox[j].version <= statuses[i].version
            /\ inbox[j].op = "delete" => statuses[i].deleted
        BY <1>1, <3>2, <4>1 DEF VersionInv, Sources
      <4>3. ~statuses[i].deleted /\ statuses[i].version <= v /\ inbox[j].version \in Nat
            /\ statuses[i].version \in Nat
        BY <1>3, <3>2, <4>1, <4>2
      <4> QED BY <4>1, <4>2, <4>3
    <3>3. CASE k \notin 1..n /\ j \notin 1..n
      BY <1>4, <3>3
    <3> QED BY <3>1, <3>2, <3>3
  <2>5. \A x, y \in worker'.page : x[1] = y[1] => x = y
    BY Zenon DEF VersionInv, Sources
  <2>6. worker'.page # {} => worker'.pc = "statuses"
    BY DEF VersionInv, Sources
  <2> QED BY <1>2, <2>1, <2>2, <2>3, <2>4, <2>5, <2>6 DEF Sources
<1>6. \A j \in Id, w \in Nat :
        Awaited(j, w)' => Awaited(j, w) \/ (j = i /\ w = v /\ op # "delete")
  <2> SUFFICES ASSUME NEW j \in Id, NEW w \in Nat, Awaited(j, w)'
               PROVE  Awaited(j, w) \/ (j = i /\ w = v /\ op # "delete")
    OBVIOUS
  <2>1. CASE <<j, w>> \in worker'.page
    BY <2>1 DEF Awaited
  <2>2. CASE <<j, w>> \notin worker'.page
    <3>1. PICK k \in 1..p : /\ inbox'[k].op # "delete" /\ inbox'[k].id = j
                            /\ inbox'[k].version = w
      BY <1>2, <2>2 DEF Awaited
    <3>2. CASE k \in 1..n
      BY <1>1, <1>2, <3>1, <3>2 DEF Awaited
    <3>3. CASE k \notin 1..n
      BY <1>4, <3>1, <3>3
    <3> QED BY <3>2, <3>3
  <2> QED BY <2>1, <2>2
<1>7. LastSent'
  <2> SUFFICES ASSUME NEW j \in Id
               PROVE  /\ \A k \in DOMAIN sent[j] :
                           /\ j \in DOMAIN statuses' /\ sent[j][k] <= statuses'[j].version
                           /\ \A w \in Nat : Awaited(j, w)' => sent[j][k] <= w
                      /\ mapping[j] # 0 => mapping[j] = sent[j][Len(sent[j])]
                      /\ mapping[j] = 0 /\ sent[j] # << >> =>
                           statuses'[j].deleted /\ \A w \in Nat : ~Awaited(j, w)'
    BY DEF LastSent
  <2>1. ASSUME NEW k \in DOMAIN sent[j]
        PROVE  /\ j \in DOMAIN statuses' /\ sent[j][k] <= statuses'[j].version
               /\ \A w \in Nat : Awaited(j, w)' => sent[j][k] <= w
    <3>1. /\ j \in DOMAIN statuses /\ sent[j][k] <= statuses[j].version
          /\ \A w \in Nat : Awaited(j, w) => sent[j][k] <= w
      BY DEF VersionInv, LastSent
    <3>2. sent[j][k] \in Nat
      BY <1>1
    <3>3. /\ statuses[j].version \in Nat /\ statuses'[j].version \in Nat
          /\ j \in DOMAIN statuses' /\ statuses[j].version <= statuses'[j].version
      BY <1>3, <3>1
    <3>4. ASSUME j = i, op # "delete" PROVE sent[j][k] <= v
      BY <3>1, <3>2, <3>3, <3>4
    <3> QED BY <1>6, <3>1, <3>2, <3>3, <3>4
  <2>2. mapping[j] # 0 => mapping[j] = sent[j][Len(sent[j])]
    BY DEF VersionInv, LastSent
  <2>3. ASSUME mapping[j] = 0, sent[j] # << >>
        PROVE  statuses'[j].deleted /\ \A w \in Nat : ~Awaited(j, w)'
    <3>1. statuses[j].deleted /\ \A w \in Nat : ~Awaited(j, w)
      BY <2>3 DEF VersionInv, LastSent
    <3>2. 1 \in DOMAIN sent[j]
      BY <1>1, <2>3
    <3>3. j \in DOMAIN statuses
      BY <3>2, Zenon DEF VersionInv, LastSent
    <3> QED BY <1>6, <3>1, <3>3
  <2> QED BY <2>1, <2>2, <2>3
<1> QED BY <1>5, <1>7, Zenon DEF VersionInv, VersionsAscend

LEMMA InstanceKeepsVersions ==
  ASSUME CoverInv, VersionInv,
         \/ \E kind \in Kind : PostStatus(kind)
         \/ \E i \in DOMAIN statuses : EditStatus(i) \/ DeleteStatus(i)
  PROVE  VersionInv'
<1>1. /\ statuses \in Seq(Status) /\ Len(statuses) \in Nat /\ DOMAIN statuses = 1..Len(statuses)
      /\ TypeOK /\ Bounds
  BY DEF CoverInv, TypeOK
<1>2. UNCHANGED <<mapping, sent, worker>>
  BY Zenon DEF PostStatus, EditStatus, DeleteStatus, store
<1>3. \A j \in DOMAIN statuses : statuses[j].version \in Nat
  <2>1. \A j \in DOMAIN statuses : statuses[j] \in Status
    BY <1>1
  <2> QED BY <2>1 DEF Status
<1>4. ASSUME NEW kind \in Kind, PostStatus(kind) PROVE VersionInv'
  <2>1. PICK i \in Nat : i = Len(statuses) + 1
    BY <1>1
  <2>2. /\ statuses' \in Seq(Status) /\ Len(statuses') = i
        /\ \A j \in DOMAIN statuses : statuses'[j] = statuses[j]
        /\ statuses'[i] = [kind |-> kind, version |-> 1, deleted |-> FALSE]
    BY <1>1, <1>4, <2>1, Posted
  <2>3. statuses'[i].kind \in Kind /\ statuses'[i].version = 1
    BY <2>2
  <2>4. Push("update", i, 1) /\ i \in DOMAIN statuses' /\ i \notin DOMAIN statuses
        /\ Len(statuses) <= Len(statuses')
    BY <1>1, <1>4, <2>1, <2>2 DEF PostStatus
  <2>5. \A j \in DOMAIN statuses : /\ statuses[j].version <= statuses'[j].version
                                   /\ statuses[j].deleted => statuses'[j].deleted
    BY <1>3, <2>2
  <2>6. 1 \in Nat /\ "update" \in {"update", "status.update", "delete"}
        /\ 1 <= statuses'[i].version /\ "update" # "delete" /\ 1 # 0
    BY <2>3
  <2> QED BY <1>1, <1>2, <2>2, <2>3, <2>4, <2>5, <2>6, PushKeepsVersions
<1>5. ASSUME NEW i \in DOMAIN statuses, EditStatus(i) \/ DeleteStatus(i) PROVE VersionInv'
  <2>1. /\ statuses' \in Seq(Status) /\ Len(statuses') = Len(statuses)
        /\ \A j \in DOMAIN statuses : j # i => statuses'[j] = statuses[j]
        /\ statuses'[i].kind = statuses[i].kind /\ statuses[i].deleted = FALSE
        /\ EditStatus(i) => /\ statuses'[i].version = statuses[i].version + 1
                            /\ statuses'[i].deleted = statuses[i].deleted
        /\ DeleteStatus(i) => /\ statuses'[i].version = statuses[i].version
                              /\ statuses'[i].deleted = TRUE
    BY <1>1, <1>5, Edited, Zenon
  <2>2. i \in Nat /\ i \in DOMAIN statuses' /\ Len(statuses) <= Len(statuses')
        /\ statuses[i] \in Status
    BY <1>1, <2>1
  <2>3. statuses'[i].kind \in Kind
    BY <2>1, <2>2 DEF Status
  <2>4. \A j \in DOMAIN statuses : /\ statuses[j].version <= statuses'[j].version
                                   /\ statuses[j].deleted => statuses'[j].deleted
    <3> SUFFICES ASSUME NEW j \in DOMAIN statuses
                 PROVE  /\ statuses[j].version <= statuses'[j].version
                        /\ statuses[j].deleted => statuses'[j].deleted
      OBVIOUS
    <3>1. CASE j # i
      BY <1>3, <2>1, <3>1
    <3>2. CASE j = i
      <4>1. statuses[i].version \in Nat
        BY <1>3
      <4> QED BY <1>5, <2>1, <3>2, <4>1
    <3> QED BY <3>1, <3>2
  <2>5. CASE EditStatus(i)
    <3>1. PICK v \in Nat : v = statuses[i].version + 1
      BY <1>3
    <3>2. /\ v = statuses'[i].version /\ v # 0 /\ v <= statuses'[i].version
          /\ statuses[i].version <= v
      BY <1>3, <2>1, <2>5, <3>1
    <3>3. Push("status.update", i, v)
      BY <2>5, <3>2 DEF EditStatus
    <3>4. /\ "status.update" \in {"update", "status.update", "delete"}
          /\ "status.update" # "delete" /\ ~statuses[i].deleted
      BY <2>1
    <3> QED BY <1>1, <1>2, <2>1, <2>2, <2>3, <2>4, <3>2, <3>3, <3>4, PushKeepsVersions
  <2>6. CASE DeleteStatus(i)
    <3>1. Push("delete", i, 0)
      BY <2>6 DEF DeleteStatus
    <3>2. /\ "delete" \in {"update", "status.update", "delete"} /\ 0 \in Nat
          /\ 0 <= statuses'[i].version /\ statuses'[i].deleted
      <4>1. statuses[i].version \in Nat
        BY <1>3
      <4>2. statuses'[i].version = statuses[i].version /\ statuses'[i].deleted = TRUE
        BY <2>1, <2>6
      <4> QED BY <4>1, <4>2
    <3> QED BY <1>1, <1>2, <2>1, <2>2, <2>3, <2>4, <3>1, <3>2, PushKeepsVersions
  <2> QED BY <1>5, <2>5, <2>6
<1> QED BY <1>4, <1>5

-----------------------------------------------------------------------------
(***************************************************************************)
(* The theorems.                                                           *)
(***************************************************************************)

MastodonInv == CoverInv /\ VersionInv

LEMMA MastodonInvInit ==
  Init => MastodonInv
<1> SUFFICES ASSUME Init PROVE MastodonInv
  OBVIOUS
<1>1. /\ statuses = << >> /\ inbox = << >> /\ worker = Idle
      /\ mapping = [i \in Id |-> 0] /\ sent = [i \in Id |-> << >>]
      /\ cursor = [committed |-> Zero, ceiling |-> Zero, next |-> Zero, index |-> 0]
  BY DEF Init
<1>2. /\ worker \in Locals /\ worker.page = {} /\ worker.ceiling = 0 /\ worker.pc = "idle"
  BY <1>1 DEF Idle, Locals, Pc
<1>3. Zero \in [Feed -> Nat] /\ \A f \in Feed : Zero[f] = 0
  BY DEF Zero
<1>4. /\ cursor \in Cursors
      /\ \A f \in Feed : cursor.committed[f] = 0 /\ cursor.ceiling[f] = 0
  BY <1>1, <1>3 DEF Cursors
<1>5. << >> \in Seq(Status) /\ << >> \in Seq(Message) /\ << >> \in Seq(Nat)
      /\ Len(<< >>) = 0 /\ DOMAIN << >> = {}
  OBVIOUS
<1>6. StoreOK
  BY <1>1, <1>5 DEF StoreOK
<1>7. TypeOK
  BY <1>1, <1>2, <1>4, <1>5, <1>6, BackfillAssumption DEF TypeOK
<1>8. Bounds /\ Recorded
  BY <1>1, <1>2, <1>4, <1>5 DEF Bounds, Recorded
<1>9. DOMAIN statuses = {} /\ DOMAIN inbox = {}
  BY <1>1
<1>10. GapRead /\ PageRead /\ Closing /\ CommittedCovers
  BY <1>2, <1>9 DEF GapRead, PageRead, Closing, CommittedCovers
<1>11. Sources
  BY <1>1, <1>2, <1>9 DEF Sources
<1>12. \A i \in Id : mapping[i] = 0 /\ sent[i] = << >> /\ DOMAIN sent[i] = {}
  BY <1>1
<1>13. LastSent /\ VersionsAscend
  BY <1>12 DEF LastSent, VersionsAscend
<1> QED BY <1>7, <1>8, <1>10, <1>11, <1>13 DEF MastodonInv, CoverInv, VersionInv

LEMMA MastodonInvNext ==
  MastodonInv /\ [Next]_vars => MastodonInv'
<1> SUFFICES ASSUME CoverInv, VersionInv, [Next]_vars PROVE CoverInv' /\ VersionInv'
  BY DEF MastodonInv
<1>1. CASE \/ \E kind \in Kind : PostStatus(kind)
           \/ \E i \in DOMAIN statuses : EditStatus(i) \/ DeleteStatus(i)
  BY <1>1, InstanceKeepsCover, InstanceKeepsVersions
<1>2. CASE BeginBackfill \/ BackfillFails \/ Subscribe \/ Disconnect
  BY <1>2, ConnectKeepsCover, RestKeepsVersions
<1>3. CASE ReadPage
  BY <1>3, ReadPageKeepsCover, ReadPageKeepsVersions
<1>4. CASE HandlePage
  BY <1>4, HandlePageKeepsCover, HandlePageKeepsVersions
<1>5. CASE PageDone
  BY <1>5, PageDoneKeepsCover, RestKeepsVersions
<1>6. CASE SaveCommitted \/ ClearCeiling \/ ClearNext
  BY <1>6, CloseKeepsCover, RestKeepsVersions
<1>7. CASE SaveIndex
  BY <1>7, SaveIndexKeepsCover, RestKeepsVersions
<1>8. CASE HandleEvent
  BY <1>8, HandleEventKeepsVersions
<1>9. CASE UNCHANGED vars
  <2>1. UNCHANGED <<statuses, cursor, mapping, worker, inbox, sent>>
    BY <1>9 DEF vars
  <2>2. CoverInv'
    <3>1. TypeOK' /\ Recorded'
      BY <2>1 DEF CoverInv, TypeOK, StoreOK, Recorded
    <3> QED BY <2>1, <3>1, AsideKeepsCover DEF CoverInv, TypeOK
  <2>3. VersionInv'
    <3>1. Sources' /\ \A i \in Id, v \in Nat : Awaited(i, v)' => Awaited(i, v)
      BY <2>1 DEF VersionInv, Sources, Awaited
    <3> QED BY <2>1, <3>1, LessAwaited
  <2> QED BY <2>2, <2>3
<1> QED BY <1>1, <1>2, <1>3, <1>4, <1>5, <1>6, <1>7, <1>8, <1>9 DEF Next, Recover

LEMMA MastodonInvHolds ==
  Spec => []MastodonInv
<1>1. Spec => Init /\ [][Next]_vars
  BY PTL DEF Spec
<1> QED BY <1>1, MastodonInvInit, MastodonInvNext, PTL

\* However Backfill's budget, its pages, failures between its saves and new
\* statuses interleave, no timeline's committed cursor is ever saved above a
\* status of a target that was not enqueued (recoverFeed).
THEOREM CursorCovers ==
  Spec => []CommittedCovers
<1>1. MastodonInv => CommittedCovers
  BY DEF MastodonInv, CoverInv
<1> QED BY <1>1, MastodonInvHolds, PTL

\* However often a status is read, from whichever timelines and from the
\* stream, its versions are enqueued once each and in order (handleStatus).
THEOREM VersionsInOrder ==
  Spec => []VersionsAscend
<1>1. MastodonInv => VersionsAscend
  BY Zenon DEF MastodonInv, VersionInv
<1> QED BY <1>1, MastodonInvHolds, PTL
=============================================================================
