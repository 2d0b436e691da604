--------------------------- MODULE BlueskyProofs ---------------------------
(***************************************************************************)
(* What the relay shows of Bluesky posts, for any authors, posts, versions *)
(* and outbox limit, and any number of commits, faults and target changes. *)
(*                                                                         *)
(* MirrorInv has two halves.  Mapped relates the mapping of a post to the  *)
(* source: it is that of the last commit once this commit is behind the    *)
(* cursor or behind the stream.  OnRelay relates the mapping to the relay: *)
(* of the versions of a post that are not deleted, the mapped one is       *)
(* published and no other.                                                 *)
(***************************************************************************)
EXTENDS BlueskySync, WellFoundedInduction, TLAPS

Entry == [op : {"create", "update", "delete"}, post : Post,
          version : Version \cup {None}, far : BOOLEAN]
Event == {PostEvent(x[1], x[2]) : x \in Post \X Version}
         \cup {DeletionOf(x[1], x[2]) : x \in Post \X Version}
Syncer == [phase : Phase, page : SUBSET (Post \X Version), next : Nat,
           wanted : SUBSET Author]
Store == [mapping : [Post -> Version \cup {None}],
          operation : [Post -> Version \cup {None}], cursor : Nat,
          targets : SUBSET Author]

TypeOK ==
  /\ log \in Seq(Entry) /\ follows \in SUBSET Author /\ syncer \in Syncer
  /\ live \in SUBSET Author /\ signal \in BOOLEAN /\ store \in Store
  /\ channel \in [Author -> Seq(Event)]

\* The source creates a post once, and a deletion has no contents.
LogOK ==
  /\ \A i \in DOMAIN log : log[i].op = "delete" <=> log[i].version = None
  /\ \A i, j \in DOMAIN log :
       log[i].op = "create" /\ log[j].post = log[i].post => i <= j

\* Nothing is read beyond the end of the log.
ReadOK ==
  /\ store.cursor <= Len(log)
  /\ syncer.phase = "stream" => syncer.next >= 1 /\ syncer.next <= Len(log) + 1

\* The authors of Core are targets wherever targets are kept.
CoreOK ==
  /\ Core \subseteq follows /\ Core \subseteq store.targets
  /\ syncer.phase # "waiting" => Core \subseteq live
  /\ syncer.phase = "stream" => Core \subseteq syncer.wanted

IsLast(p, i) == i \in Commits(p) /\ \A j \in Commits(p) : j <= i

\* A commit that a new connection does not need.
Settled(i) ==
  \/ i <= store.cursor
  \/ syncer.phase = "stream" /\ i < syncer.next

Committed(p, v) == \E i \in Commits(p) : log[i].version = v

\* The posts of the page in hand.
PageOK ==
  syncer.phase = "backfill" =>
    \A p \in Post, v \in Version : <<p, v>> \in syncer.page =>
      /\ Committed(p, v)
      /\ \A i \in DOMAIN log : IsLast(p, i) /\ i <= store.cursor => log[i].version = v

Mapped ==
  \A p \in Post :
    /\ store.mapping[p] # None => Committed(p, store.mapping[p])
    /\ store.operation[p] # None => store.mapping[p] = store.operation[p]
    /\ AuthorOf[p] \in Core =>
         \A i \in DOMAIN log : IsLast(p, i) /\ Settled(i) =>
           /\ store.mapping[p] \in {None, log[i].version}
           /\ log[i].op = "create" => store.mapping[p] # None

\* An event is on its way to the relay.
Among(e, s) == \E n \in 1..Len(s) : s[n] = e
Sent(c, e) == \E a \in Author : Among(e, c[a])

Tombstoned(r, p, v) == <<AuthorOf[p], <<p, v>>>> \in r.tombstones
Deleted(c, r, p, v) == Sent(c, DeletionOf(p, v)) \/ Tombstoned(r, p, v)
Published(c, r, p, v) == Sent(c, PostEvent(p, v)) \/ PostEvent(p, v) \in r.events

OnRelay ==
  \A p \in Post, v \in Version :
    /\ ~ Deleted(channel, relay, p, v) =>
         (Published(channel, relay, p, v) <=> store.mapping[p] = v)
    /\ Tombstoned(relay, p, v) => PostEvent(p, v) \notin relay.events
    /\ Deleted(channel, relay, p, v) => \E i \in Commits(p) : log[i].op # "create"

MirrorInv ==
  TypeOK /\ LogOK /\ ReadOK /\ CoreOK /\ PageOK /\ Mapped /\ OnRelay

-----------------------------------------------------------------------------
(***************************************************************************)
(* The log.                                                                *)
(***************************************************************************)

LEMMA Least ==
  ASSUME NEW S \in SUBSET Nat, S # {}
  PROVE  \E m \in S : \A i \in S : m <= i
<1> DEFINE R == OpToRel(<, Nat)
<1>1. IsWellFoundedOn(R, Nat)
  BY NatLessThanWellFounded, Zenon
<1>2. \A x, y \in Nat : x < y => <<x, y>> \in R
  BY Zenon DEF OpToRel
<1> HIDE DEF R
<1>3. PICK x \in S : \A y \in S : ~ (<<y, x>> \in R)
  BY <1>1, WFMin, Zenon
<1>4. \A i \in S : i \in Nat /\ x \in Nat /\ ~(i < x)
  BY <1>2, <1>3, Zenon
<1>5. \A i \in S : x <= i
  BY <1>4
<1> QED BY <1>3, <1>5, Zenon

LEMMA Greatest ==
  ASSUME NEW n \in Nat, NEW S \in SUBSET (1..n), S # {}
  PROVE  \E m \in S : \A i \in S : i <= m
<1> DEFINE T == {k \in Nat : \E i \in S : k = n - i}
<1>1. PICK i \in S : TRUE
  BY Zenon
<1>2. n - i \in T
  OBVIOUS
<1>3. T # {} /\ T \in SUBSET Nat
  BY <1>2, Zenon
<1>4. PICK m \in T : \A k \in T : m <= k
  BY <1>3, Least, Zenon
<1>5. PICK j \in S : m = n - j
  BY Zenon
<1>6. \A k \in S : n - k \in T
  OBVIOUS
<1>7. \A k \in S : k <= j
  BY <1>4, <1>5, <1>6
<1> QED BY <1>7, Zenon

\* A subscription starts at the commit after the cursor at the latest, and at
\* the one of the cursor itself unless there is none.
LEMMA RewoundBounds ==
  ASSUME NEW c \in Nat
  PROVE  Rewound(c) \in Nat /\ Rewound(c) >= 1 /\ (Rewound(c) = 1 \/ Rewound(c) <= c)
<1> DEFINE close == {i \in 1..c : \A j \in (i + 1)..c : ~log[j].far}
<1>1. CASE close = {}
  BY <1>1 DEF Rewound
<1>2. CASE close # {}
  <2>1. close \in SUBSET Nat
    OBVIOUS
  <2>2. \E m \in close : \A i \in close : m <= i
    BY <1>2, <2>1, Least, Zenon
  <2>3. Rewound(c) \in close
    BY <1>2, <2>2, Zenon DEF Rewound
  <2> QED BY <2>3
<1> QED BY <1>1, <1>2, Zenon

LEMMA LogFacts ==
  ASSUME log \in Seq(Entry)
  PROVE  /\ Len(log) \in Nat /\ DOMAIN log = 1..Len(log)
         /\ \A i \in DOMAIN log :
              /\ i \in Nat /\ log[i].post \in Post
              /\ log[i].version \in Version \cup {None}
              /\ log[i].op \in {"create", "update", "delete"}
<1>1. Len(log) \in Nat /\ DOMAIN log = 1..Len(log) /\ \A i \in DOMAIN log : i \in Nat /\ log[i] \in Entry
  OBVIOUS
<1>2. \A x \in Entry : /\ x.post \in Post /\ x.version \in Version \cup {None}
                      /\ x.op \in {"create", "update", "delete"}
  BY Zenon DEF Entry
<1> QED BY <1>1, <1>2, Zenon

LEMMA CommitsDomain ==
  ASSUME NEW p, NEW i \in Commits(p)
  PROVE  i \in DOMAIN log /\ log[i].post = p
BY Zenon DEF Commits

LEMMA HasLast ==
  ASSUME log \in Seq(Entry), NEW p \in Post, Commits(p) # {}
  PROVE  \E i \in DOMAIN log : IsLast(p, i)
<1>1. Len(log) \in Nat /\ Commits(p) \in SUBSET (1..Len(log))
  BY LogFacts, Zenon DEF Commits
<1>2. PICK m \in Commits(p) : \A i \in Commits(p) : i <= m
  BY <1>1, Greatest, Zenon
<1> QED BY <1>2, CommitsDomain, Zenon DEF IsLast

LEMMA LastUnique ==
  ASSUME log \in Seq(Entry), NEW p \in Post, NEW i, NEW j, IsLast(p, i), IsLast(p, j)
  PROVE  i = j
<1>1. i \in Nat /\ j \in Nat
  BY LogFacts, CommitsDomain, Zenon DEF IsLast
<1>2. i <= j /\ j <= i
  BY Zenon DEF IsLast
<1> QED BY <1>1, <1>2

\* The last commit of a post decides what the source shows of it.
LEMMA LastDecides ==
  ASSUME log \in Seq(Entry), LogOK, NEW p \in Post, NEW i, IsLast(p, i)
  PROVE  Current(p) = log[i].version
<1>1. IsLast(p, LastCommit(p))
  BY Zenon DEF IsLast, LastCommit
<1>2. LastCommit(p) = i
  BY <1>1, LastUnique, Zenon
<1>3. i \in DOMAIN log /\ Commits(p) # {}
  BY CommitsDomain, Zenon DEF IsLast
<1> QED BY <1>2, <1>3, Zenon DEF Current, LogOK

LEMMA CurrentIsLast ==
  ASSUME log \in Seq(Entry), LogOK, NEW p \in Post, Current(p) # None
  PROVE  /\ \E i \in DOMAIN log : IsLast(p, i)
         /\ Committed(p, Current(p)) /\ Current(p) \in Version
<1>1. Commits(p) # {}
  BY Zenon DEF Current
<1>2. PICK i \in DOMAIN log : IsLast(p, i)
  BY <1>1, HasLast, Zenon
<1>3. Current(p) = log[i].version
  BY <1>2, LastDecides, Zenon
<1>4. log[i].version \in Version \cup {None}
  BY LogFacts, Zenon
<1> QED BY <1>2, <1>3, <1>4, Zenon DEF Committed, IsLast

LEMMA SameLog ==
  ASSUME log' = log
  PROVE  /\ LogOK => LogOK'
         /\ \A p : Commits(p)' = Commits(p)
         /\ \A p, i : IsLast(p, i)' <=> IsLast(p, i)
         /\ \A p, v : Committed(p, v)' <=> Committed(p, v)
<1>1. \A p : Commits(p)' = Commits(p)
  BY Zenon DEF Commits
<1> QED BY <1>1, Zenon DEF LogOK, IsLast, Committed

-----------------------------------------------------------------------------
(***************************************************************************)
(* Events, the channel and the relay.                                      *)
(***************************************************************************)

LEMMA EventsDiffer ==
  ASSUME NEW p, NEW v, NEW q, NEW w
  PROVE  /\ PostEvent(p, v) = PostEvent(q, w) => p = q /\ v = w
         /\ DeletionOf(p, v) = DeletionOf(q, w) => p = q /\ v = w
         /\ PostEvent(p, v) # DeletionOf(q, w)
<1>1. /\ PostEvent(p, v).id = <<p, v>> /\ PostEvent(p, v).class = "regular"
      /\ PostEvent(q, w).id = <<q, w>>
      /\ DeletionOf(p, v).targets = {<<p, v>>}
      /\ DeletionOf(q, w).targets = {<<q, w>>} /\ DeletionOf(q, w).class = "deletion"
  BY Zenon DEF PostEvent, DeletionOf
<1>2. <<p, v>> = <<q, w>> => p = q /\ v = w
  BY Zenon
<1>3. "regular" # "deletion"
  BY Zenon
<1>4. {<<p, v>>} = {<<q, w>>} => <<p, v>> = <<q, w>>
  BY Zenon
<1> QED BY <1>1, <1>2, <1>3, <1>4, Zenon

LEMMA AmongJoined ==
  ASSUME NEW S, NEW s \in Seq(S), NEW t \in Seq(S), NEW e
  PROVE  Among(e, s \o t) <=> Among(e, s) \/ Among(e, t)
<1>1. \A n \in 1..Len(s) : n \in 1..Len(s \o t) /\ (s \o t)[n] = s[n]
  OBVIOUS
<1>2. \A n \in 1..Len(t) : Len(s) + n \in 1..Len(s \o t) /\ (s \o t)[Len(s) + n] = t[n]
  OBVIOUS
<1>3. \A n \in 1..Len(s \o t) :
        \/ n \in 1..Len(s) /\ (s \o t)[n] = s[n]
        \/ n - Len(s) \in 1..Len(t) /\ (s \o t)[n] = t[n - Len(s)]
  OBVIOUS
<1>4. Among(e, s) => Among(e, s \o t)
  BY <1>1, Zenon DEF Among
<1>5. Among(e, t) => Among(e, s \o t)
  BY <1>2, Zenon DEF Among
<1>6. Among(e, s \o t) => Among(e, s) \/ Among(e, t)
  BY <1>3, Zenon DEF Among
<1> QED BY <1>4, <1>5, <1>6, Zenon

LEMMA AmongTail ==
  ASSUME NEW S, NEW s \in Seq(S), s # << >>, NEW e
  PROVE  Among(e, s) <=> Among(e, Tail(s)) \/ e = Head(s)
<1>1. \A n \in 1..Len(Tail(s)) : n + 1 \in 1..Len(s) /\ Tail(s)[n] = s[n + 1]
  OBVIOUS
<1>2. \A n \in 1..Len(s) :
        s[n] = Head(s) \/ (n - 1 \in 1..Len(Tail(s)) /\ Tail(s)[n - 1] = s[n])
  OBVIOUS
<1>3. 1 \in 1..Len(s) /\ Head(s) = s[1]
  OBVIOUS
<1>4. Among(e, Tail(s)) => Among(e, s)
  BY <1>1, Zenon DEF Among
<1>5. Among(e, s) => Among(e, Tail(s)) \/ e = Head(s)
  BY <1>2, Zenon DEF Among
<1>6. Among(Head(s), s)
  BY <1>3, Zenon DEF Among
<1> QED BY <1>4, <1>5, <1>6, Zenon

LEMMA SentAdds ==
  ASSUME NEW c \in [Author -> Seq(Event)], NEW a \in Author, NEW es \in Seq(Event),
         NEW d, d[a] = c[a] \o es, \A b \in Author : b # a => d[b] = c[b], NEW e
  PROVE  Sent(d, e) <=> Sent(c, e) \/ Among(e, es)
<1>1. c[a] \in Seq(Event)
  BY Zenon
<1>2. Among(e, d[a]) <=> Among(e, c[a]) \/ Among(e, es)
  <2>1. Among(e, c[a] \o es) <=> Among(e, c[a]) \/ Among(e, es)
    BY <1>1, AmongJoined, Zenon
  <2> QED BY <2>1, Zenon
<1>3. ASSUME NEW b \in Author, Among(e, d[b]) PROVE Sent(c, e) \/ Among(e, es)
  BY <1>2, <1>3, Zenon DEF Sent
<1>4. ASSUME NEW b \in Author, Among(e, c[b]) PROVE Sent(d, e)
  BY <1>2, <1>4, Zenon DEF Sent
<1>5. Among(e, es) => Sent(d, e)
  BY <1>2, Zenon DEF Sent
<1> QED BY <1>3, <1>4, <1>5, Zenon DEF Sent

LEMMA SentShrinks ==
  ASSUME NEW c \in [Author -> Seq(Event)], NEW a \in Author, c[a] # << >>,
         NEW d, d = [c EXCEPT ![a] = Tail(@)]
  PROVE  /\ d \in [Author -> Seq(Event)]
         /\ \A e : Sent(c, e) <=> Sent(d, e) \/ e = Head(c[a])
<1>1. c[a] \in Seq(Event)
  BY Zenon
<1>2. Tail(c[a]) \in Seq(Event)
  BY <1>1
<1>3. /\ d \in [Author -> Seq(Event)] /\ d[a] = Tail(c[a])
      /\ \A b \in Author : b # a => d[b] = c[b]
  BY <1>2, Zenon
<1>4. \A e : Among(e, c[a]) <=> Among(e, d[a]) \/ e = Head(c[a])
  BY <1>1, <1>3, AmongTail, Zenon
<1>5. ASSUME NEW e PROVE Sent(c, e) <=> Sent(d, e) \/ e = Head(c[a])
  <2>1. ASSUME NEW b \in Author, Among(e, c[b]) PROVE Sent(d, e) \/ e = Head(c[a])
    BY <1>3, <1>4, <2>1, Zenon DEF Sent
  <2>2. ASSUME NEW b \in Author, Among(e, d[b]) PROVE Sent(c, e)
    BY <1>3, <1>4, <2>2, Zenon DEF Sent
  <2>3. Sent(c, Head(c[a]))
    BY <1>4, Zenon DEF Sent
  <2> QED BY <2>1, <2>2, <2>3, Zenon DEF Sent
<1> QED BY <1>3, <1>5, Zenon

LEMMA EventTypes ==
  ASSUME NEW p \in Post, NEW v \in Version
  PROVE  PostEvent(p, v) \in Event /\ DeletionOf(p, v) \in Event /\ AuthorOf[p] \in Author
<1>1. <<p, v>> \in Post \X Version /\ <<p, v>>[1] = p /\ <<p, v>>[2] = v
  BY Zenon
<1> QED BY <1>1, SourceAssumption, Zenon DEF Event

LEMMA DeliveredPost ==
  ASSUME NEW E, NEW T, NEW p \in Post, NEW v \in Version,
         NEW e, e = PostEvent(p, v)
  PROVE  /\ DeleteOwnedEvents(Saved(E, T, e), e) =
              IF <<AuthorOf[p], <<p, v>>>> \in T THEN E ELSE E \cup {e}
         /\ InsertDeletionTombstones(T, e) = T
<1>1. /\ e.id = <<p, v>> /\ e.pubkey = AuthorOf[p] /\ e.class = "regular"
  BY Zenon DEF PostEvent
<1>2. TargetsOf(e) = {} /\ ~ Replaces(e)
  BY <1>1, Zenon DEF TargetsOf, Replaces
<1>3. Saved(E, T, e) = IF <<AuthorOf[p], <<p, v>>>> \in T THEN E ELSE E \cup {e}
  BY <1>1, <1>2, Zenon DEF Saved, EventTombstoned, InsertEvent
<1>4. \A S : DeleteOwnedEvents(S, e) = S
  BY <1>2, Zenon DEF DeleteOwnedEvents
<1>5. InsertDeletionTombstones(T, e) = T
  BY <1>2, Zenon DEF InsertDeletionTombstones
<1> QED BY <1>3, <1>4, <1>5, Zenon

LEMMA DeliveredDeletion ==
  ASSUME NEW E, NEW T, NEW p \in Post, NEW v \in Version,
         NEW e, e = DeletionOf(p, v)
  PROVE  /\ \A q \in Post, w \in Version :
              PostEvent(q, w) \in DeleteOwnedEvents(Saved(E, T, e), e) <=>
                PostEvent(q, w) \in E /\ ~(q = p /\ w = v)
         /\ InsertDeletionTombstones(T, e) = T \cup {<<AuthorOf[p], <<p, v>>>>}
<1>1. /\ e.targets = {<<p, v>>} /\ e.pubkey = AuthorOf[p] /\ e.class = "deletion"
  BY Zenon DEF DeletionOf
<1>2. \A q, w : PostEvent(q, w) # e
  BY EventsDiffer, Zenon
<1>3. TargetsOf(e) = {<<p, v>>} /\ ~ Replaces(e)
  BY <1>1, Zenon DEF TargetsOf, Replaces
<1>4. Saved(E, T, e) = E \/ Saved(E, T, e) = E \cup {e}
  BY <1>3, Zenon DEF Saved, InsertEvent
<1>5. ASSUME NEW q \in Post, NEW w \in Version
      PROVE  PostEvent(q, w) \in DeleteOwnedEvents(Saved(E, T, e), e) <=>
                PostEvent(q, w) \in E /\ ~(q = p /\ w = v)
  <2>1. PostEvent(q, w) \in Saved(E, T, e) <=> PostEvent(q, w) \in E
    BY <1>2, <1>4, Zenon
  <2>2. <<q, w>> = <<p, v>> <=> q = p /\ w = v
    BY Zenon
  <2>3. PostEvent(q, w).id = <<q, w>> /\ PostEvent(q, w).pubkey = AuthorOf[q]
    BY Zenon DEF PostEvent
  <2>4. (PostEvent(q, w).id \in TargetsOf(e) /\ PostEvent(q, w).pubkey = e.pubkey)
          <=> q = p /\ w = v
    BY <1>1, <1>3, <2>2, <2>3, Zenon
  <2> QED BY <2>1, <2>4, Zenon DEF DeleteOwnedEvents
<1>6. InsertDeletionTombstones(T, e) = T \cup {<<AuthorOf[p], <<p, v>>>>}
  BY <1>1, <1>3, Zenon DEF InsertDeletionTombstones
<1> QED BY <1>5, <1>6, Zenon

-----------------------------------------------------------------------------
(***************************************************************************)
(* The source.                                                             *)
(***************************************************************************)

LEMMA CommitGrows ==
  ASSUME log \in Seq(Entry), NEW p \in Post, NEW op \in {"create", "update", "delete"},
         NEW v \in Version \cup {None}, Commit(op, p, v)
  PROVE  LET n == Len(log) + 1 IN
         /\ log' \in Seq(Entry) /\ Len(log') = n /\ n \in DOMAIN log'
         /\ log'[n].post = p /\ log'[n].op = op /\ log'[n].version = v
         /\ \A i \in DOMAIN log' : i = n \/ i \in DOMAIN log
         /\ \A i \in DOMAIN log : i \in DOMAIN log' /\ i < n /\ log'[i] = log[i]
         /\ Commits(p)' = Commits(p) \cup {n}
         /\ \A q : q # p => Commits(q)' = Commits(q)
<1> DEFINE n == Len(log) + 1
<1>1. PICK far \in BOOLEAN :
        log' = Append(log, [op |-> op, post |-> p, version |-> v, far |-> far])
  BY Zenon DEF Commit
<1> DEFINE x == [op |-> op, post |-> p, version |-> v, far |-> far]
<1>2. x \in Entry /\ x.post = p /\ x.op = op /\ x.version = v
  BY Zenon DEF Entry
<1> HIDE DEF x
<1>3. log' = Append(log, x)
  BY <1>1, Zenon DEF x
<1>4. /\ log' \in Seq(Entry) /\ Len(log') = n /\ n \in DOMAIN log' /\ log'[n] = x
      /\ \A i \in DOMAIN log' : i = n \/ i \in DOMAIN log
      /\ \A i \in DOMAIN log : i \in DOMAIN log' /\ i < n /\ log'[i] = log[i]
  BY <1>2, <1>3
<1>5. Commits(p)' = Commits(p) \cup {n}
  BY <1>2, <1>4, Zenon DEF Commits
<1>6. \A q : q # p => Commits(q)' = Commits(q)
  BY <1>2, <1>4, Zenon DEF Commits
<1> QED BY <1>2, <1>4, <1>5, <1>6, Zenon

LEMMA CommitStep ==
  ASSUME MirrorInv, NEW p \in Post, NEW op \in {"create", "update", "delete"},
         NEW v \in Version \cup {None}, op = "delete" <=> v = None,
         op = "create" => Commits(p) = {}, Commit(op, p, v)
  PROVE  MirrorInv'
<1> DEFINE n == Len(log) + 1
<1>1. log \in Seq(Entry)
  BY Zenon DEF MirrorInv, TypeOK
<1>2. /\ log' \in Seq(Entry) /\ Len(log') = n /\ n \in DOMAIN log'
      /\ log'[n].post = p /\ log'[n].op = op /\ log'[n].version = v
      /\ \A i \in DOMAIN log' : i = n \/ i \in DOMAIN log
      /\ \A i \in DOMAIN log : i \in DOMAIN log' /\ i < n /\ log'[i] = log[i]
      /\ Commits(p)' = Commits(p) \cup {n}
      /\ \A q : q # p => Commits(q)' = Commits(q)
  BY <1>1, CommitGrows, Zenon
<1>3. UNCHANGED <<follows, syncer, live, signal, store, channel, relay>>
  BY Zenon DEF Commit
<1>4. Len(log) \in Nat /\ n \in Nat /\ ~(n <= Len(log)) /\ Len(log) <= n /\ n <= n
  BY <1>1
<1>5. \A i \in DOMAIN log : i \in Nat /\ i <= n /\ ~(n <= i)
  BY <1>1, LogFacts
<1>6. TypeOK'
  BY <1>2, <1>3, Zenon DEF MirrorInv, TypeOK
<1>7. LogOK'
  <2>1. \A i \in DOMAIN log' : log'[i].op = "delete" <=> log'[i].version = None
    BY <1>2, Zenon DEF MirrorInv, LogOK
  <2>2. ASSUME NEW i \in DOMAIN log', NEW j \in DOMAIN log',
               log'[i].op = "create", log'[j].post = log'[i].post
        PROVE  i <= j
    <3>1. CASE i = n
      <4>1. j \notin DOMAIN log
        BY <1>2, <2>2, <3>1, Zenon DEF Commits
      <4> QED BY <1>2, <1>4, <3>1, <4>1, Zenon
    <3>2. CASE i \in DOMAIN log
      BY <1>2, <1>5, <2>2, <3>2, Zenon DEF MirrorInv, LogOK
    <3> QED BY <1>2, <3>1, <3>2, Zenon
  <2> QED BY <2>1, <2>2, Zenon DEF LogOK
<1>8. ReadOK' /\ CoreOK'
  <2>1. store.cursor \in Nat /\ syncer.next \in Nat
    BY Zenon DEF MirrorInv, TypeOK, Store, Syncer
  <2>2. ReadOK'
    BY <1>2, <1>3, <1>4, <2>1 DEF MirrorInv, ReadOK
  <2> QED BY <1>3, <2>2, Zenon DEF MirrorInv, CoreOK
<1>9. \A q \in Post : \A w : Committed(q, w) => \E i \in Commits(q)' : log'[i].version = w
  <2> SUFFICES ASSUME NEW q \in Post, NEW w, Committed(q, w)
               PROVE  \E i \in Commits(q)' : log'[i].version = w
    BY Zenon
  <2>1. PICK i \in Commits(q) : log[i].version = w
    BY Zenon DEF Committed
  <2>2. i \in Commits(q)' /\ log'[i] = log[i]
    BY <1>2, CommitsDomain, Zenon
  <2> QED BY <2>1, <2>2, Zenon
<1>10. \A q \in Post : \A i \in DOMAIN log' :
         IsLast(q, i)' => (i = n /\ q = p) \/ (q # p /\ i \in DOMAIN log /\ IsLast(q, i))
  <2> SUFFICES ASSUME NEW q \in Post, NEW i \in DOMAIN log', IsLast(q, i)'
               PROVE  (i = n /\ q = p) \/ (q # p /\ i \in DOMAIN log /\ IsLast(q, i))
    BY Zenon
  <2>1. CASE q = p
    BY <1>2, <1>5, <2>1, Zenon DEF IsLast
  <2>2. CASE q # p
    BY <1>2, <2>2, CommitsDomain, Zenon DEF IsLast
  <2> QED BY <2>1, <2>2, Zenon
<1>11. ~(n <= store.cursor) /\ (syncer.phase = "stream" => ~(n < syncer.next))
  <2>1. store.cursor \in Nat /\ syncer.next \in Nat
    BY DEF MirrorInv, TypeOK, Store, Syncer
  <2> QED BY <1>4, <2>1 DEF MirrorInv, ReadOK
<1>12. PageOK'
  <2> SUFFICES ASSUME syncer.phase = "backfill", NEW q \in Post, NEW w \in Version,
                      <<q, w>> \in syncer.page
               PROVE  /\ Committed(q, w)'
                      /\ \A i \in DOMAIN log' :
                           IsLast(q, i)' /\ i <= store.cursor => log'[i].version = w
    BY <1>3, Zenon DEF PageOK
  <2>1. /\ Committed(q, w)
        /\ \A i \in DOMAIN log : IsLast(q, i) /\ i <= store.cursor => log[i].version = w
    BY Zenon DEF MirrorInv, PageOK
  <2>2. Committed(q, w)'
    BY <1>9, <2>1, Zenon DEF Committed
  <2> QED BY <1>2, <1>10, <1>11, <2>1, <2>2, Zenon
<1>13. \A i : Settled(i)' <=> Settled(i)
  BY <1>3, Zenon DEF Settled
<1>14. ~Settled(n)
  BY <1>11, Zenon DEF Settled
<1>15. Mapped'
  <2> SUFFICES ASSUME NEW q \in Post
               PROVE  /\ store.mapping[q] # None => Committed(q, store.mapping[q])'
                      /\ store.operation[q] # None => store.mapping[q] = store.operation[q]
                      /\ AuthorOf[q] \in Core =>
                           \A i \in DOMAIN log' : IsLast(q, i)' /\ Settled(i)' =>
                             /\ store.mapping[q] \in {None, log'[i].version}
                             /\ log'[i].op = "create" => store.mapping[q] # None
    BY <1>3, Zenon DEF Mapped
  <2>1. store.mapping[q] # None => Committed(q, store.mapping[q])
    BY Zenon DEF MirrorInv, Mapped
  <2>2. Committed(q, store.mapping[q])' <=> \E i \in Commits(q)' : log'[i].version = store.mapping[q]
    BY <1>3, Zenon DEF Committed
  <2>3. store.mapping[q] # None => Committed(q, store.mapping[q])'
    BY <1>9, <2>1, <2>2, Zenon
  <2>4. AuthorOf[q] \in Core =>
          \A i \in DOMAIN log : IsLast(q, i) /\ Settled(i) =>
            /\ store.mapping[q] \in {None, log[i].version}
            /\ log[i].op = "create" => store.mapping[q] # None
    BY Zenon DEF MirrorInv, Mapped
  <2>5. store.operation[q] # None => store.mapping[q] = store.operation[q]
    BY Zenon DEF MirrorInv, Mapped
  <2> QED BY <1>2, <1>10, <1>13, <1>14, <2>3, <2>4, <2>5, Zenon
<1>16. OnRelay'
  <2>1. ASSUME NEW q \in Post, \E i \in Commits(q) : log[i].op # "create"
        PROVE  (\E i \in Commits(q) : log[i].op # "create")'
    <3>1. PICK i \in Commits(q) : log[i].op # "create"
      BY <2>1, Zenon
    <3>2. i \in Commits(q)' /\ log'[i] = log[i]
      BY <1>2, CommitsDomain, Zenon
    <3> QED BY <3>1, <3>2, Zenon
  <2> QED BY <1>3, <2>1, Zenon DEF MirrorInv, OnRelay
<1> QED BY <1>6, <1>7, <1>8, <1>12, <1>15, <1>16, Zenon DEF MirrorInv

LEMMA SourceStep ==
  ASSUME MirrorInv, NEW p \in Post, CreatePost(p) \/ UpdatePost(p) \/ DeletePost(p)
  PROVE  MirrorInv'
<1>1. "create" # "delete" /\ "update" # "delete" /\ "update" # "create" /\ "delete" # "create"
  BY Zenon
<1>2. CASE CreatePost(p)
  BY <1>1, <1>2, CommitStep, SourceAssumption, Zenon DEF CreatePost
<1>3. CASE UpdatePost(p)
  <2>1. PICK v \in Version : Commit("update", p, v)
    BY <1>3, Zenon DEF UpdatePost
  <2> QED BY <1>1, <2>1, CommitStep, SourceAssumption, Zenon
<1>4. CASE DeletePost(p)
  BY <1>1, <1>4, CommitStep, Zenon DEF DeletePost
<1> QED BY <1>2, <1>3, <1>4, Zenon

\* The steps that change neither what is sent nor what is mapped.
LEMMA RelayKept ==
  ASSUME OnRelay, UNCHANGED <<log, channel, relay>>, store'.mapping = store.mapping
  PROVE  OnRelay'
<1>1. \A p : Commits(p)' = Commits(p)
  BY SameLog, Zenon
<1> QED BY <1>1, Zenon DEF OnRelay

LEMMA MappedKept ==
  ASSUME Mapped, log' = log, store'.mapping = store.mapping,
         store'.operation = store.operation, \A i \in DOMAIN log : Settled(i)' => Settled(i)
  PROVE  Mapped'
<1>1. /\ \A p, i : IsLast(p, i)' <=> IsLast(p, i)
      /\ \A p, v : Committed(p, v)' <=> Committed(p, v)
  BY SameLog, Zenon
<1> QED BY <1>1, Zenon DEF Mapped

LEMMA RetargetStep ==
  ASSUME MirrorInv, NEW F \in SUBSET Author, Retarget(F)
  PROVE  MirrorInv'
<1>1. UNCHANGED <<log, syncer, live, signal, store, channel, relay>> /\ follows' = F
      /\ Core \subseteq F
  BY Zenon DEF Retarget
<1>2. LogOK' /\ Mapped' /\ OnRelay'
  BY <1>1, SameLog, RelayKept, MappedKept, Zenon DEF MirrorInv, Settled
<1>3. PageOK'
  BY <1>1, SameLog, Zenon DEF MirrorInv, PageOK
<1> QED BY <1>1, <1>2, <1>3, Zenon DEF MirrorInv, TypeOK, ReadOK, CoreOK

-----------------------------------------------------------------------------
(***************************************************************************)
(* Connections, reconciliation and faults.                                 *)
(***************************************************************************)

LEMMA PhaseChanges ==
  ASSUME syncer \in Syncer
  PROVE  /\ Waiting \in Syncer /\ Waiting.phase = "waiting"
         /\ [syncer EXCEPT !.phase = "connect"] \in Syncer
         /\ [syncer EXCEPT !.phase = "connect"].phase = "connect"
         /\ "connect" \notin {"waiting", "backfill", "stream"}
         /\ "waiting" \notin {"backfill", "stream"} /\ "backfill" \notin {"waiting", "stream"}
         /\ "stream" \notin {"waiting", "backfill"}
BY Zenon DEF Syncer, Waiting, Phase

\* The syncer waits, or is about to subscribe.
LEMMA IdleStep ==
  ASSUME MirrorInv, UNCHANGED <<log, follows, store, channel, relay>>,
         live' \in SUBSET Author, signal' \in BOOLEAN, syncer' \in Syncer,
         \/ syncer'.phase = "waiting"
         \/ syncer'.phase = "connect" /\ Core \subseteq live'
  PROVE  MirrorInv'
<1>1. syncer'.phase \notin {"backfill", "stream"}
  BY PhaseChanges, Zenon DEF MirrorInv, TypeOK
<1>2. \A i : Settled(i)' => Settled(i)
  BY <1>1, Zenon DEF Settled
<1>3. LogOK' /\ Mapped' /\ OnRelay'
  BY <1>2, SameLog, RelayKept, MappedKept, Zenon DEF MirrorInv
<1>4. PageOK' /\ ReadOK'
  BY <1>1, Zenon DEF MirrorInv, PageOK, ReadOK
<1>5. CoreOK'
  BY <1>1, Zenon DEF MirrorInv, CoreOK
<1> QED BY <1>3, <1>4, <1>5, Zenon DEF MirrorInv, TypeOK

LEMMA InterruptionStep ==
  ASSUME MirrorInv,
         BackfillDone \/ BackfillFails \/ HandleFails \/ TargetUpdate \/ Disconnect \/ Crash
  PROVE  MirrorInv'
<1>1. /\ syncer \in Syncer /\ live \in SUBSET Author /\ signal \in BOOLEAN
      /\ syncer.phase # "waiting" => Core \subseteq live
  BY Zenon DEF MirrorInv, TypeOK, CoreOK
<1>2. UNCHANGED <<log, follows, store, channel, relay>>
  BY Zenon DEF BackfillDone, BackfillFails, HandleFails, TargetUpdate, Disconnect, Crash,
               sourceVars
<1>3. live' \in SUBSET Author /\ signal' \in BOOLEAN
  BY <1>1, Zenon DEF BackfillDone, BackfillFails, HandleFails, TargetUpdate, Disconnect,
                     Crash
<1>4. \/ syncer' = Waiting
      \/ /\ syncer' = [syncer EXCEPT !.phase = "connect"] /\ live' = live
         /\ syncer.phase # "waiting"
  BY <1>1, PhaseChanges, Zenon DEF BackfillDone, BackfillFails, HandleFails, TargetUpdate,
                                   Disconnect, Crash, Refused
<1>5. /\ syncer' \in Syncer
      /\ \/ syncer'.phase = "waiting"
         \/ syncer'.phase = "connect" /\ Core \subseteq live'
  BY <1>1, <1>4, PhaseChanges, Zenon
<1> QED BY <1>2, <1>3, <1>5, IdleStep, Zenon

LEMMA SubscribeStep ==
  ASSUME MirrorInv, Subscribe
  PROVE  MirrorInv'
<1>1. /\ syncer \in Syncer /\ live \in SUBSET Author /\ signal \in BOOLEAN
      /\ syncer.phase = "connect" /\ Core \subseteq live /\ store.cursor \in Nat
  BY PhaseChanges, Zenon DEF MirrorInv, TypeOK, CoreOK, Subscribe, Store
<1>2. UNCHANGED <<log, follows, live, signal, store, channel, relay>>
  BY Zenon DEF Subscribe, sourceVars
<1>3. CASE live = {}
  BY <1>1, <1>2, <1>3, PhaseChanges, IdleStep, Zenon DEF Subscribe
<1>4. CASE live # {}
  <2> DEFINE n == Rewound(store.cursor)
  <2>1. n \in Nat /\ n >= 1 /\ (n = 1 \/ n <= store.cursor)
    BY <1>1, RewoundBounds, Zenon
  <2> HIDE DEF n
  <2>2. syncer' = [syncer EXCEPT !.phase = "stream", !.wanted = live, !.next = n]
    BY <1>4, Zenon DEF Subscribe, n
  <2>3. /\ syncer' \in Syncer /\ syncer'.phase = "stream" /\ syncer'.wanted = live
        /\ syncer'.next = n
    BY <1>1, <2>1, <2>2, Zenon DEF Syncer, Phase
  <2>4. Len(log) \in Nat /\ store.cursor <= Len(log) /\ log \in Seq(Entry)
    BY LogFacts, Zenon DEF MirrorInv, TypeOK, ReadOK
  <2>5. n <= Len(log) + 1
    BY <1>1, <2>1, <2>4
  <2>6. \A i \in DOMAIN log : i \in Nat /\ i >= 1
    BY <2>4
  <2>7. \A i \in DOMAIN log : Settled(i)' => Settled(i)
    <3>1. \A i \in DOMAIN log : i < n => i <= store.cursor
      BY <1>1, <2>1, <2>6
    <3> QED BY <1>2, <2>3, <3>1, Zenon DEF Settled
  <2>8. LogOK' /\ Mapped' /\ OnRelay'
    BY <1>2, <2>7, SameLog, RelayKept, MappedKept, Zenon DEF MirrorInv
  <2>9. ReadOK' /\ CoreOK'
    BY <1>1, <1>2, <2>1, <2>3, <2>5, Zenon DEF MirrorInv, ReadOK, CoreOK
  <2>10. PageOK'
    BY <1>1, <2>3, PhaseChanges, Zenon DEF PageOK
  <2> QED BY <1>2, <2>3, <2>8, <2>9, <2>10, Zenon DEF MirrorInv, TypeOK
<1> QED BY <1>3, <1>4, Zenon

LEMMA TargetsChange ==
  ASSUME store \in Store, NEW T \in SUBSET Author, store' = [store EXCEPT !.targets = T]
  PROVE  /\ store' \in Store /\ store'.mapping = store.mapping
         /\ store'.operation = store.operation /\ store'.cursor = store.cursor
         /\ store'.targets = T
BY Zenon DEF Store

LEMMA StartStep ==
  ASSUME MirrorInv, Start
  PROVE  MirrorInv'
<1>1. syncer \in Syncer /\ store \in Store /\ log \in Seq(Entry) /\ LogOK
  BY Zenon DEF MirrorInv, TypeOK
<1>2. UNCHANGED <<log, follows, channel, relay>> /\ signal' = FALSE
  BY Zenon DEF Start, sourceVars, NewLiveTargets
<1>3. PICK T \in Reconciled : store' = [store EXCEPT !.targets = T] /\ live' = T
  BY Zenon DEF Start, NewLiveTargets
<1>4. T \in SUBSET Author /\ Core \subseteq T
  <2>1. store.targets \in SUBSET Author
    BY <1>1, Zenon DEF Store
  <2> QED BY <2>1, Zenon DEF Reconciled, Actors, MirrorInv, TypeOK, CoreOK
<1>5. /\ store' \in Store /\ store'.mapping = store.mapping
      /\ store'.operation = store.operation /\ store'.cursor = store.cursor
      /\ store'.targets = T
  BY <1>1, <1>3, <1>4, TargetsChange, Zenon
<1>6. PICK page \in Timeline :
        syncer' = [Waiting EXCEPT !.phase = "backfill", !.page = page]
  BY Zenon DEF Start
<1>7. ASSUME NEW x \in page
      PROVE  \E p \in Post : /\ x = <<p, Current(p)>> /\ Current(p) \in Version
                             /\ Current(p) # None
  <2>1. PICK p \in Post : x = <<p, Current(p)>> /\ Current(p) # None
    BY Zenon DEF Timeline
  <2> QED BY <1>1, <2>1, CurrentIsLast, Zenon
<1>8. page \in SUBSET (Post \X Version)
  <2>1. \A x \in page : \E p \in Post, v \in Version : x = <<p, v>>
    BY <1>7, Zenon
  <2> QED BY <2>1
<1>9. syncer' \in Syncer /\ syncer'.phase = "backfill" /\ syncer'.page = page
  BY <1>6, <1>8, Zenon DEF Syncer, Waiting, Phase
<1>10. \A i : Settled(i)' => Settled(i)
  BY <1>1, <1>5, <1>9, PhaseChanges, Zenon DEF Settled
<1>11. LogOK' /\ Mapped' /\ OnRelay'
  BY <1>2, <1>5, <1>10, SameLog, RelayKept, MappedKept, Zenon DEF MirrorInv
<1>12. ReadOK' /\ CoreOK'
  BY <1>1, <1>2, <1>3, <1>4, <1>5, <1>9, PhaseChanges, Zenon DEF MirrorInv, ReadOK, CoreOK
<1>13. PageOK'
  <2> SUFFICES ASSUME NEW p \in Post, NEW v \in Version, <<p, v>> \in page
               PROVE  /\ Committed(p, v)
                      /\ \A i \in DOMAIN log : IsLast(p, i) => log[i].version = v
    BY <1>2, <1>5, <1>9, SameLog, Zenon DEF PageOK
  <2>1. PICK q \in Post : <<p, v>> = <<q, Current(q)>> /\ Current(q) # None
    BY <1>7, Zenon
  <2>2. q = p /\ v = Current(p)
    BY <2>1, Zenon
  <2> QED BY <1>1, <2>1, <2>2, CurrentIsLast, LastDecides, Zenon
<1> QED BY <1>2, <1>3, <1>4, <1>5, <1>9, <1>11, <1>12, <1>13, Zenon DEF MirrorInv, TypeOK

LEMMA ReconcileStep ==
  ASSUME MirrorInv, ReconcilePeriodically
  PROVE  MirrorInv'
<1>1. UNCHANGED <<log, follows, syncer, channel, relay>> /\ live' = follows
      /\ signal' \in BOOLEAN /\ store' = [store EXCEPT !.targets = follows]
  BY Zenon DEF ReconcilePeriodically, sourceVars, SetTargets, Actors
<1>2. store \in Store /\ follows \in SUBSET Author /\ Core \subseteq follows
  BY Zenon DEF MirrorInv, TypeOK, CoreOK
<1>3. /\ store' \in Store /\ store'.mapping = store.mapping
      /\ store'.operation = store.operation /\ store'.cursor = store.cursor
      /\ store'.targets = follows
  BY <1>1, <1>2, TargetsChange, Zenon
<1>4. \A i : Settled(i)' => Settled(i)
  BY <1>1, <1>3, Zenon DEF Settled
<1>5. LogOK' /\ Mapped' /\ OnRelay'
  BY <1>1, <1>3, <1>4, SameLog, RelayKept, MappedKept, Zenon DEF MirrorInv
<1>6. PageOK'
  BY <1>1, <1>3, SameLog, Zenon DEF MirrorInv, PageOK
<1> QED BY <1>1, <1>2, <1>3, <1>5, <1>6, Zenon DEF MirrorInv, TypeOK, ReadOK, CoreOK

-----------------------------------------------------------------------------
(***************************************************************************)
(* Delivery.                                                               *)
(***************************************************************************)

LEMMA Delivery ==
  ASSUME channel \in [Author -> Seq(Event)], NEW a \in Author, NEW done \in BOOLEAN,
         Deliver(a, done)
  PROVE  LET e == Head(channel[a]) IN
         /\ e \in Event /\ Sent(channel, e) /\ channel' \in [Author -> Seq(Event)]
         /\ \A x : Sent(channel', x) => Sent(channel, x)
         /\ \A x : Sent(channel, x) => Sent(channel', x) \/ x = e
         /\ relay'.events = DeleteOwnedEvents(Saved(relay.events, relay.tombstones, e), e)
         /\ relay'.tombstones = InsertDeletionTombstones(relay.tombstones, e)
<1> DEFINE e == Head(channel[a])
<1>1. channel[a] \in Seq(Event) /\ channel[a] # << >>
  BY Zenon DEF Deliver
<1>2. e \in Event
  BY <1>1
<1> DEFINE shorter == [channel EXCEPT ![a] = Tail(@)]
<1>3. /\ shorter \in [Author -> Seq(Event)]
      /\ \A x : Sent(channel, x) <=> Sent(shorter, x) \/ x = e
  BY <1>1, SentShrinks, Zenon
<1> HIDE DEF shorter
<1>4. channel' = shorter \/ channel' = channel
  BY Zenon DEF Deliver, shorter
<1>5. /\ channel' \in [Author -> Seq(Event)]
      /\ \A x : Sent(channel', x) => Sent(channel, x)
      /\ \A x : Sent(channel, x) => Sent(channel', x) \/ x = e
  BY <1>3, <1>4, Zenon
<1>6. /\ relay'.events = DeleteOwnedEvents(Saved(relay.events, relay.tombstones, e), e)
      /\ relay'.tombstones = InsertDeletionTombstones(relay.tombstones, e)
  BY Zenon DEF Deliver
<1> QED BY <1>2, <1>3, <1>5, <1>6, Zenon

\* A delivery moves an event and changes the fate of none.
LEMMA FatesKept ==
  ASSUME MirrorInv, NEW a \in Author, NEW done \in BOOLEAN, Deliver(a, done),
         NEW q \in Post, NEW w \in Version
  PROVE  /\ Deleted(channel', relay', q, w) <=> Deleted(channel, relay, q, w)
         /\ ~ Deleted(channel, relay, q, w) =>
              (Published(channel', relay', q, w) <=> Published(channel, relay, q, w))
         /\ Tombstoned(relay', q, w) => PostEvent(q, w) \notin relay'.events
<1>1. PICK e \in Event :
      /\ Sent(channel, e)
      /\ \A x : Sent(channel', x) => Sent(channel, x)
      /\ \A x : Sent(channel, x) => Sent(channel', x) \/ x = e
      /\ relay'.events = DeleteOwnedEvents(Saved(relay.events, relay.tombstones, e), e)
      /\ relay'.tombstones = InsertDeletionTombstones(relay.tombstones, e)
  BY Delivery, Zenon DEF MirrorInv, TypeOK
<1>2. Tombstoned(relay, q, w) => PostEvent(q, w) \notin relay.events
  BY Zenon DEF MirrorInv, OnRelay
<1>3. CASE \E p \in Post, v \in Version : e = PostEvent(p, v)
  <2>1. PICK p \in Post, v \in Version : e = PostEvent(p, v)
    BY <1>3, Zenon
  <2>2. /\ relay'.events = IF <<AuthorOf[p], <<p, v>>>> \in relay.tombstones
                           THEN relay.events ELSE relay.events \cup {e}
        /\ relay'.tombstones = relay.tombstones
    <3>1. ASSUME NEW E, NEW T
          PROVE  /\ DeleteOwnedEvents(Saved(E, T, e), e) =
                      IF <<AuthorOf[p], <<p, v>>>> \in T THEN E ELSE E \cup {e}
                 /\ InsertDeletionTombstones(T, e) = T
      BY <2>1, DeliveredPost
    <3> QED BY <1>1, <3>1, Zenon
  <2>3. /\ PostEvent(q, w) = e => q = p /\ w = v
        /\ DeletionOf(q, w) # e
    BY <2>1, EventsDiffer, Zenon
  <2>4. Deleted(channel', relay', q, w) <=> Deleted(channel, relay, q, w)
    BY <1>1, <2>2, <2>3, Zenon DEF Deleted, Tombstoned
  <2>5. ASSUME ~ Deleted(channel, relay, q, w)
        PROVE  Published(channel', relay', q, w) <=> Published(channel, relay, q, w)
    <3>1. <<AuthorOf[q], <<q, w>>>> \notin relay.tombstones
      BY <2>5, Zenon DEF Deleted, Tombstoned
    <3>2. PostEvent(q, w) \in relay'.events
            <=> PostEvent(q, w) \in relay.events \/ PostEvent(q, w) = e
      BY <2>2, <2>3, <3>1, Zenon
    <3> QED BY <1>1, <3>2, Zenon DEF Published
  <2>6. Tombstoned(relay', q, w) => PostEvent(q, w) \notin relay'.events
    BY <1>2, <2>2, <2>3, Zenon DEF Tombstoned
  <2> QED BY <2>4, <2>5, <2>6, Zenon
<1>4. CASE \E p \in Post, v \in Version : e = DeletionOf(p, v)
  <2>1. PICK p \in Post, v \in Version : e = DeletionOf(p, v)
    BY <1>4, Zenon
  <2>2. /\ PostEvent(q, w) \in relay'.events <=> PostEvent(q, w) \in relay.events /\ ~(q = p /\ w = v)
        /\ relay'.tombstones = relay.tombstones \cup {<<AuthorOf[p], <<p, v>>>>}
    <3>1. ASSUME NEW E, NEW T
          PROVE  /\ PostEvent(q, w) \in DeleteOwnedEvents(Saved(E, T, e), e) <=>
                      PostEvent(q, w) \in E /\ ~(q = p /\ w = v)
                 /\ InsertDeletionTombstones(T, e) = T \cup {<<AuthorOf[p], <<p, v>>>>}
      BY <2>1, DeliveredDeletion
    <3> QED BY <1>1, <3>1, Zenon
  <2>3. /\ DeletionOf(q, w) = e <=> q = p /\ w = v
        /\ PostEvent(q, w) # e
    BY <2>1, EventsDiffer, Zenon
  <2>4. Tombstoned(relay', q, w) <=> Tombstoned(relay, q, w) \/ (q = p /\ w = v)
    <3>1. <<AuthorOf[q], <<q, w>>>> = <<AuthorOf[p], <<p, v>>>> <=> q = p /\ w = v
      BY Zenon
    <3> QED BY <2>2, <3>1, Zenon DEF Tombstoned
  <2>5. Deleted(channel', relay', q, w) <=> Deleted(channel, relay, q, w)
    BY <1>1, <2>3, <2>4, Zenon DEF Deleted
  <2>6. q = p /\ w = v => Deleted(channel, relay, q, w)
    BY <1>1, <2>3, Zenon DEF Deleted
  <2>7. ~ Deleted(channel, relay, q, w) =>
          (Published(channel', relay', q, w) <=> Published(channel, relay, q, w))
    BY <1>1, <2>2, <2>3, <2>6, Zenon DEF Published
  <2> QED BY <1>2, <2>2, <2>4, <2>5, <2>7, Zenon
<1>5. ASSUME NEW x \in Post \X Version PROVE x[1] \in Post /\ x[2] \in Version
  BY Zenon
<1> QED BY <1>1, <1>3, <1>4, <1>5, Zenon DEF Event

LEMMA DeliverStep ==
  ASSUME MirrorInv, NEW a \in Author, NEW done \in BOOLEAN, Deliver(a, done)
  PROVE  MirrorInv'
<1>1. UNCHANGED <<log, follows, syncer, live, signal, store>>
  BY Zenon DEF Deliver, sourceVars
<1>2. channel' \in [Author -> Seq(Event)]
  BY Delivery, Zenon DEF MirrorInv, TypeOK
<1>3. LogOK' /\ Mapped'
  BY <1>1, SameLog, MappedKept, Zenon DEF MirrorInv, Settled
<1>4. PageOK'
  BY <1>1, SameLog, Zenon DEF MirrorInv, PageOK
<1>5. OnRelay'
  <2>1. \A q \in Post, w \in Version :
          /\ Deleted(channel', relay', q, w) <=> Deleted(channel, relay, q, w)
          /\ ~ Deleted(channel, relay, q, w) =>
               (Published(channel', relay', q, w) <=> Published(channel, relay, q, w))
          /\ Tombstoned(relay', q, w) => PostEvent(q, w) \notin relay'.events
    BY FatesKept, Zenon
  <2>2. \A q : Commits(q)' = Commits(q)
    BY <1>1, SameLog, Zenon
  <2> QED BY <1>1, <2>1, <2>2, Zenon DEF MirrorInv, OnRelay
<1> QED BY <1>1, <1>2, <1>3, <1>4, <1>5, Zenon DEF MirrorInv, TypeOK, ReadOK, CoreOK

-----------------------------------------------------------------------------
(***************************************************************************)
(* Enqueue transactions.                                                   *)
(***************************************************************************)

LEMMA SendEffect ==
  ASSUME channel \in [Author -> Seq(Event)], NEW p \in Post, NEW es \in Seq(Event),
         Send(p, es)
  PROVE  /\ channel' \in [Author -> Seq(Event)]
         /\ \A x : Sent(channel', x) <=> Sent(channel, x) \/ Among(x, es)
<1>1. PICK a \in Author : a = AuthorOf[p]
  BY SourceAssumption, Zenon
<1>2. channel[a] \in Seq(Event)
  BY Zenon
<1>3. channel[a] \o es \in Seq(Event)
  BY <1>2
<1>4. /\ channel' \in [Author -> Seq(Event)] /\ channel'[a] = channel[a] \o es
      /\ \A b \in Author : b # a => channel'[b] = channel[b]
  BY <1>1, <1>3, Zenon DEF Send
<1>5. \A x : Sent(channel', x) <=> Sent(channel, x) \/ Among(x, es)
  BY <1>4, SentAdds, Zenon
<1> QED BY <1>4, <1>5, Zenon

LEMMA AmongListed ==
  ASSUME NEW e \in Event, NEW f \in Event
  PROVE  /\ <<e>> \in Seq(Event) /\ <<e, f>> \in Seq(Event)
         /\ \A x : Among(x, <<e>>) <=> x = e
         /\ \A x : Among(x, <<e, f>>) <=> x = e \/ x = f
<1>1. <<e>> \in Seq(Event) /\ <<e, f>> \in Seq(Event)
  OBVIOUS
<1>2. \A x : Among(x, <<e>>) <=> x = e
  BY DEF Among
<1>3. \A x : Among(x, <<e, f>>) <=> x = e \/ x = f
  BY DEF Among
<1> QED BY <1>1, <1>2, <1>3, Zenon

\* What an enqueue transaction does to the versions of posts: those in D are
\* deleted, and v is published unless it is None.
Moves(p, D, v) ==
  \A q \in Post, w \in Version :
    /\ Deleted(channel', relay', q, w)
         <=> Deleted(channel, relay, q, w) \/ (q = p /\ w \in D)
    /\ Published(channel', relay', q, w)
         <=> Published(channel, relay, q, w) \/ (q = p /\ w = v)

LEMMA SendPost ==
  ASSUME channel \in [Author -> Seq(Event)], relay' = relay,
         NEW p \in Post, NEW v \in Version, Send(p, <<PostEvent(p, v)>>)
  PROVE  channel' \in [Author -> Seq(Event)] /\ Moves(p, {}, v)
<1>1. /\ channel' \in [Author -> Seq(Event)]
      /\ \A x : Sent(channel', x) <=> Sent(channel, x) \/ x = PostEvent(p, v)
  BY EventTypes, AmongListed, SendEffect, Zenon
<1>2. \A q \in Post, w \in Version :
        /\ PostEvent(q, w) = PostEvent(p, v) <=> q = p /\ w = v
        /\ DeletionOf(q, w) # PostEvent(p, v)
  BY EventsDiffer, Zenon
<1>3. Moves(p, {}, v)
  BY <1>1, <1>2, Zenon DEF Moves, Deleted, Published, Tombstoned
<1> QED BY <1>1, <1>3, Zenon

LEMMA SendReplacement ==
  ASSUME channel \in [Author -> Seq(Event)], relay' = relay,
         NEW p \in Post, NEW m \in Version, NEW v \in Version,
         Send(p, <<DeletionOf(p, m), PostEvent(p, v)>>)
  PROVE  channel' \in [Author -> Seq(Event)] /\ Moves(p, {m}, v)
<1>1. /\ channel' \in [Author -> Seq(Event)]
      /\ \A x : Sent(channel', x) <=>
                  Sent(channel, x) \/ x = DeletionOf(p, m) \/ x = PostEvent(p, v)
  <2> DEFINE es == <<DeletionOf(p, m), PostEvent(p, v)>>
  <2>1. DeletionOf(p, m) \in Event /\ PostEvent(p, v) \in Event
    BY EventTypes, Zenon
  <2>2. /\ es \in Seq(Event)
        /\ \A x : Among(x, es) <=> x = DeletionOf(p, m) \/ x = PostEvent(p, v)
    BY <2>1, AmongListed, Zenon
  <2> HIDE DEF es
  <2>3. /\ channel' \in [Author -> Seq(Event)]
        /\ \A x : Sent(channel', x) <=> Sent(channel, x) \/ Among(x, es)
    BY <2>2, SendEffect, Zenon DEF es
  <2> QED BY <2>2, <2>3, Zenon
<1>2. \A q \in Post, w \in Version :
        /\ PostEvent(q, w) = PostEvent(p, v) <=> q = p /\ w = v
        /\ DeletionOf(q, w) = DeletionOf(p, m) <=> q = p /\ w = m
        /\ DeletionOf(q, w) # PostEvent(p, v) /\ PostEvent(q, w) # DeletionOf(p, m)
  BY EventsDiffer, Zenon
<1>3. Moves(p, {m}, v)
  BY <1>1, <1>2, Zenon DEF Moves, Deleted, Published, Tombstoned
<1> QED BY <1>1, <1>3, Zenon

LEMMA SendDeletion ==
  ASSUME channel \in [Author -> Seq(Event)], relay' = relay,
         NEW p \in Post, NEW m \in Version, Send(p, <<DeletionOf(p, m)>>)
  PROVE  channel' \in [Author -> Seq(Event)] /\ Moves(p, {m}, None)
<1>1. /\ channel' \in [Author -> Seq(Event)]
      /\ \A x : Sent(channel', x) <=> Sent(channel, x) \/ x = DeletionOf(p, m)
  BY EventTypes, AmongListed, SendEffect, Zenon
<1>2. \A q \in Post, w \in Version :
        /\ DeletionOf(q, w) = DeletionOf(p, m) <=> q = p /\ w = m
        /\ PostEvent(q, w) # DeletionOf(p, m)
  BY EventsDiffer, Zenon
<1>3. Moves(p, {m}, None)
  BY <1>1, <1>2, SourceAssumption, Zenon DEF Moves, Deleted, Published, Tombstoned
<1> QED BY <1>1, <1>3, Zenon

\* An enqueue that leaves the mapping as OnRelay wants it.  A post with
\* deleted versions has been changed at the source.
LEMMA RelayFollows ==
  ASSUME OnRelay, UNCHANGED <<log, relay>>, store.mapping \in [Post -> Version \cup {None}],
         NEW p \in Post, NEW v \in Version \cup {None}, NEW D \in SUBSET Version,
         store'.mapping = [store.mapping EXCEPT ![p] = v],
         store.mapping[p] \in D \cup {None},
         D # {} => \E i \in Commits(p) : log[i].op # "create",
         Moves(p, D, v)
  PROVE  OnRelay'
<1> SUFFICES ASSUME NEW q \in Post, NEW w \in Version
             PROVE  /\ ~ Deleted(channel', relay', q, w) =>
                         (Published(channel', relay', q, w) <=> store'.mapping[q] = w)
                    /\ Tombstoned(relay', q, w) => PostEvent(q, w) \notin relay'.events
                    /\ Deleted(channel', relay', q, w) =>
                         \E i \in Commits(q)' : log'[i].op # "create"
  BY Zenon DEF OnRelay
<1>1. /\ ~ Deleted(channel, relay, q, w) =>
           (Published(channel, relay, q, w) <=> store.mapping[q] = w)
      /\ Tombstoned(relay, q, w) => PostEvent(q, w) \notin relay.events
      /\ Deleted(channel, relay, q, w) => \E i \in Commits(q) : log[i].op # "create"
  BY Zenon DEF OnRelay
<1>2. /\ Deleted(channel', relay', q, w)
           <=> Deleted(channel, relay, q, w) \/ (q = p /\ w \in D)
      /\ Published(channel', relay', q, w)
           <=> Published(channel, relay, q, w) \/ (q = p /\ w = v)
  BY Zenon DEF Moves
<1>3. Commits(q)' = Commits(q)
  BY SameLog, Zenon
<1>4. store'.mapping[q] = IF q = p THEN v ELSE store.mapping[q]
  BY Zenon
<1>5. w # None
  BY SourceAssumption, Zenon
<1>6. ~ Deleted(channel', relay', q, w) =>
        (Published(channel', relay', q, w) <=> store'.mapping[q] = w)
  <2>1. CASE q = p
    BY <1>1, <1>2, <1>4, <1>5, <2>1, Zenon
  <2>2. CASE q # p
    BY <1>1, <1>2, <1>4, <2>2, Zenon
  <2> QED BY <2>1, <2>2, Zenon
<1>7. Tombstoned(relay', q, w) => PostEvent(q, w) \notin relay'.events
  BY <1>1, Zenon
<1>8. Deleted(channel', relay', q, w) => \E i \in Commits(q)' : log'[i].op # "create"
  BY <1>1, <1>2, <1>3, Zenon
<1> QED BY <1>6, <1>7, <1>8, Zenon


LEMMA StoreTypes ==
  ASSUME store \in Store
  PROVE  /\ store.mapping \in [Post -> Version \cup {None}]
         /\ store.operation \in [Post -> Version \cup {None}] /\ store.cursor \in Nat
BY Zenon DEF Store

\* EnqueueEvent is called for a post without a mapping.
LEMMA EnqueueEventEffect ==
  ASSUME MirrorInv, UNCHANGED <<log, relay>>, NEW p \in Post, NEW v \in Version,
         NEW c \in Nat, store.mapping[p] = None, EnqueueEvent(p, v, c)
  PROVE  /\ store' \in Store /\ store'.mapping = [store.mapping EXCEPT ![p] = v]
         /\ store'.operation = store.operation /\ store'.cursor = c
         /\ store'.targets = store.targets
         /\ channel' \in [Author -> Seq(Event)] /\ OnRelay'
<1>1. store \in Store /\ channel \in [Author -> Seq(Event)] /\ OnRelay
  BY Zenon DEF MirrorInv, TypeOK
<1>2. /\ store' = [store EXCEPT !.mapping[p] = v, !.cursor = c]
      /\ Send(p, <<PostEvent(p, v)>>)
  BY Zenon DEF EnqueueEvent
<1>3. /\ store' \in Store /\ store'.mapping = [store.mapping EXCEPT ![p] = v]
      /\ store'.operation = store.operation /\ store'.cursor = c
      /\ store'.targets = store.targets
  BY <1>1, <1>2, Zenon DEF Store
<1>4. channel' \in [Author -> Seq(Event)] /\ Moves(p, {}, v)
  BY <1>1, <1>2, SendPost, Zenon
<1>5. /\ store.mapping \in [Post -> Version \cup {None}] /\ v \in Version \cup {None}
      /\ {} \in SUBSET Version /\ store.mapping[p] \in {} \cup {None}
  BY <1>1, StoreTypes, Zenon
<1>6. OnRelay'
  BY <1>1, <1>3, <1>4, <1>5, RelayFollows, Zenon
<1> QED BY <1>3, <1>4, <1>6, Zenon

LEMMA EnqueueUpdateEffect ==
  ASSUME MirrorInv, UNCHANGED <<log, relay>>, NEW p \in Post, NEW v \in Version,
         NEW c \in Nat, store.mapping[p] # None, EnqueueUpdate(p, v, c),
         \E i \in Commits(p) : log[i].op # "create"
  PROVE  /\ store' \in Store /\ store'.mapping = [store.mapping EXCEPT ![p] = v]
         /\ store'.operation = [store.operation EXCEPT ![p] = v] /\ store'.cursor = c
         /\ store'.targets = store.targets
         /\ channel' \in [Author -> Seq(Event)] /\ OnRelay'
<1>1. store \in Store /\ channel \in [Author -> Seq(Event)] /\ OnRelay
  BY Zenon DEF MirrorInv, TypeOK
<1>2. /\ store' = [store EXCEPT !.mapping[p] = v, !.operation[p] = v, !.cursor = c]
      /\ Send(p, <<DeletionOf(p, store.mapping[p]), PostEvent(p, v)>>)
  BY Zenon DEF EnqueueUpdate
<1>3. /\ store' \in Store /\ store'.mapping = [store.mapping EXCEPT ![p] = v]
      /\ store'.operation = [store.operation EXCEPT ![p] = v] /\ store'.cursor = c
      /\ store'.targets = store.targets
  BY <1>1, <1>2, Zenon DEF Store
<1>4. PICK m \in Version : m = store.mapping[p]
  BY <1>1, StoreTypes, Zenon
<1>5. channel' \in [Author -> Seq(Event)] /\ Moves(p, {m}, v)
  <2>1. Send(p, <<DeletionOf(p, m), PostEvent(p, v)>>)
    BY <1>2, <1>4, Zenon
  <2> QED BY <1>1, <2>1, SendReplacement, Zenon
<1>6. /\ store.mapping \in [Post -> Version \cup {None}] /\ v \in Version \cup {None}
      /\ {m} \in SUBSET Version /\ store.mapping[p] \in {m} \cup {None}
  BY <1>1, <1>4, StoreTypes, Zenon
<1>7. OnRelay'
  BY <1>1, <1>3, <1>5, <1>6, RelayFollows, Zenon
<1> QED BY <1>3, <1>5, <1>7, Zenon

LEMMA EnqueueDeleteEffect ==
  ASSUME MirrorInv, UNCHANGED <<log, relay>>, NEW p \in Post,
         NEW c \in Nat, store.mapping[p] # None, EnqueueDelete(p, c),
         \E i \in Commits(p) : log[i].op # "create"
  PROVE  /\ store' \in Store /\ store'.mapping = [store.mapping EXCEPT ![p] = None]
         /\ store'.operation = [store.operation EXCEPT ![p] = None] /\ store'.cursor = c
         /\ store'.targets = store.targets
         /\ channel' \in [Author -> Seq(Event)] /\ OnRelay'
<1>1. store \in Store /\ channel \in [Author -> Seq(Event)] /\ OnRelay
  BY Zenon DEF MirrorInv, TypeOK
<1>2. /\ store' = [store EXCEPT !.mapping[p] = None, !.operation[p] = None, !.cursor = c]
      /\ Send(p, <<DeletionOf(p, store.mapping[p])>>)
  BY Zenon DEF EnqueueDelete
<1>3. /\ store' \in Store /\ store'.mapping = [store.mapping EXCEPT ![p] = None]
      /\ store'.operation = [store.operation EXCEPT ![p] = None] /\ store'.cursor = c
      /\ store'.targets = store.targets
  BY <1>1, <1>2, Zenon DEF Store
<1>4. PICK m \in Version : m = store.mapping[p]
  BY <1>1, StoreTypes, Zenon
<1>5. channel' \in [Author -> Seq(Event)] /\ Moves(p, {m}, None)
  <2>1. Send(p, <<DeletionOf(p, m)>>)
    BY <1>2, <1>4, Zenon
  <2> QED BY <1>1, <2>1, SendDeletion, Zenon
<1>6. /\ store.mapping \in [Post -> Version \cup {None}] /\ None \in Version \cup {None}
      /\ {m} \in SUBSET Version /\ store.mapping[p] \in {m} \cup {None}
  BY <1>1, <1>4, StoreTypes, Zenon
<1>7. OnRelay'
  BY <1>1, <1>3, <1>5, <1>6, RelayFollows, Zenon
<1> QED BY <1>3, <1>5, <1>7, Zenon

-----------------------------------------------------------------------------
(***************************************************************************)
(* Backfill and Handle.                                                    *)
(***************************************************************************)

LEMMA BackfillStep ==
  ASSUME MirrorInv, NEW x \in syncer.page, Backfill(x[1], x[2])
  PROVE  MirrorInv'
<1>1. /\ syncer \in Syncer /\ store \in Store /\ syncer.phase = "backfill"
      /\ channel \in [Author -> Seq(Event)]
  BY Zenon DEF MirrorInv, TypeOK, Backfill
<1>2. PICK p \in Post, v \in Version : p = x[1] /\ v = x[2] /\ <<p, v>> \in syncer.page
  <2>1. syncer.page \in SUBSET (Post \X Version)
    BY <1>1, Zenon DEF Syncer
  <2>2. x[1] \in Post /\ x[2] \in Version
    BY <2>1, Zenon
  <2> QED BY <2>2, Zenon DEF Backfill
<1>3. UNCHANGED <<log, follows, live, signal, relay>>
  BY Zenon DEF Backfill, sourceVars
<1>4. /\ syncer' \in Syncer /\ syncer'.phase = "backfill" /\ syncer'.next = syncer.next
      /\ syncer'.wanted = syncer.wanted /\ syncer'.page \subseteq syncer.page
  <2>1. syncer' = [syncer EXCEPT !.page = @ \ {<<p, v>>}]
    BY <1>2, Zenon DEF Backfill
  <2> QED BY <1>1, <2>1, Zenon DEF Syncer
<1>5. \/ store.mapping[p] = None /\ EnqueueEvent(p, v, store.cursor)
      \/ UNCHANGED <<store, channel>>
  BY <1>2, Zenon DEF Backfill
<1>6. /\ Committed(p, v)
      /\ \A i \in DOMAIN log : IsLast(p, i) /\ i <= store.cursor => log[i].version = v
  BY <1>1, <1>2, Zenon DEF MirrorInv, PageOK
<1>7. /\ LogOK' /\ \A q, i : IsLast(q, i)' <=> IsLast(q, i)
      /\ \A q, w : Committed(q, w)' <=> Committed(q, w)
      /\ \A q : Commits(q)' = Commits(q)
  BY <1>3, SameLog, Zenon DEF MirrorInv
<1>8. \A i : Settled(i) <=> i <= store.cursor
  BY <1>1, PhaseChanges, Zenon DEF Settled
<1>9. /\ store' \in Store /\ store'.cursor = store.cursor /\ store'.targets = store.targets
      /\ channel' \in [Author -> Seq(Event)] /\ OnRelay' /\ Mapped'
  <2>1. CASE UNCHANGED <<store, channel>>
    <3>1. \A i : Settled(i)' => Settled(i)
      BY <1>1, <1>4, <2>1, PhaseChanges, Zenon DEF Settled
    <3> QED BY <1>1, <1>3, <2>1, <3>1, RelayKept, MappedKept, Zenon DEF MirrorInv
  <2>2. CASE store.mapping[p] = None /\ EnqueueEvent(p, v, store.cursor)
    <3>1. store.cursor \in Nat /\ store.mapping \in [Post -> Version \cup {None}]
      BY <1>1, StoreTypes, Zenon
    <3>2. /\ store' \in Store /\ store'.mapping = [store.mapping EXCEPT ![p] = v]
          /\ store'.operation = store.operation /\ store'.cursor = store.cursor
          /\ store'.targets = store.targets
          /\ channel' \in [Author -> Seq(Event)] /\ OnRelay'
      BY <1>3, <2>2, <3>1, EnqueueEventEffect, Zenon
    <3>3. \A i : Settled(i)' <=> Settled(i)
      BY <1>1, <1>4, <3>2, PhaseChanges, Zenon DEF Settled
    <3>4. ASSUME NEW q \in Post
          PROVE  /\ store'.mapping[q] # None => Committed(q, store.mapping[q])'
                 /\ store'.operation[q] # None => store'.mapping[q] = store'.operation[q]
                 /\ AuthorOf[q] \in Core =>
                      \A i \in DOMAIN log : IsLast(q, i) /\ Settled(i) =>
                        /\ store'.mapping[q] \in {None, log[i].version}
                        /\ log[i].op = "create" => store'.mapping[q] # None
      <4>1. /\ store.mapping[q] # None => Committed(q, store.mapping[q])
            /\ store.operation[q] # None => store.mapping[q] = store.operation[q]
            /\ AuthorOf[q] \in Core =>
                 \A i \in DOMAIN log : IsLast(q, i) /\ Settled(i) =>
                   /\ store.mapping[q] \in {None, log[i].version}
                   /\ log[i].op = "create" => store.mapping[q] # None
        BY Zenon DEF MirrorInv, Mapped
      <4>2. Committed(q, store.mapping[q])' <=> \E i \in Commits(q) : log[i].version = store'.mapping[q]
        BY <1>3, <1>7, Zenon DEF Committed
      <4>3. CASE q = p
        <5>1. store'.mapping[q] = v /\ v # None
          BY <3>1, <3>2, <4>3, SourceAssumption, Zenon
        <5>2. store'.operation[q] = None
          BY <2>2, <3>2, <4>1, <4>3, Zenon
        <5> QED BY <1>6, <1>8, <4>2, <4>3, <5>1, <5>2, Zenon DEF Committed
      <4>4. CASE q # p
        <5>1. store'.mapping[q] = store.mapping[q]
          BY <3>1, <3>2, <4>4, Zenon
        <5> QED BY <3>2, <4>1, <4>2, <5>1, Zenon DEF Committed
      <4> QED BY <4>3, <4>4, Zenon
    <3>5. Mapped'
      BY <1>3, <1>7, <3>3, <3>4, Zenon DEF Mapped
    <3> QED BY <3>2, <3>5, Zenon
  <2> QED BY <1>5, <2>1, <2>2, Zenon
<1>10. PageOK'
  BY <1>1, <1>3, <1>4, <1>7, <1>9, Zenon DEF MirrorInv, PageOK
<1>11. ReadOK' /\ CoreOK'
  BY <1>1, <1>3, <1>4, <1>9, PhaseChanges, Zenon DEF MirrorInv, ReadOK, CoreOK
<1> QED BY <1>3, <1>4, <1>7, <1>9, <1>10, <1>11, Zenon DEF MirrorInv, TypeOK

\* What the transaction for commit i of post p leaves behind.
Follows(i, p) ==
  /\ store' \in Store /\ store'.cursor = i /\ store'.targets = store.targets
  /\ channel' \in [Author -> Seq(Event)] /\ OnRelay'
  /\ \A q \in Post : q # p => /\ store'.mapping[q] = store.mapping[q]
                              /\ store'.operation[q] = store.operation[q]
  /\ store'.mapping[p] # None => \E j \in Commits(p) : log[j].version = store'.mapping[p]
  /\ store'.operation[p] # None => store'.mapping[p] = store'.operation[p]
  /\ IsLast(p, i) => /\ store'.mapping[p] \in {None, log[i].version}
                     /\ log[i].op = "create" => store'.mapping[p] # None

LEMMA SaveCursorFollows ==
  ASSUME MirrorInv, UNCHANGED <<log, relay>>, NEW i \in Nat, NEW p \in Post, SaveCursor(i),
         IsLast(p, i) => /\ store.mapping[p] \in {None, log[i].version}
                         /\ log[i].op = "create" => store.mapping[p] # None
  PROVE  Follows(i, p)
<1>1. store \in Store /\ channel \in [Author -> Seq(Event)] /\ OnRelay
  BY Zenon DEF MirrorInv, TypeOK
<1>2. store' = [store EXCEPT !.cursor = i] /\ channel' = channel
  BY Zenon DEF SaveCursor
<1>3. /\ store' \in Store /\ store'.mapping = store.mapping
      /\ store'.operation = store.operation /\ store'.cursor = i
      /\ store'.targets = store.targets
  BY <1>1, <1>2, Zenon DEF Store
<1>4. OnRelay'
  BY <1>1, <1>2, <1>3, RelayKept, Zenon
<1>5. /\ store.mapping[p] # None => \E j \in Commits(p) : log[j].version = store.mapping[p]
      /\ store.operation[p] # None => store.mapping[p] = store.operation[p]
  BY Zenon DEF MirrorInv, Mapped, Committed
<1> QED BY <1>1, <1>2, <1>3, <1>4, <1>5, Zenon DEF Follows

\* A created post that is mapped already is mapped to what it was created with,
\* unless it has changed since.
LEMMA CreateFollows ==
  ASSUME MirrorInv, UNCHANGED <<log, relay>>, NEW i \in DOMAIN log,
         NEW p \in Post, p = log[i].post, log[i].op = "create",
         Create(i, p, log[i].version)
  PROVE  Follows(i, p)
<1>1. /\ log \in Seq(Entry) /\ LogOK /\ i \in Nat /\ log[i].version \in Version
      /\ store \in Store /\ i \in Commits(p)
  <2>1. log \in Seq(Entry) /\ LogOK /\ store \in Store
    BY Zenon DEF MirrorInv, TypeOK
  <2>2. log[i].version # None
    BY <2>1, Zenon DEF LogOK
  <2> QED BY <2>1, <2>2, LogFacts, Zenon DEF Commits
<1>2. /\ store.mapping \in [Post -> Version \cup {None}]
      /\ store.operation[p] # None => store.mapping[p] = store.operation[p]
  BY <1>1, StoreTypes, Zenon DEF MirrorInv, Mapped
<1>3. CASE store.mapping[p] # None
  <2>1. PICK j \in Commits(p) : log[j].version = store.mapping[p]
    BY <1>3, Zenon DEF MirrorInv, Mapped, Committed
  <2>2. IsLast(p, i) => j = i
    <3>1. j \in DOMAIN log /\ log[j].post = p
      BY <2>1, CommitsDomain, Zenon
    <3>2. i <= j /\ j \in Nat
      BY <1>1, <3>1, LogFacts, Zenon DEF LogOK
    <3>3. IsLast(p, i) => j <= i
      BY <2>1, Zenon DEF IsLast
    <3> QED BY <1>1, <3>2, <3>3
  <2>3. SaveCursor(i)
    BY <1>3, Zenon DEF Create
  <2> QED BY <1>1, <1>3, <2>1, <2>2, <2>3, SaveCursorFollows, Zenon
<1>4. CASE store.mapping[p] = None
  <2>1. PICK v \in Version : v = log[i].version
    BY <1>1, Zenon
  <2>2. EnqueueEvent(p, v, i)
    BY <1>4, <2>1, Zenon DEF Create
  <2>3. /\ store' \in Store /\ store'.mapping = [store.mapping EXCEPT ![p] = v]
        /\ store'.operation = store.operation /\ store'.cursor = i
        /\ store'.targets = store.targets
        /\ channel' \in [Author -> Seq(Event)] /\ OnRelay'
    BY <1>1, <1>4, <2>2, EnqueueEventEffect, Zenon
  <2>4. /\ store'.mapping[p] = v /\ v # None /\ store'.operation[p] = None
        /\ \A q \in Post : q # p => store'.mapping[q] = store.mapping[q]
    BY <1>2, <1>4, <2>3, SourceAssumption, Zenon
  <2> QED BY <1>1, <2>1, <2>3, <2>4, Zenon DEF Follows
<1> QED BY <1>3, <1>4, Zenon

LEMMA UpdateFollows ==
  ASSUME MirrorInv, UNCHANGED <<log, relay>>, NEW i \in DOMAIN log,
         NEW p \in Post, p = log[i].post, log[i].op = "update",
         Update(i, p, log[i].version)
  PROVE  Follows(i, p)
<1>1. /\ i \in Nat /\ log[i].version \in Version /\ store \in Store /\ i \in Commits(p)
  <2>1. log \in Seq(Entry) /\ LogOK /\ store \in Store
    BY Zenon DEF MirrorInv, TypeOK
  <2>2. log[i].version # None
    BY <2>1, Zenon DEF LogOK
  <2> QED BY <2>1, <2>2, LogFacts, Zenon DEF Commits
<1>2. log[i].op # "create" /\ log[i].version # None
  BY <1>1, SourceAssumption, Zenon
<1>3. /\ store.mapping \in [Post -> Version \cup {None}]
      /\ store.operation \in [Post -> Version \cup {None}]
      /\ store.operation[p] # None => store.mapping[p] = store.operation[p]
  BY <1>1, StoreTypes, Zenon DEF MirrorInv, Mapped
<1>4. CASE store.operation[p] = log[i].version
  <2>1. SaveCursor(i)
    BY <1>4, Zenon DEF Update
  <2>2. store.mapping[p] = log[i].version
    BY <1>2, <1>3, <1>4, Zenon
  <2> QED BY <1>1, <1>2, <2>1, <2>2, SaveCursorFollows, Zenon
<1>5. CASE store.operation[p] # log[i].version
  <2>1. PICK v \in Version : v = log[i].version
    BY <1>1, Zenon
  <2>2. store.mapping[p] # None /\ EnqueueUpdate(p, v, i)
    BY <1>5, <2>1, Zenon DEF Update
  <2>3. /\ store' \in Store /\ store'.mapping = [store.mapping EXCEPT ![p] = v]
        /\ store'.operation = [store.operation EXCEPT ![p] = v] /\ store'.cursor = i
        /\ store'.targets = store.targets
        /\ channel' \in [Author -> Seq(Event)] /\ OnRelay'
    BY <1>1, <1>2, <2>2, EnqueueUpdateEffect, Zenon
  <2>4. /\ store'.mapping[p] = v /\ store'.operation[p] = v
        /\ \A q \in Post : q # p => /\ store'.mapping[q] = store.mapping[q]
                                    /\ store'.operation[q] = store.operation[q]
    BY <1>3, <2>3, Zenon
  <2> QED BY <1>1, <1>2, <2>1, <2>3, <2>4, Zenon DEF Follows
<1> QED BY <1>4, <1>5, Zenon

LEMMA DeleteFollows ==
  ASSUME MirrorInv, UNCHANGED <<log, relay>>, NEW i \in DOMAIN log,
         NEW p \in Post, p = log[i].post, log[i].op = "delete", Delete(i, p)
  PROVE  Follows(i, p)
<1>1. i \in Nat /\ store \in Store /\ i \in Commits(p)
  <2>1. log \in Seq(Entry) /\ store \in Store
    BY Zenon DEF MirrorInv, TypeOK
  <2> QED BY <2>1, LogFacts, Zenon DEF Commits
<1>2. log[i].op # "create"
  BY Zenon
<1>3. /\ store.mapping \in [Post -> Version \cup {None}]
      /\ store.operation \in [Post -> Version \cup {None}]
  BY <1>1, StoreTypes, Zenon
<1>4. CASE store.mapping[p] = None
  <2>1. SaveCursor(i)
    BY <1>4, Zenon DEF Delete
  <2> QED BY <1>1, <1>2, <1>4, <2>1, SaveCursorFollows, Zenon
<1>5. CASE store.mapping[p] # None
  <2>1. EnqueueDelete(p, i)
    BY <1>5, Zenon DEF Delete
  <2>2. /\ store' \in Store /\ store'.mapping = [store.mapping EXCEPT ![p] = None]
        /\ store'.operation = [store.operation EXCEPT ![p] = None] /\ store'.cursor = i
        /\ store'.targets = store.targets
        /\ channel' \in [Author -> Seq(Event)] /\ OnRelay'
    BY <1>1, <1>2, <1>5, <2>1, EnqueueDeleteEffect, Zenon
  <2>3. /\ store'.mapping[p] = None /\ store'.operation[p] = None
        /\ \A q \in Post : q # p => /\ store'.mapping[q] = store.mapping[q]
                                    /\ store'.operation[q] = store.operation[q]
    BY <1>3, <2>2, Zenon
  <2> QED BY <1>1, <1>2, <2>2, <2>3, Zenon DEF Follows
<1> QED BY <1>4, <1>5, Zenon

\* Handle for a commit of a wanted author.
LEMMA HandledFollows ==
  ASSUME MirrorInv, Handle, NEW i \in DOMAIN log, i = syncer.next,
         NEW p \in Post, p = log[i].post, AuthorOf[p] \in syncer.wanted \cap live
  PROVE  Follows(i, p)
<1>1. UNCHANGED <<log, relay>>
  BY Zenon DEF Handle, sourceVars
<1>2. CASE log[i].op = "create"
  <2>1. Create(i, p, log[i].version)
    BY <1>2, Zenon DEF Handle
  <2> QED BY <1>1, <1>2, <2>1, CreateFollows, Zenon
<1>3. CASE log[i].op = "update"
  <2>1. Update(i, p, log[i].version)
    BY <1>3, Zenon DEF Handle
  <2> QED BY <1>1, <1>3, <2>1, UpdateFollows, Zenon
<1>4. CASE log[i].op = "delete"
  <2>1. Delete(i, p)
    BY <1>4, Zenon DEF Handle
  <2> QED BY <1>1, <1>4, <2>1, DeleteFollows, Zenon
<1>5. log[i].op \in {"create", "update", "delete"}
  BY LogFacts, Zenon DEF MirrorInv, TypeOK
<1> QED BY <1>2, <1>3, <1>4, <1>5, Zenon

LEMMA HandleStep ==
  ASSUME MirrorInv, Handle
  PROVE  MirrorInv'
<1>1. /\ log \in Seq(Entry) /\ syncer \in Syncer /\ store \in Store
      /\ channel \in [Author -> Seq(Event)] /\ syncer.phase = "stream"
  BY Zenon DEF MirrorInv, TypeOK, Handle
<1>2. PICK i \in DOMAIN log : i = syncer.next
  <2>1. syncer.next \in Nat /\ syncer.next >= 1 /\ syncer.next <= Len(log)
    BY <1>1, Zenon DEF MirrorInv, ReadOK, Handle, Syncer
  <2>2. syncer.next \in DOMAIN log
    BY <1>1, <2>1
  <2> QED BY <2>2, Zenon
<1>3. PICK p \in Post : p = log[i].post
  BY <1>1, LogFacts, Zenon
<1>4. UNCHANGED <<log, follows, live, signal, relay>>
  BY Zenon DEF Handle, sourceVars
<1>5. /\ syncer' \in Syncer /\ syncer'.phase = "stream" /\ syncer'.next = i + 1
      /\ syncer'.wanted = syncer.wanted
  <2>1. syncer' = [syncer EXCEPT !.next = i + 1] /\ i + 1 \in Nat
    BY <1>1, <1>2, LogFacts DEF Handle
  <2> QED BY <1>1, <2>1, Zenon DEF Syncer
<1>6. /\ LogOK' /\ \A q, j : IsLast(q, j)' <=> IsLast(q, j)
      /\ \A q : Commits(q)' = Commits(q)
  BY <1>4, SameLog, Zenon DEF MirrorInv
<1>7. i \in Nat /\ i >= 1 /\ i <= Len(log) /\ Len(log) \in Nat
  BY <1>1
<1>8. \A j \in DOMAIN log : log[j].post # p /\ (j <= i \/ j < i + 1) => j < i
  <2>1. \A j \in DOMAIN log : j \in Nat /\ (log[j].post # p => j # i)
    BY <1>1, <1>3, LogFacts, Zenon
  <2> QED BY <1>7, <2>1
<1>9. CASE AuthorOf[p] \notin syncer.wanted \cap live
  <2>1. UNCHANGED <<store, channel>>
    BY <1>2, <1>3, <1>9, Zenon DEF Handle
  <2>2. AuthorOf[p] \notin Core
    BY <1>1, <1>9, PhaseChanges, Zenon DEF MirrorInv, CoreOK
  <2>3. \A j \in DOMAIN log : log[j].post # p /\ Settled(j)' => Settled(j)
    BY <1>1, <1>2, <1>5, <1>8, <2>1, Zenon DEF Settled
  <2>4. Mapped'
    <3>1. ASSUME NEW q \in Post
          PROVE  AuthorOf[q] \in Core =>
                   \A j \in DOMAIN log : IsLast(q, j) /\ Settled(j)' =>
                     /\ store.mapping[q] \in {None, log[j].version}
                     /\ log[j].op = "create" => store.mapping[q] # None
      <4>1. \A j : IsLast(q, j) => log[j].post = q
        BY CommitsDomain, Zenon DEF IsLast
      <4>2. AuthorOf[q] \in Core =>
              \A j \in DOMAIN log : IsLast(q, j) /\ Settled(j) =>
                /\ store.mapping[q] \in {None, log[j].version}
                /\ log[j].op = "create" => store.mapping[q] # None
        BY Zenon DEF MirrorInv, Mapped
      <4> QED BY <2>2, <2>3, <4>1, <4>2, Zenon
    <3>2. \A q \in Post :
            /\ store.mapping[q] # None => Committed(q, store.mapping[q])'
            /\ store.operation[q] # None => store.mapping[q] = store.operation[q]
      BY <1>4, <1>6, <2>1, Zenon DEF MirrorInv, Mapped, Committed
    <3> QED BY <1>4, <1>6, <2>1, <3>1, <3>2, Zenon DEF Mapped
  <2>5. OnRelay'
    BY <1>4, <2>1, RelayKept, Zenon DEF MirrorInv
  <2>6. ReadOK'
    BY <1>4, <1>5, <1>7, <2>1 DEF MirrorInv, ReadOK
  <2>7. CoreOK'
    BY <1>1, <1>4, <1>5, <2>1, Zenon DEF MirrorInv, CoreOK
  <2>8. PageOK'
    BY <1>1, <1>5, PhaseChanges, Zenon DEF PageOK
  <2> QED BY <1>4, <1>5, <1>6, <2>1, <2>4, <2>5, <2>6, <2>7, <2>8, Zenon
          DEF MirrorInv, TypeOK
<1>10. CASE AuthorOf[p] \in syncer.wanted \cap live
  <2>1. Follows(i, p)
    BY <1>2, <1>3, <1>10, HandledFollows, Zenon
  <2>2. /\ store' \in Store /\ store'.cursor = i /\ store'.targets = store.targets
        /\ channel' \in [Author -> Seq(Event)] /\ OnRelay'
    BY <2>1, Zenon DEF Follows
  <2>3. \A j \in DOMAIN log : Settled(j)' => (j <= i \/ j < i + 1)
    BY <1>5, <2>2, Zenon DEF Settled
  <2>4. ASSUME NEW q \in Post
        PROVE  /\ store'.mapping[q] # None =>
                    \E j \in Commits(q) : log[j].version = store'.mapping[q]
               /\ store'.operation[q] # None => store'.mapping[q] = store'.operation[q]
               /\ AuthorOf[q] \in Core =>
                    \A j \in DOMAIN log : IsLast(q, j) /\ Settled(j)' =>
                      /\ store'.mapping[q] \in {None, log[j].version}
                      /\ log[j].op = "create" => store'.mapping[q] # None
    <3>1. CASE q = p
      <4>1. \A j \in DOMAIN log : IsLast(q, j) /\ Settled(j)' => j = i
        <5>1. \A j \in DOMAIN log : IsLast(q, j) => i <= j
          BY <1>3, <3>1, Zenon DEF IsLast, Commits
        <5>2. \A j \in DOMAIN log : j \in Nat
          BY <1>1, LogFacts, Zenon
        <5> QED BY <1>7, <2>3, <5>1, <5>2
      <4> QED BY <2>1, <3>1, <4>1, Zenon DEF Follows
    <3>2. CASE q # p
      <4>1. \A j \in DOMAIN log : IsLast(q, j) /\ Settled(j)' => Settled(j)
        <5>1. \A j : IsLast(q, j) => log[j].post = q
          BY CommitsDomain, Zenon DEF IsLast
        <5> QED BY <1>1, <1>2, <1>8, <2>3, <3>2, <5>1, Zenon DEF Settled
      <4>2. store'.mapping[q] = store.mapping[q] /\ store'.operation[q] = store.operation[q]
        BY <2>1, <3>2, Zenon DEF Follows
      <4>3. /\ store.mapping[q] # None =>
                 \E j \in Commits(q) : log[j].version = store.mapping[q]
            /\ store.operation[q] # None => store.mapping[q] = store.operation[q]
            /\ AuthorOf[q] \in Core =>
                 \A j \in DOMAIN log : IsLast(q, j) /\ Settled(j) =>
                   /\ store.mapping[q] \in {None, log[j].version}
                   /\ log[j].op = "create" => store.mapping[q] # None
        BY Zenon DEF MirrorInv, Mapped, Committed
      <4> QED BY <4>1, <4>2, <4>3, Zenon
    <3> QED BY <3>1, <3>2, Zenon
  <2>5. \A q : Committed(q, store.mapping[q])' <=>
               \E j \in Commits(q) : log[j].version = store'.mapping[q]
    BY <1>4, <1>6, Zenon DEF Committed
  <2>6. Mapped'
    BY <1>4, <1>6, <2>4, <2>5, Zenon DEF Mapped
  <2>7. ReadOK'
    BY <1>4, <1>5, <1>7, <2>2 DEF ReadOK
  <2>8. CoreOK'
    BY <1>1, <1>4, <1>5, <2>2, Zenon DEF MirrorInv, CoreOK
  <2>9. PageOK'
    BY <1>1, <1>5, PhaseChanges, Zenon DEF PageOK
  <2> QED BY <1>4, <1>5, <1>6, <2>2, <2>6, <2>7, <2>8, <2>9, Zenon DEF MirrorInv, TypeOK
<1> QED BY <1>9, <1>10, Zenon

-----------------------------------------------------------------------------
(***************************************************************************)
(* The theorems.                                                           *)
(***************************************************************************)

LEMMA MirrorInit == Init => MirrorInv
<1> SUFFICES ASSUME Init PROVE MirrorInv
  BY Zenon
<1>1. log = << >> /\ DOMAIN log = {} /\ log \in Seq(Entry) /\ Len(log) = 0
  BY DEF Init
<1>2. syncer = Waiting /\ syncer \in Syncer /\ syncer.phase = "waiting"
  BY Zenon DEF Init, Waiting, Syncer, Phase
<1>3. /\ store \in Store /\ store.cursor = 0 /\ store.targets = Author
      /\ \A p \in Post : store.mapping[p] = None /\ store.operation[p] = None
  BY Zenon DEF Init, Store
<1>4. channel \in [Author -> Seq(Event)] /\ \A a \in Author : channel[a] = << >>
  BY DEF Init
<1>5. \A e : ~ Sent(channel, e)
  BY <1>4 DEF Sent, Among
<1>6. relay.events = {} /\ relay.tombstones = {}
  BY Zenon DEF Init
<1>7. TypeOK
  BY <1>1, <1>2, <1>3, <1>4, Zenon DEF Init, TypeOK
<1>8. LogOK /\ PageOK
  BY <1>1, <1>2, Zenon DEF LogOK, PageOK
<1>9. ReadOK /\ CoreOK
  BY <1>1, <1>2, <1>3, SourceAssumption DEF Init, ReadOK, CoreOK
<1>10. Mapped
  BY <1>1, <1>3, Zenon DEF Mapped
<1>11. OnRelay
  BY <1>3, <1>5, <1>6, SourceAssumption, Zenon DEF OnRelay, Deleted, Published, Tombstoned
<1> QED BY <1>7, <1>8, <1>9, <1>10, <1>11, Zenon DEF MirrorInv

LEMMA MirrorStep == MirrorInv /\ [Next]_vars => MirrorInv'
<1> SUFFICES ASSUME MirrorInv, [Next]_vars PROVE MirrorInv'
  BY Zenon
<1>1. CASE \E p \in Post : CreatePost(p) \/ UpdatePost(p) \/ DeletePost(p)
  BY <1>1, SourceStep, Zenon
<1>2. CASE \E F \in SUBSET Author : Retarget(F)
  BY <1>2, RetargetStep, Zenon
<1>3. CASE Start \/ Subscribe \/ Handle
  BY <1>3, StartStep, SubscribeStep, HandleStep, Zenon
<1>4. CASE \E x \in syncer.page : Backfill(x[1], x[2])
  BY <1>4, BackfillStep, Zenon
<1>5. CASE BackfillDone \/ BackfillFails \/ HandleFails \/ TargetUpdate \/ Disconnect \/ Crash
  BY <1>5, InterruptionStep, Zenon
<1>6. CASE ReconcilePeriodically
  BY <1>6, ReconcileStep, Zenon
<1>7. CASE \E a \in Author, done \in BOOLEAN : Deliver(a, done)
  BY <1>7, DeliverStep, Zenon
<1>8. CASE UNCHANGED vars
  <2>1. UNCHANGED <<log, follows, syncer, live, signal, store, channel, relay>>
    BY <1>8, Zenon DEF vars
  <2>2. LogOK' /\ Mapped' /\ OnRelay'
    BY <2>1, SameLog, RelayKept, MappedKept, Zenon DEF MirrorInv, Settled
  <2>3. PageOK'
    BY <2>1, SameLog, Zenon DEF MirrorInv, PageOK
  <2> QED BY <2>1, <2>2, <2>3, Zenon DEF MirrorInv, TypeOK, ReadOK, CoreOK
<1> QED BY <1>1, <1>2, <1>3, <1>4, <1>5, <1>6, <1>7, <1>8, Zenon DEF Next, SyncerStep

\* Once caught up, no event of a Core author's post is shown but the current one.
LEMMA CaughtUpShows ==
  ASSUME MirrorInv, CaughtUp, NEW p \in Post, AuthorOf[p] \in Core
  PROVE  /\ \A v \in Version : PostEvent(p, v) \in relay.events =>
              ~ Tombstoned(relay, p, v) /\ store.mapping[p] = v
         /\ \A i \in DOMAIN log : IsLast(p, i) => Settled(i)
         /\ \A e : ~ Sent(channel, e)
<1>1. \A e : ~ Sent(channel, e)
  BY DEF CaughtUp, Sent, Among
<1>2. \A v \in Version : PostEvent(p, v) \in relay.events =>
        ~ Tombstoned(relay, p, v) /\ store.mapping[p] = v
  BY <1>1, Zenon DEF MirrorInv, OnRelay, Deleted, Published
<1>3. \A i \in DOMAIN log : i < syncer.next
  <2>1. log \in Seq(Entry) /\ syncer.next \in Nat /\ syncer.next > Len(log)
    BY Zenon DEF MirrorInv, TypeOK, Syncer, CaughtUp
  <2> QED BY <2>1
<1>4. \A i \in DOMAIN log : IsLast(p, i) => Settled(i)
  BY <1>3, Zenon DEF Settled, CaughtUp
<1> QED BY <1>1, <1>2, <1>4, Zenon

LEMMA MirrorNothingStale == MirrorInv => NothingStale
<1> SUFFICES ASSUME MirrorInv, CaughtUp, NEW p \in Post, AuthorOf[p] \in Core,
                    NEW v \in Version, PostEvent(p, v) \in relay.events
             PROVE  v = Current(p)
  BY Zenon DEF NothingStale, Shown
<1>1. store.mapping[p] = v /\ v # None /\ log \in Seq(Entry) /\ LogOK
  BY CaughtUpShows, SourceAssumption, Zenon DEF MirrorInv, TypeOK
<1>2. Commits(p) # {}
  BY <1>1, Zenon DEF MirrorInv, Mapped, Committed
<1>3. PICK i \in DOMAIN log : IsLast(p, i)
  BY <1>1, <1>2, HasLast, Zenon
<1>4. v = log[i].version
  BY <1>1, <1>3, CaughtUpShows, Zenon DEF MirrorInv, Mapped
<1> QED BY <1>1, <1>3, <1>4, LastDecides, Zenon

LEMMA MirrorUnedited == MirrorInv => UneditedMirrored
<1> SUFFICES ASSUME MirrorInv, CaughtUp, NEW p \in Post, AuthorOf[p] \in Core, ~Edited(p)
             PROVE  Shown(p) = IF Current(p) = None THEN {} ELSE {Current(p)}
  BY Zenon DEF UneditedMirrored
<1>1. Shown(p) \subseteq {Current(p)}
  BY MirrorNothingStale, Zenon DEF NothingStale
<1>2. Current(p) = None => Shown(p) = {}
  BY <1>1, SourceAssumption, Zenon DEF Shown
<1>3. ASSUME Current(p) # None PROVE Current(p) \in Shown(p)
  <2>1. log \in Seq(Entry) /\ LogOK
    BY Zenon DEF MirrorInv, TypeOK
  <2>2. PICK i \in DOMAIN log : IsLast(p, i)
    BY <1>3, <2>1, CurrentIsLast, Zenon
  <2>3. Current(p) = log[i].version /\ Current(p) \in Version
    BY <1>3, <2>1, <2>2, CurrentIsLast, LastDecides, Zenon
  <2>4. log[i].op = "create"
    <3>1. log[i].op \in {"create", "update", "delete"} /\ log[i].op # "delete"
      BY <1>3, <2>1, <2>3, LogFacts, Zenon DEF LogOK
    <3>2. log[i].op # "update"
      BY <2>2, Zenon DEF Edited, IsLast
    <3> QED BY <3>1, <3>2, Zenon
  <2>5. \A j \in Commits(p) : j = i
    <3>1. \A j \in Commits(p) : j \in DOMAIN log /\ j <= i /\ i <= j
      BY <2>1, <2>2, <2>4, CommitsDomain, Zenon DEF IsLast, LogOK
    <3> QED BY <2>1, <3>1, LogFacts
  <2>6. store.mapping[p] = Current(p)
    BY <1>3, <2>2, <2>3, <2>4, CaughtUpShows, Zenon DEF MirrorInv, Mapped
  <2>7. ~ Deleted(channel, relay, p, Current(p))
    BY <2>3, <2>4, <2>5, Zenon DEF MirrorInv, OnRelay
  <2>8. PostEvent(p, Current(p)) \in relay.events
    BY <2>3, <2>6, <2>7, CaughtUpShows, Zenon DEF MirrorInv, OnRelay, Published
  <2> QED BY <2>3, <2>8, Zenon DEF Shown
<1> QED BY <1>1, <1>2, <1>3, Zenon

\* Once the stream is read and the outbox empty, the relay shows no deleted post
\* and no superseded version of an author who stayed a target: what Handle, the
\* backfill and the rewound replays enqueue leaves nothing behind.
THEOREM NothingStaleShown == Spec => []NothingStale
BY MirrorInit, MirrorStep, MirrorNothingStale, PTL DEF Spec

\* And it shows every post of theirs that exists and was never edited.
THEOREM UneditedShown == Spec => []UneditedMirrored
BY MirrorInit, MirrorStep, MirrorUnedited, PTL DEF Spec

LEMMA FreshStep == MirrorInv /\ SubscriptionFresh /\ [Next]_vars => SubscriptionFresh'
<1> SUFFICES ASSUME MirrorInv, SubscriptionFresh, [Next]_vars,
                    syncer'.phase = "stream", syncer'.wanted # live'
             PROVE  signal'
  BY Zenon DEF SubscriptionFresh
<1>1. syncer \in Syncer
  BY Zenon DEF MirrorInv, TypeOK
<1>2. CASE UNCHANGED <<syncer, live, signal>>
  BY <1>2, Zenon DEF SubscriptionFresh
<1>3. CASE Subscribe
  <2>1. live' = live /\ (live # {} => syncer'.wanted = live)
    BY <1>1, <1>3, Zenon DEF Subscribe, Syncer
  <2>2. live = {} => syncer'.phase = "waiting"
    BY <1>1, <1>3, PhaseChanges, Zenon DEF Subscribe
  <2> QED BY <1>1, <2>1, <2>2, PhaseChanges, Zenon
<1>4. CASE Handle
  <2>1. /\ syncer' = [syncer EXCEPT !.next = syncer.next + 1]
        /\ syncer.phase = "stream" /\ UNCHANGED <<live, signal>>
    BY <1>4, Zenon DEF Handle
  <2>2. syncer'.wanted = syncer.wanted
    BY <1>1, <2>1, Zenon DEF Syncer
  <2> QED BY <2>1, <2>2, Zenon DEF SubscriptionFresh
<1>5. CASE ReconcilePeriodically
  BY <1>5, Zenon DEF ReconcilePeriodically, SetTargets, SubscriptionFresh
<1>6. CASE Start
  <2>1. PICK page : syncer' = [Waiting EXCEPT !.phase = "backfill", !.page = page]
    BY <1>6, Zenon DEF Start
  <2>2. syncer'.phase = "backfill"
    BY <2>1, Zenon DEF Waiting
  <2> QED BY <1>1, <2>2, PhaseChanges, Zenon
<1>7. CASE \E x \in syncer.page : Backfill(x[1], x[2])
  <2>1. PICK S : syncer' = [syncer EXCEPT !.page = S] /\ syncer.phase = "backfill"
    BY <1>7, Zenon DEF Backfill
  <2>2. syncer'.phase = "backfill"
    BY <1>1, <2>1, Zenon DEF Syncer
  <2> QED BY <1>1, <2>2, PhaseChanges, Zenon
<1>8. CASE BackfillDone \/ BackfillFails \/ HandleFails \/ TargetUpdate \/ Disconnect \/ Crash
  <2>1. syncer' = Waiting \/ syncer' = [syncer EXCEPT !.phase = "connect"]
    BY <1>8, Zenon DEF BackfillDone, BackfillFails, HandleFails, TargetUpdate, Disconnect,
                       Crash
  <2> QED BY <1>1, <2>1, PhaseChanges, Zenon
<1>9. CASE \E p \in Post : CreatePost(p) \/ UpdatePost(p) \/ DeletePost(p)
  BY <1>2, <1>9, Zenon DEF CreatePost, UpdatePost, DeletePost, Commit
<1>10. CASE \E F \in SUBSET Author : Retarget(F)
  BY <1>2, <1>10, Zenon DEF Retarget
<1>11. CASE \E a \in Author, done \in BOOLEAN : Deliver(a, done)
  BY <1>2, <1>11, Zenon DEF Deliver
<1>12. CASE UNCHANGED vars
  BY <1>2, <1>12, Zenon DEF vars
<1> QED BY <1>3, <1>4, <1>5, <1>6, <1>7, <1>8, <1>9, <1>10, <1>11, <1>12, Zenon
        DEF Next, SyncerStep

\* A subscription for outdated targets always has the token that ends it: the
\* channel of one slot in liveTargets loses no last change.
THEOREM TargetsAnnounced == Spec => []SubscriptionFresh
<1>1. Init => SubscriptionFresh
  <2>1. "waiting" # "stream"
    BY Zenon
  <2> QED BY <2>1 DEF Init, SubscriptionFresh, Waiting
<1> QED BY <1>1, MirrorInit, MirrorStep, FreshStep, PTL DEF Spec
=============================================================================
