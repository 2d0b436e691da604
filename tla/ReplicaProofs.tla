---------------------------- MODULE ReplicaProofs ---------------------------
(***************************************************************************)
(* What a connection of the litestream VFS sees, for every number of       *)
(* pages and transactions: one coherent snapshot (when no compaction is    *)
(* published late), and a poller that does not stall in silence.           *)
(***************************************************************************)
EXTENDS ReplicaFile, WellFoundedInduction, TLAPS

-----------------------------------------------------------------------------
(***************************************************************************)
(* The inductive invariant.                                                *)
(***************************************************************************)

Level0Result ==
  [max : 1 .. MaxTX, index : PageIndex, commit : Page, gapAt : 0 .. MaxTX,
   replace : BOOLEAN, fromRoot : BOOLEAN, failed : BOOLEAN]

StoreType ==
  /\ db \in Seq([pages : SUBSET Page, commit : Page]) /\ Len(db) \in 1 .. MaxTX
  /\ files \subseteq FileInfo

PollType ==
  /\ cursor \in [pos : 1 .. MaxTX, max1 : 0 .. MaxTX, commit : Page]
  /\ poll = [pc |-> poll.pc, l0 |-> poll.l0, update |-> poll.update]
  /\ poll.pc \in {"idle", "l1", "detect", "rebuild", "stage"}
  /\ poll.pc = "l1" => poll.l0 \in Level0Result
  /\ poll.pc \in {"detect", "stage"} => poll.update \in Update
  /\ moved \in BOOLEAN

ViewType ==
  /\ visible \in [index : PageIndex, commit : Page, pos : 1 .. MaxTX, max1 : 0 .. MaxTX]
  /\ pending \in Update \cup {None}
  /\ read \in PageRead \cup {None}
  /\ shared \in BOOLEAN

TypeOK == StoreType /\ PollType /\ ViewType

\* The files cover the history; those of level 1 cover a prefix of it and do
\* not overlap.
FilesOK ==
  /\ \A i \in files : i.min <= i.max /\ i.max <= Len(db)
  /\ \A i \in files : i.level = 0 => i.min = i.max
  /\ \A i, j \in files :
       i.level = 1 /\ j.level = 1 => i = j \/ i.max < j.min \/ j.max < i.min
  /\ \A t \in 1 .. Len(db) : \E i \in files : i.min <= t /\ t <= i.max
  /\ \A j \in files : \A t \in 1 .. j.max :
       j.level = 1 => \E i \in files : i.level = 1 /\ i.min <= t /\ t <= i.max

\* A cursor of level 1 is at the end of a file, unless everything before it
\* has been replaced by one file.
Aligned(c) ==
  /\ c = 0 \/ \E j \in files : j.level = 1 /\ c <= j.max
  /\ \A i \in files : i.level = 1 /\ i.min <= c /\ c < i.max => i.min = 1

Placed(c) == c.pos <= Len(db) /\ c.max1 <= c.pos /\ Aligned(c.max1)

\* What a listing of level 0 says of the files after the cursor.
Level0OK ==
  LET l0 == poll.l0 IN
  poll.pc = "l1" =>
    /\ cursor.pos <= l0.max /\ l0.max <= Len(db)
    /\ l0.gapAt # 0 => l0.gapAt > l0.max + 1
    /\ ~l0.fromRoot
    /\ l0.max = cursor.pos => l0.index = Empty /\ ~l0.replace
    /\ ~moved /\ l0.max = cursor.pos /\ l0.gapAt = 0 =>
         \A i \in files : i.level = 0 => i.min <= cursor.pos

UpdateOK == poll.pc \in {"detect", "stage"} => Placed(poll.update)

\* A poll that found nothing although there is something finds it in a file
\* from the first transaction on.
DetectOK ==
  poll.pc = "detect" /\ ~moved /\ cursor.pos < Len(db) =>
    \E i \in files : i.min = 1 /\ i.max > cursor.pos

Polling == Placed(cursor) /\ Level0OK /\ UpdateOK /\ DetectOK /\ NoSilentStall

PollInv == TypeOK /\ FilesOK /\ Polling

-----------------------------------------------------------------------------

\* The first transaction writes every page, and a page that is added is
\* written.
HistoryOK ==
  /\ db[1].pages = Page
  /\ \A t \in 2 .. Len(db) : \A p \in Page :
       p <= db[t].commit /\ db[t - 1].commit < p => p \in db[t].pages

\* No transaction after a, up to b, writes page p.
Untouched(p, a, b) == \A t \in 1 .. Len(db) : a < t /\ t <= b => p \notin db[t].pages

\* The index names, for page p, a file that has it as it is at pos.
Named(index, p, pos) ==
  /\ p \in DOMAIN index
  /\ index[p].max \in 1 .. pos
  /\ Untouched(p, index[p].max, pos)

\* An index for every page at pos, and one for what has changed since base.
Whole(index, pos) == \A p \in 1 .. Commit(pos) : Named(index, p, pos)
Since(index, base, pos) ==
  \A p \in 1 .. Commit(pos) :
    Named(index, p, pos) \/ (p \notin DOMAIN index /\ Untouched(p, base, pos))

\* An update takes what is at base to a snapshot of its position.
Sound(u, base) ==
  /\ u.commit = Commit(u.pos)
  /\ u.replace => Whole(u.index, u.pos)
  /\ ~u.replace => base <= u.pos /\ Since(u.index, base, u.pos)

\* What level 1 has to offer is not older than the position.
Caught(c) == \A i \in files : i.level = 1 /\ c.max1 < i.min => c.pos <= i.max

\* What the result of level 0 holds is exact.
Level0Sound ==
  LET l0 == poll.l0 IN
  poll.pc = "l1" =>
    /\ l0.commit = Commit(l0.max)
    /\ \A p \in DOMAIN l0.index :
         LET m == l0.index[p].max IN cursor.pos < m /\ m <= l0.max /\ p \in db[m].pages
    /\ ~l0.replace => Since(l0.index, cursor.pos, l0.max)

UpdateSound ==
  poll.pc \in {"detect", "stage"} => Sound(poll.update, cursor.pos) /\ Caught(poll.update)

\* The poller goes on from what is visible, or from what is held back.
VisibleOK ==
  /\ cursor = IF pending = None THEN Cursor(visible) ELSE Cursor(pending)
  /\ visible.pos <= Len(db) /\ visible.commit = Commit(visible.pos)
  /\ Whole(visible.index, visible.pos)
  /\ pending # None => shared /\ pending.pos <= Len(db) /\ Sound(pending, visible.pos)

\* The cache and a read under way are of the visible snapshot.
ReaderOK ==
  /\ shared => pinned = visible.pos
  /\ \A p \in DOMAIN cache :
       p \in Page /\ (p <= visible.commit => cache[p] = Version(p, visible.pos))
  /\ read # None /\ ~read.stale =>
       /\ read.page <= visible.commit /\ read.page \in DOMAIN visible.index
       /\ read.elem = visible.index[read.page]
  /\ torn = {}

SnapshotInv ==
  /\ PollInv /\ HistoryOK /\ Caught(cursor) /\ Level0Sound /\ UpdateSound
  /\ VisibleOK /\ ReaderOK

-----------------------------------------------------------------------------
(***************************************************************************)
(* Numbers.                                                                *)
(***************************************************************************)

LEMMA Least ==
  ASSUME NEW S \in SUBSET Nat, S # {}
  PROVE  \E m \in S : \A i \in S : m <= i
<1> DEFINE R == OpToRel(<, Nat)
<1>1. IsWellFoundedOn(R, Nat)
  BY NatLessThanWellFounded, Zenon
<1>2. \A x, y \in Nat : x < y => <<x, y>> \in R
  BY Zenon DEF OpToRel
<1> HIDE DEF R
<1>3. PICK x \in S : \A y \in S : ~ (<<y, x>> \in R)
  BY <1>1, WFMin, Zenon
<1>4. \A i \in S : i \in Nat /\ x \in Nat /\ ~(i < x)
  BY <1>2, <1>3, Zenon
<1>5. \A i \in S : x <= i
  BY <1>4
<1> QED BY <1>3, <1>5, Zenon

LEMMA Greatest ==
  ASSUME NEW n \in Nat, NEW S \in SUBSET Nat, S # {}, \A i \in S : i <= n
  PROVE  \E m \in S : \A i \in S : m >= i
<1> DEFINE T == {k \in Nat : \E i \in S : k = n - i}
<1>1. PICK i \in S : TRUE
  BY Zenon
<1>2. n - i \in T
  OBVIOUS
<1>3. PICK m \in T : \A k \in T : m <= k
  BY <1>2, Least, Zenon
<1>4. PICK j \in S : m = n - j
  BY Zenon
<1>5. \A k \in S : n - k \in T
  OBVIOUS
<1>6. \A k \in S : j >= k
  BY <1>3, <1>4, <1>5
<1> QED BY <1>6, Zenon

LEMMA MaxOf ==
  ASSUME NEW n \in Nat, NEW S \in SUBSET Nat, S # {}, \A i \in S : i <= n
  PROVE  Max(S) \in S /\ \A i \in S : Max(S) >= i
<1>1. \E m \in S : \A i \in S : m >= i
  BY Greatest, Zenon
<1> QED BY <1>1, Zenon DEF Max

LEMMA MinOf ==
  ASSUME NEW S \in SUBSET Nat, S # {}
  PROVE  Min(S) \in S /\ \A i \in S : Min(S) <= i
<1>1. \E m \in S : \A i \in S : m <= i
  BY Least, Zenon
<1> QED BY <1>1, Zenon DEF Min

\* The last transaction that some files reach.
LEMMA LastOfFiles ==
  ASSUME NEW n \in Nat, NEW t \in 0 .. n, NEW infos \in SUBSET FileInfo,
         \A i \in infos : i.max <= n
  PROVE  /\ LastOf(infos, t) \in t .. n
         /\ \A i \in infos : i.max <= LastOf(infos, t)
         /\ LastOf(infos, t) = t \/ \E i \in infos : i.max = LastOf(infos, t)
<1> DEFINE S == {t} \cup {i.max : i \in infos}
<1>1. \A i \in infos : i.max \in Nat
  BY DEF FileInfo
<1>2. S \in SUBSET Nat /\ S # {} /\ t \in S
  BY <1>1
<1>3. \A s \in S : s <= n
  OBVIOUS
<1>4. Max(S) \in S /\ \A s \in S : Max(S) >= s
  BY <1>2, <1>3, MaxOf, Zenon
<1>5. LastOf(infos, t) = Max(S)
  BY Zenon DEF LastOf
<1>6. \A i \in infos : i.max \in S
  BY Zenon
<1>7. Max(S) = t \/ \E i \in infos : i.max = Max(S)
  BY <1>4, Zenon
<1> HIDE DEF S
<1> QED BY <1>1, <1>2, <1>3, <1>4, <1>5, <1>6, <1>7

-----------------------------------------------------------------------------
(***************************************************************************)
(* Chains of files.                                                        *)
(***************************************************************************)

\* The files of a level after t have transactions t + 1 .. u and end there.
Reached(level, t, u) ==
  \A v \in t + 1 .. u :
    \E i \in LTXFiles(level, t + 1) : i.min <= v /\ v <= i.max /\ i.max <= u

\* The files infos have transactions a + 1 .. b and no other.
Covers(infos, a, b) ==
  /\ \A i \in infos : a < i.min /\ i.max <= b
  /\ \A v \in a + 1 .. b : \E i \in infos : i.min <= v /\ v <= i.max

LEMMA FileType ==
  ASSUME StoreType, FilesOK, NEW i \in files
  PROVE  /\ i.min \in Nat /\ i.max \in Nat /\ i.level \in {0, 1}
         /\ 1 <= i.min /\ i.min <= i.max /\ i.max <= Len(db)
<1>1. i \in FileInfo /\ i.min <= i.max /\ i.max <= Len(db)
  BY Zenon DEF StoreType, FilesOK
<1> QED BY <1>1 DEF FileInfo

LEMMA LenType ==
  ASSUME StoreType
  PROVE  Len(db) \in Nat /\ 1 <= Len(db) /\ Len(db) <= MaxTX /\ MaxTX \in Nat
<1>1. Len(db) \in 1 .. MaxTX
  BY Zenon DEF StoreType
<1> QED BY <1>1, ReplicaBounds

LEMMA ChainEnd ==
  ASSUME StoreType, NEW level \in {0, 1}, NEW t \in 0 .. Len(db)
  PROVE  \E end \in t .. Len(db) :
           /\ Reached(level, t, end)
           /\ \A u \in t .. Len(db) : Reached(level, t, u) => u <= end
           /\ Chain(level, t) = {i \in LTXFiles(level, t + 1) : i.max <= end}
<1> DEFINE E == {u \in t .. Len(db) : Reached(level, t, u)}
<1>1. Len(db) \in Nat
  BY LenType, Zenon
<1>2. t \in E
  BY <1>1 DEF Reached
<1>3. E \in SUBSET Nat /\ \A u \in E : u <= Len(db)
  BY <1>1
<1>4. Max(E) \in E /\ \A u \in E : Max(E) >= u
  BY <1>1, <1>2, <1>3, MaxOf, Zenon
<1>5. Chain(level, t) = {i \in LTXFiles(level, t + 1) : i.max <= Max(E)}
  BY Zenon DEF Chain, Reached
<1>6. \A u \in t .. Len(db) : Reached(level, t, u) => Max(E) >= u
  BY <1>4, Zenon
<1>7. Max(E) \in t .. Len(db) /\ Reached(level, t, Max(E))
  BY <1>4, Zenon
<1> HIDE DEF E
<1>8. \A u \in t .. Len(db) : Reached(level, t, u) => u <= Max(E)
  BY <1>6, <1>7, <1>1
<1> QED BY <1>5, <1>7, <1>8, Zenon

LEMMA ChainCovers ==
  ASSUME StoreType, FilesOK, NEW level \in {0, 1}, NEW t \in 0 .. Len(db)
  PROVE  /\ LastOf(Chain(level, t), t) \in t .. Len(db)
         /\ Chain(level, t) \subseteq LTXFiles(level, t + 1)
         /\ Covers(Chain(level, t), t, LastOf(Chain(level, t), t))
         /\ LastOf(Chain(level, t), t) = t <=> Chain(level, t) = {}
         /\ Chain(level, t) # {} =>
              \E i \in Chain(level, t) : i.max = LastOf(Chain(level, t), t)
<1> DEFINE found == Chain(level, t)
           last == LastOf(found, t)
<1>0. Len(db) \in Nat
  BY LenType, Zenon
<1>1. PICK end \in t .. Len(db) :
        Reached(level, t, end) /\ found = {i \in LTXFiles(level, t + 1) : i.max <= end}
  BY ChainEnd, Zenon
<1>2. found \subseteq LTXFiles(level, t + 1)
  BY <1>1, Zenon
<1>3. \A i \in found : i \in files /\ i \in FileInfo /\ i.min >= t + 1
  BY <1>2, Zenon DEF LTXFiles, StoreType
<1>4. \A i \in found : /\ i.min \in Nat /\ i.max \in Nat /\ i.min <= i.max
                       /\ i.max <= Len(db) /\ i.max <= end
  BY <1>1, <1>3, FileType, Zenon
<1> HIDE DEF found
<1>5. /\ last \in t .. Len(db) /\ \A i \in found : i.max <= last
      /\ last = t \/ \E i \in found : i.max = last
  <2>1. found \in SUBSET FileInfo /\ \A i \in found : i.max <= Len(db)
    BY <1>3, <1>4, Zenon
  <2> QED BY <1>0, <2>1, LastOfFiles, Zenon
<1> HIDE DEF last
<1>6. \A i \in found : t < i.min /\ t < i.max /\ i.max <= last
  BY <1>3, <1>4, <1>5
<1>7. last <= end
  BY <1>4, <1>5
<1>8. ASSUME NEW v \in t + 1 .. last
      PROVE  \E i \in found : i.min <= v /\ v <= i.max
  <2>1. v \in t + 1 .. end
    BY <1>7, <1>5
  <2>2. PICK i \in LTXFiles(level, t + 1) : i.min <= v /\ v <= i.max /\ i.max <= end
    BY <1>1, <2>1, Zenon DEF Reached
  <2>3. i \in found
    BY <1>1, <2>2, Zenon
  <2> QED BY <2>2, <2>3, Zenon
<1>9. Covers(found, t, last)
  BY <1>6, <1>8, Zenon DEF Covers
<1>10. last = t => found = {}
  <2>1. \A i \in found : last # t
    BY <1>4, <1>5, <1>6
  <2> QED BY <2>1, Zenon
<1>11. found = {} => last = t
  BY <1>5, Zenon
<1>12. found # {} => \E i \in found : i.max = last
  BY <1>5, <1>10, Zenon
<1> QED BY <1>2, <1>5, <1>9, <1>10, <1>11, <1>12, Zenon DEF found, last

\* A chain goes on as long as there are files.
LEMMA ChainReaches ==
  ASSUME StoreType, FilesOK, NEW level \in {0, 1}, NEW t \in 0 .. Len(db),
         NEW u \in t .. Len(db), Reached(level, t, u)
  PROVE  u <= LastOf(Chain(level, t), t)
<1>0. Len(db) \in Nat
  BY LenType, Zenon
<1>1. PICK end \in t .. Len(db) :
        u <= end /\ Chain(level, t) = {i \in LTXFiles(level, t + 1) : i.max <= end}
  BY ChainEnd, Zenon
<1>2. LastOf(Chain(level, t), t) \in t .. Len(db)
  BY ChainCovers, Zenon
<1>3. CASE u = t
  BY <1>2, <1>3, <1>0
<1>4. CASE u # t
  <2>1. u \in t + 1 .. u
    BY <1>4, <1>0
  <2>2. PICK i \in LTXFiles(level, t + 1) : u <= i.max /\ i.max <= u
    BY <2>1, Zenon DEF Reached
  <2>3. i \in files
    BY Zenon DEF LTXFiles
  <2>4. i.max <= end /\ i.max = u
    BY <2>2, <2>3, <1>1, <1>0, FileType
  <2>5. i \in Chain(level, t)
    BY <2>4, <1>1, Zenon
  <2>6. i.max <= LastOf(Chain(level, t), t)
    BY <2>5, ChainCovers, Zenon DEF Covers
  <2> QED BY <2>4, <2>6, Zenon
<1> QED BY <1>3, <1>4, Zenon

-----------------------------------------------------------------------------
(***************************************************************************)
(* Pages.                                                                  *)
(***************************************************************************)

LEMMA CommitType ==
  ASSUME StoreType, NEW t \in 1 .. Len(db)
  PROVE  /\ Commit(t) \in Page /\ Commit(t) \in Nat /\ 1 .. Commit(t) \subseteq Page
         /\ db[t].pages \subseteq Page
<1> DEFINE T == [pages : SUBSET Page, commit : Page]
<1>1. db \in Seq(T) /\ \A x \in T : x.commit \in Page /\ x.pages \subseteq Page
  BY Zenon DEF StoreType
<1> HIDE DEF T
<1>2. db[t].commit \in Page /\ db[t].pages \subseteq Page
  <2>1. db[t] \in T
    BY <1>1
  <2> QED BY <1>1, <2>1, Zenon
<1>3. \A c \in Page : c \in Nat /\ 1 .. c \subseteq Page
  BY ReplicaBounds DEF Page
<1> QED BY <1>2, <1>3, Zenon DEF Commit

\* A page that is not written is not added.
LEMMA NotAdded ==
  ASSUME StoreType, HistoryOK, NEW a \in 1 .. Len(db), NEW b \in a .. Len(db),
         NEW p \in 1 .. Commit(b), Untouched(p, a, b)
  PROVE  p \in 1 .. Commit(a)
<1>0. Len(db) \in Nat /\ b \in 1 .. Len(db)
  BY LenType
<1>1. p \in Page /\ p \in Nat /\ 1 <= p /\ p <= Commit(b)
  BY <1>0, CommitType
<1> DEFINE S == {t \in a .. b : p <= Commit(t)}
<1>2. b \in S /\ S \in SUBSET Nat
  BY <1>0, <1>1
<1>3. PICK m \in S : \A i \in S : m <= i
  BY <1>2, Least, Zenon
<1>4. CASE m = a
  <2>1. p <= Commit(a)
    BY <1>4, Zenon
  <2> QED BY <1>0, <1>1, <2>1, CommitType
<1>5. CASE m # a
  <2>1. m \in 2 .. Len(db) /\ m - 1 \in a .. b /\ a < m /\ m <= b /\ m \in 1 .. Len(db)
    BY <1>5, <1>0
  <2>2. ~(p <= Commit(m - 1))
    <3>1. ~(m <= m - 1)
      BY <2>1
    <3> QED BY <3>1, <2>1, <1>3, Zenon
  <2>3. m - 1 \in 1 .. Len(db)
    BY <2>1, <1>0
  <2>4. db[m - 1].commit < p
    BY <2>2, <2>3, <1>1, CommitType DEF Commit
  <2>5. p <= db[m].commit
    BY Zenon DEF Commit
  <2>6. p \in db[m].pages
    BY <2>1, <2>4, <2>5, <1>1, Zenon DEF HistoryOK
  <2>7. FALSE
    BY <2>1, <2>6, Zenon DEF Untouched
  <2> QED BY <2>7, Zenon
<1> QED BY <1>4, <1>5, Zenon

LEMMA SameVersion ==
  ASSUME StoreType, NEW b \in 1 .. Len(db), NEW a \in 1 .. b, NEW p, Untouched(p, a, b)
  PROVE  Version(p, a) = Version(p, b)
<1>1. Len(db) \in Nat
  BY LenType, Zenon
<1>2. \A u \in 1 .. b : p \in db[u].pages => u \in 1 .. a
  <2> SUFFICES ASSUME NEW u \in 1 .. b, p \in db[u].pages, u \notin 1 .. a
               PROVE  FALSE
    BY Zenon
  <2>1. u \in 1 .. Len(db) /\ a < u /\ u <= b
    BY <1>1
  <2> QED BY <2>1, Zenon DEF Untouched
<1>3. \A u \in 1 .. a : u \in 1 .. b
  BY <1>1
<1>4. {u \in 1 .. a : p \in db[u].pages} = {u \in 1 .. b : p \in db[u].pages}
  BY <1>2, <1>3, Zenon
<1> QED BY <1>4, Zenon DEF Version

Best(infos, p, i) ==
  i \in infos /\ p \in FilePages(i) /\ \A j \in infos : p \in FilePages(j) => j.max <= i.max

LEMMA FilePagesType ==
  ASSUME StoreType, FilesOK, NEW i \in files, NEW p \in FilePages(i)
  PROVE  /\ p \in Page /\ p <= Commit(i.max)
         /\ \E t \in i.min .. i.max : p \in db[t].pages
<1>1. i.max \in 1 .. Len(db)
  BY FileType, LenType
<1>2. p \in 1 .. Commit(i.max) /\ \E t \in i.min .. i.max : p \in db[t].pages
  BY Zenon DEF FilePages
<1> QED BY <1>1, <1>2, CommitType

LEMMA HasBest ==
  ASSUME StoreType, FilesOK, NEW infos \in SUBSET files, NEW p, NEW k \in infos,
         p \in FilePages(k)
  PROVE  \E i \in infos : Best(infos, p, i)
<1> DEFINE with == {j \in infos : p \in FilePages(j)}
           S == {j.max : j \in with}
<1>1. \A j \in with : j.max \in Nat /\ j.max <= Len(db)
  BY FileType, Zenon
<1>2. S \in SUBSET Nat /\ S # {} /\ \A s \in S : s <= Len(db)
  BY <1>1, Zenon
<1>3. Len(db) \in Nat
  BY LenType, Zenon
<1>4. PICK m \in S : \A s \in S : m >= s
  BY <1>2, <1>3, Greatest, Zenon
<1>5. PICK i \in with : i.max = m
  BY Zenon
<1>6. \A j \in with : i.max >= j.max
  BY <1>4, <1>5, Zenon
<1>7. \A j \in with : j.max <= i.max
  BY <1>1, <1>6
<1> QED BY <1>7, Zenon DEF Best

LEMMA IndexBest ==
  ASSUME StoreType, FilesOK, NEW infos \in SUBSET files
  PROVE  /\ Index(infos) \in PageIndex
         /\ \A p \in DOMAIN Index(infos) : Best(infos, p, Index(infos)[p])
         /\ \A i \in infos : FilePages(i) \subseteq DOMAIN Index(infos)
<1> DEFINE D == UNION {FilePages(i) : i \in infos}
           F(p) == CHOOSE i \in infos :
                     p \in FilePages(i) /\ \A j \in infos : p \in FilePages(j) => j.max <= i.max
<1>1. Index(infos) = [p \in D |-> F(p)]
  BY Zenon DEF Index
<1>2. ASSUME NEW p \in D
      PROVE  Best(infos, p, F(p)) /\ p \in Page
  <2>1. PICK k \in infos : p \in FilePages(k)
    BY Zenon
  <2>2. PICK i \in infos : Best(infos, p, i)
    BY <2>1, HasBest, Zenon
  <2>3. Best(infos, p, F(p))
    BY <2>2, Zenon DEF Best
  <2>4. p \in Page
    BY <2>1, FilePagesType, Zenon
  <2> QED BY <2>3, <2>4, Zenon
<1>3. \A i \in infos : FilePages(i) \subseteq D
  BY Zenon
<1>4. \A p \in D : F(p) \in FileInfo
  BY <1>2, Zenon DEF Best, StoreType
<1> HIDE DEF D, F
<1>5. D \in SUBSET Page
  BY <1>2, Zenon
<1>6. [p \in D |-> F(p)] \in [D -> FileInfo]
  BY <1>4, Zenon
<1>7. [p \in D |-> F(p)] \in PageIndex
  BY <1>5, <1>6, Zenon DEF PageIndex
<1> QED BY <1>1, <1>2, <1>3, <1>7, Zenon

\* The index of files that cover a + 1 .. b has every page that is written
\* there, as late as it is written.
LEMMA IndexCovers ==
  ASSUME StoreType, FilesOK, HistoryOK, NEW infos \in SUBSET files, NEW b \in 1 .. Len(db),
         NEW a \in 0 .. b, Covers(infos, a, b), NEW p \in 1 .. Commit(b),
         NEW t \in a + 1 .. b, p \in db[t].pages
  PROVE  p \in DOMAIN Index(infos) /\ t <= Index(infos)[p].max
<1>0. Len(db) \in Nat
  BY LenType, Zenon
<1> DEFINE S == {u \in a + 1 .. b : p \in db[u].pages}
<1>1. S \in SUBSET Nat /\ t \in S /\ b \in Nat /\ \A u \in S : u <= b
  BY <1>0
<1> HIDE DEF S
<1>2. PICK m \in S : \A u \in S : m >= u
  BY <1>1, Greatest, Zenon
<1> USE DEF S
<1>3. PICK j \in infos : j.min <= m /\ m <= j.max
  BY Zenon DEF Covers
<1>4. a < j.min /\ j.max <= b /\ p \in db[m].pages /\ m \in a + 1 .. b
  BY Zenon DEF Covers
<1>5. j.min \in Nat /\ j.max \in Nat /\ j \in files
  BY FileType, Zenon
<1>6. j.max \in 1 .. Len(db) /\ b \in j.max .. Len(db) /\ m \in j.min .. j.max
  BY <1>0, <1>3, <1>4, <1>5
<1>7. Untouched(p, j.max, b)
  <2> SUFFICES ASSUME NEW u \in 1 .. Len(db), j.max < u, u <= b, p \in db[u].pages
               PROVE  FALSE
    BY Zenon DEF Untouched
  <2>1. u \in a + 1 .. b /\ ~(m >= u)
    BY <1>0, <1>3, <1>4, <1>5
  <2> QED BY <2>1, <1>2, Zenon
<1>8. p \in 1 .. Commit(j.max)
  BY <1>6, <1>7, NotAdded, Zenon
<1>9. p \in FilePages(j)
  BY <1>4, <1>6, <1>8, Zenon DEF FilePages
<1>10. p \in DOMAIN Index(infos)
  BY <1>9, IndexBest, Zenon
<1>11. Best(infos, p, Index(infos)[p])
  BY <1>10, IndexBest, Zenon
<1>12. Index(infos)[p] \in files /\ j.max <= Index(infos)[p].max
  BY <1>11, <1>9, Zenon DEF Best
<1>13. Index(infos)[p].max \in Nat
  BY <1>12, FileType, Zenon
<1>14. m >= t
  BY <1>1, <1>2, Zenon
<1>15. t <= Index(infos)[p].max
  BY <1>12, <1>13, <1>14, <1>3, <1>4, <1>5, <1>0
<1> QED BY <1>10, <1>15, Zenon

LEMMA IndexSince ==
  ASSUME StoreType, FilesOK, HistoryOK, NEW infos \in SUBSET files, NEW b \in 1 .. Len(db),
         NEW a \in 0 .. b, Covers(infos, a, b)
  PROVE  Since(Index(infos), a, b)
<1>0. Len(db) \in Nat
  BY LenType, Zenon
<1> SUFFICES ASSUME NEW p \in 1 .. Commit(b)
             PROVE  \/ Named(Index(infos), p, b)
                    \/ p \notin DOMAIN Index(infos) /\ Untouched(p, a, b)
  BY Zenon DEF Since
<1>1. ASSUME NEW u \in 1 .. Len(db), a < u, u <= b, p \in db[u].pages
      PROVE  p \in DOMAIN Index(infos) /\ u <= Index(infos)[p].max
  <2>1. u \in a + 1 .. b
    BY <1>0, <1>1
  <2> QED BY <1>1, <2>1, IndexCovers, Zenon
<1>2. CASE p \notin DOMAIN Index(infos)
  BY <1>1, <1>2, Zenon DEF Untouched
<1>3. CASE p \in DOMAIN Index(infos)
  <2> DEFINE i == Index(infos)[p]
  <2>1. i \in infos
    BY <1>3, IndexBest, Zenon DEF Best
  <2>2. a < i.min /\ i.max <= b
    BY <2>1, Zenon DEF Covers
  <2>3. i.min \in Nat /\ i.max \in Nat /\ i.min <= i.max /\ 1 <= i.min
    BY <2>1, FileType, Zenon
  <2> HIDE DEF i
  <2>4. i.max \in 1 .. b /\ a < i.max
    BY <2>2, <2>3, <1>0
  <2>5. Untouched(p, i.max, b)
    <3> SUFFICES ASSUME NEW u \in 1 .. Len(db), i.max < u, u <= b, p \in db[u].pages
                 PROVE  FALSE
      BY Zenon DEF Untouched
    <3>1. a < u /\ ~(u <= i.max)
      BY <2>3, <2>4, <1>0
    <3> QED BY <3>1, <1>1, Zenon DEF i
  <2> QED BY <1>3, <2>4, <2>5, Zenon DEF i, Named
<1> QED BY <1>2, <1>3, Zenon

-----------------------------------------------------------------------------
(***************************************************************************)
(* pollLevel.                                                              *)
(***************************************************************************)

LEMMA EmptyIndex == Index({}) = Empty
  BY DEF Index, Empty

\* What the result r of a level says of the files.
Listed(r, level, previous, base) ==
  /\ r.max \in previous .. Len(db)
  /\ r.commit = IF r.max = previous THEN base ELSE Commit(r.max)
  /\ r.max = previous => r.index = Empty /\ ~r.replace
  /\ r.max # previous =>
       \E j \in files : j.level = level /\ previous < j.min /\ j.max = r.max
  /\ r.gapAt \in 0 .. MaxTX
  /\ r.gapAt # 0 => level = 0 /\ r.gapAt > r.max + 1
  /\ r.replace \in BOOLEAN /\ r.fromRoot \in BOOLEAN /\ r.failed \in BOOLEAN
  /\ r.fromRoot => previous = 0
  /\ ~r.failed /\ r.gapAt = 0 =>
       \A j \in files : j.level = level /\ previous < j.min => j.max <= r.max
  /\ Covers(Chain(level, previous), previous, r.max)
  /\ \E infos \in SUBSET Chain(level, previous) :
       /\ r.index = Index(infos)
       /\ (r.replace => r.fromRoot) => infos = Chain(level, previous)

LEMMA PollLevelLists ==
  ASSUME StoreType, FilesOK, NEW level \in {0, 1}, NEW previous \in 0 .. Len(db), NEW base
  PROVE  Listed(PollLevel(level, previous, base), level, previous, base)
<1> DEFINE found == Chain(level, previous)
           beyond == LTXFiles(level, previous + 1) \ found
           next == Min({i.min : i \in beyond})
           last == LastOf(found, previous)
           gap == beyond # {} /\ level = 0 /\ next > last + 1
           Before(i) == IF i.min = previous + 1 THEN base ELSE Commit(i.min - 1)
           resets == {i \in found : Commit(i.max) < Before(i) \/ i.min = 1}
           from == Max({0} \cup {i.min : i \in resets})
           r == PollLevel(level, previous, base)
<1>1. /\ r.max = last
      /\ r.index = Index({i \in found : i.min >= from})
      /\ r.commit = IF found = {} THEN base ELSE Commit(last)
      /\ r.gapAt = IF gap THEN next ELSE 0
      /\ r.replace = (resets # {}) /\ r.fromRoot = (from = 1)
      /\ r.failed = (beyond # {} /\ ~gap)
  BY Zenon DEF PollLevel
<1>2. /\ last \in previous .. Len(db) /\ found \subseteq LTXFiles(level, previous + 1)
      /\ Covers(found, previous, last) /\ (last = previous <=> found = {})
      /\ found # {} => \E i \in found : i.max = last
  BY ChainCovers, Zenon
<1>3. Len(db) \in Nat /\ Len(db) <= MaxTX /\ MaxTX \in Nat
  BY LenType, Zenon
<1>4. ASSUME NEW i \in LTXFiles(level, previous + 1)
      PROVE  /\ i \in files /\ i.level = level /\ previous < i.min
             /\ i.min \in 1 .. Len(db) /\ i.max \in 1 .. Len(db)
  <2>1. i \in files /\ i.level = level /\ i.min >= previous + 1
    BY Zenon DEF LTXFiles
  <2> QED BY <2>1, <1>3, FileType
<1> HIDE DEF found, r
<1>5. resets \subseteq found /\ resets \subseteq LTXFiles(level, previous + 1)
  BY <1>2, Zenon
<1> HIDE DEF resets
<1>6. /\ from \in {0} \cup {i.min : i \in resets}
      /\ \A i \in resets : from >= i.min
  <2> DEFINE S == {0} \cup {i.min : i \in resets}
  <2>1. \A i \in resets : i.min \in Nat /\ i.min <= Len(db)
    BY <1>3, <1>4, <1>5
  <2>2. S \in SUBSET Nat /\ S # {} /\ \A s \in S : s <= Len(db)
    BY <2>1, <1>3
  <2>3. Max(S) \in S /\ \A s \in S : Max(S) >= s
    BY <2>2, <1>3, MaxOf, Zenon
  <2> QED BY <2>3, Zenon
<1> HIDE DEF from
<1>7. from = 1 => previous = 0
  <2> SUFFICES ASSUME from = 1 PROVE previous = 0
    BY Zenon
  <2>1. PICK i \in resets : i.min = 1
    BY <1>6
  <2> QED BY <2>1, <1>4, <1>5, <1>3
<1>8. gap => next \in 0 .. MaxTX
  <2> SUFFICES ASSUME beyond # {} PROVE next \in 0 .. MaxTX
    BY Zenon
  <2> DEFINE S == {i.min : i \in beyond}
  <2>1. \A i \in beyond : i.min \in Nat /\ i.min \in 0 .. MaxTX
    BY <1>3, <1>4
  <2>2. S \in SUBSET Nat /\ S # {} /\ \A s \in S : s \in 0 .. MaxTX
    BY <2>1, Zenon
  <2>3. Min(S) \in S
    BY <2>2, MinOf, Zenon
  <2> QED BY <2>2, <2>3, Zenon
<1>9. ~r.failed /\ r.gapAt = 0 =>
        \A j \in files : j.level = level /\ previous < j.min => j.max <= r.max
  <2> SUFFICES ASSUME ~r.failed, r.gapAt = 0, NEW j \in files, j.level = level,
                      previous < j.min
               PROVE  j.max <= r.max
    BY Zenon
  <2>1. j.min \in Nat
    BY FileType, Zenon
  <2>2. j.min >= previous + 1
    BY <2>1, <1>3
  <2>3. j \in LTXFiles(level, previous + 1)
    BY <2>2, Zenon DEF LTXFiles
  <2>4. beyond = {}
    <3>1. CASE gap
      <4>1. next = 0 /\ next > last + 1
        BY <3>1, <1>1, Zenon
      <4> QED BY <4>1, <1>2, <1>3
    <3> QED BY <3>1, <1>1, Zenon
  <2>5. j \in found
    BY <2>3, <2>4, Zenon
  <2> QED BY <2>5, <1>1, <1>2, Zenon DEF Covers
<1>10. ASSUME r.max = previous PROVE r.index = Empty /\ ~r.replace
  <2>1. found = {}
    BY <1>10, <1>1, <1>2, Zenon
  <2>2. {i \in found : i.min >= from} = {} /\ resets = {}
    BY <2>1, <1>5, Zenon
  <2> QED BY <2>2, <1>1, EmptyIndex, Zenon
<1>11. ASSUME r.max # previous
       PROVE  \E j \in files : j.level = level /\ previous < j.min /\ j.max = r.max
  BY <1>11, <1>1, <1>2, <1>4, Zenon
<1>12. ASSUME r.replace => r.fromRoot
       PROVE  {i \in found : i.min >= from} = found
  <2>1. from = 0 \/ from = 1
    BY <1>12, <1>1, <1>6, Zenon
  <2>2. \A i \in found : i.min >= from
    BY <2>1, <1>2, <1>4, <1>3
  <2> QED BY <2>2, Zenon
<1>13. r.gapAt \in 0 .. MaxTX /\ (r.gapAt # 0 => level = 0 /\ r.gapAt > r.max + 1)
  BY <1>1, <1>8, <1>3
<1>14. r.commit = IF r.max = previous THEN base ELSE Commit(r.max)
  BY <1>1, <1>2, Zenon
<1>15. \E infos \in SUBSET found :
         r.index = Index(infos) /\ ((r.replace => r.fromRoot) => infos = found)
  BY <1>1, <1>12, Zenon
<1>16. r.replace \in BOOLEAN /\ r.fromRoot \in BOOLEAN /\ r.failed \in BOOLEAN
  BY <1>1, Zenon
<1> QED
  BY <1>1, <1>2, <1>7, <1>9, <1>10, <1>11, <1>13, <1>14, <1>15, <1>16, Zenon
  DEF Listed, r, found

-----------------------------------------------------------------------------
(***************************************************************************)
(* CalcRestorePlan.                                                        *)
(***************************************************************************)

LEMMA LastIs ==
  ASSUME StoreType, FilesOK, NEW infos \in SUBSET files, NEW k \in infos,
         \A i \in infos : i.max <= k.max
  PROVE  LastOf(infos, 0) = k.max
<1>1. Len(db) \in Nat /\ infos \in SUBSET FileInfo
  BY LenType, Zenon DEF StoreType
<1>2. \A i \in infos : i.max <= Len(db) /\ i.max \in Nat /\ 1 <= i.max
  <2> SUFFICES ASSUME NEW i \in infos
               PROVE  i.max <= Len(db) /\ i.max \in Nat /\ 1 <= i.max
    BY Zenon
  <2>1. i \in files
    BY Zenon
  <2> QED BY <2>1, <1>1, FileType
<1>3. 0 \in 0 .. Len(db)
  BY <1>1
<1>4. /\ LastOf(infos, 0) \in 0 .. Len(db) /\ k.max <= LastOf(infos, 0)
      /\ LastOf(infos, 0) = 0 \/ \E i \in infos : i.max = LastOf(infos, 0)
  BY <1>1, <1>2, <1>3, LastOfFiles, Zenon
<1> QED BY <1>1, <1>2, <1>4

Root(roots, i) ==
  /\ i \in roots
  /\ \A j \in roots : i.max > j.max \/ (i.max = j.max /\ i.level >= j.level)

LEMMA HasRoot ==
  ASSUME StoreType, FilesOK, NEW roots \in SUBSET files, roots # {}
  PROVE  \E i \in roots : Root(roots, i)
<1> DEFINE S == {i.max : i \in roots}
<1>0. Len(db) \in Nat
  BY LenType, Zenon
<1>1. \A i \in roots : /\ i.max \in Nat /\ i.max <= Len(db) /\ i.level \in {0, 1}
  BY FileType, Zenon
<1>2. S \in SUBSET Nat /\ S # {} /\ \A s \in S : s <= Len(db)
  BY <1>1, Zenon
<1>3. PICK m \in S : \A s \in S : m >= s
  BY <1>0, <1>2, Greatest, Zenon
<1>4. PICK k \in roots : k.max = m
  BY Zenon
<1>5. \A j \in roots : k.max >= j.max
  BY <1>3, <1>4, Zenon
<1>6. CASE \E i \in roots : i.max = k.max /\ i.level = 1
  <2>1. PICK i \in roots : i.max = k.max /\ i.level = 1
    BY <1>6, Zenon
  <2>2. \A j \in roots : i.max > j.max \/ (i.max = j.max /\ i.level >= j.level)
    BY <1>1, <1>5, <2>1
  <2> QED BY <2>2, Zenon DEF Root
<1>7. CASE \A i \in roots : i.max = k.max => i.level = 0
  <2>1. \A j \in roots : k.max > j.max \/ (k.max = j.max /\ k.level >= j.level)
    BY <1>1, <1>5, <1>7
  <2> QED BY <2>1, Zenon DEF Root
<1> QED BY <1>1, <1>6, <1>7, Zenon

\* The chain of level 1 has all of level 1.
LEMMA Level1Reached ==
  ASSUME StoreType, FilesOK, NEW root \in files, root.min = 1, root.level = 1,
         NEW i \in files, i.level = 1
  PROVE  i.max <= LastOf(Chain(1, root.max), root.max)
<1>0. Len(db) \in Nat
  BY LenType, Zenon
<1>1. /\ root.max \in 0 .. Len(db) /\ root.max \in Nat /\ 1 <= root.max
      /\ i.max \in Nat /\ i.max <= Len(db) /\ i.min \in Nat /\ i.min <= i.max
  BY FileType, <1>0
<1>2. LastOf(Chain(1, root.max), root.max) \in root.max .. Len(db)
  BY <1>1, ChainCovers, Zenon
<1>3. CASE i.max <= root.max
  BY <1>0, <1>1, <1>2, <1>3
<1>4. CASE root.max < i.max
  <2>1. ASSUME NEW v \in root.max + 1 .. i.max
        PROVE  \E k \in LTXFiles(1, root.max + 1) :
                 k.min <= v /\ v <= k.max /\ k.max <= i.max
    <3>1. v \in 1 .. i.max
      BY <1>0, <1>1
    <3>2. PICK k \in files : k.level = 1 /\ k.min <= v /\ v <= k.max
      BY <3>1, Zenon DEF FilesOK
    <3>3. k.min \in Nat /\ k.max \in Nat /\ 1 <= k.min /\ k.min <= k.max
      BY FileType, Zenon
    <3>4. k = root \/ k.max < root.min \/ root.max < k.min
      BY <3>2, Zenon DEF FilesOK
    <3>5. k.min >= root.max + 1
      BY <1>0, <1>1, <3>2, <3>3, <3>4
    <3>6. k = i \/ k.max < i.min \/ i.max < k.min
      BY <3>2, Zenon DEF FilesOK
    <3>7. k.max <= i.max
      BY <1>0, <1>1, <3>2, <3>3, <3>6
    <3> QED BY <3>2, <3>5, <3>7, Zenon DEF LTXFiles
  <2>2. i.max \in root.max .. Len(db)
    BY <1>0, <1>1, <1>4
  <2>3. Reached(1, root.max, i.max)
    BY <2>1, Zenon DEF Reached
  <2> QED BY <1>1, <2>2, <2>3, ChainReaches, Zenon
<1> QED BY <1>1, <1>3, <1>4

\* The plan is one chain over the whole history, with all of level 1.
LEMMA PlanCovers ==
  ASSUME StoreType, FilesOK
  PROVE  /\ RestorePlan \in SUBSET files /\ RestorePlan # {}
         /\ Covers(RestorePlan, 0, Len(db))
         /\ LastOf(RestorePlan, 0) = Len(db)
         /\ \E last1 \in 0 .. Len(db) :
              /\ LastOf({i \in RestorePlan : i.level = 1}, 0) = last1
              /\ \A i \in files : i.level = 1 => i.max <= last1
              /\ last1 = 0 \/ \E i \in files : i.level = 1 /\ i.max = last1
<1> DEFINE roots == {i \in files : i.min = 1}
           root == CHOOSE i \in roots : \A j \in roots :
                     i.max > j.max \/ (i.max = j.max /\ i.level >= j.level)
           chain == Chain(1, root.max)
           one == {root} \cup chain
           last1 == LastOf(chain, root.max)
           zero == Chain(0, last1)
<1>0. Len(db) \in Nat /\ 1 <= Len(db)
  BY LenType, Zenon
<1>1. roots # {}
  <2>1. 1 \in 1 .. Len(db)
    BY <1>0
  <2>2. PICK i \in files : i.min <= 1 /\ 1 <= i.max
    BY <2>1, Zenon DEF FilesOK
  <2>3. i.min = 1
    BY <2>2, FileType
  <2> QED BY <2>3, Zenon
<1>2. Root(roots, root)
  <2>1. \E i \in roots : Root(roots, i)
    BY <1>1, HasRoot, Zenon
  <2> QED BY <2>1, Zenon DEF Root
<1>3. RestorePlan = one \cup Chain(0, LastOf(one, 0))
  BY <1>1, Zenon DEF RestorePlan
<1>4. root \in files /\ root.min = 1
  BY <1>2, Zenon DEF Root
<1>5. \A j \in roots : root.max > j.max \/ (root.max = j.max /\ root.level >= j.level)
  BY <1>2, Zenon DEF Root
<1> HIDE DEF root
<1>6. root.max \in 0 .. Len(db) /\ root.max \in Nat /\ 1 <= root.max /\ root.level \in {0, 1}
  BY <1>0, <1>4, FileType
<1>7. /\ last1 \in root.max .. Len(db) /\ chain \subseteq LTXFiles(1, root.max + 1)
      /\ Covers(chain, root.max, last1) /\ (last1 = root.max <=> chain = {})
      /\ chain # {} => \E i \in chain : i.max = last1
  BY <1>6, ChainCovers, Zenon
<1>8. \A i \in chain : i \in files /\ i.level = 1
  BY <1>7, Zenon DEF LTXFiles
<1> HIDE DEF chain
<1>9. PICK k \in one : k.max = last1 /\ (chain # {} => k.level = 1) /\ (chain = {} => k = root)
  <2>1. CASE chain = {}
    <3>1. root.max = last1
      BY <2>1, <1>7, Zenon
    <3> QED BY <3>1, <2>1, Zenon
  <2>2. CASE chain # {}
    BY <2>2, <1>7, <1>8, Zenon
  <2> QED BY <2>1, <2>2, Zenon
<1> HIDE DEF last1
<1>10. last1 \in 0 .. Len(db) /\ last1 \in Nat /\ 1 <= last1
  BY <1>0, <1>6, <1>7
<1>11. \A i \in one : i \in files /\ i.max <= last1
  <2>1. root.max <= last1
    BY <1>6, <1>7, <1>0
  <2> QED BY <2>1, <1>4, <1>7, <1>8, Zenon DEF Covers
<1>12. LastOf(one, 0) = last1
  BY <1>9, <1>11, LastIs, Zenon
<1>13. ASSUME NEW i \in files, i.level = 1
       PROVE  i.max <= last1 /\ root.level = 1
  <2>1. CASE root.level = 1
    BY <2>1, <1>4, <1>13, Level1Reached, Zenon DEF chain, last1
  <2>2. CASE root.level = 0
    <3>1. root.max = 1
      BY <2>2, <1>4, Zenon DEF FilesOK
    <3>2. 1 \in 1 .. i.max
      BY FileType
    <3>3. PICK j \in files : j.level = 1 /\ j.min <= 1 /\ 1 <= j.max
      BY <3>2, <1>13, Zenon DEF FilesOK
    <3>4. j.min = 1 /\ j.max \in Nat
      BY <3>3, FileType
    <3>5. root.max > j.max \/ (root.max = j.max /\ root.level >= j.level)
      BY <3>4, <1>5, Zenon
    <3>6. FALSE
      BY <3>1, <3>3, <3>4, <3>5, <2>2
    <3> QED BY <3>6, Zenon
  <2> QED BY <2>1, <2>2, <1>6, Zenon
<1>14. /\ LastOf(zero, last1) \in last1 .. Len(db) /\ zero \subseteq LTXFiles(0, last1 + 1)
       /\ Covers(zero, last1, LastOf(zero, last1))
  BY <1>10, ChainCovers, Zenon
<1>15. LastOf(zero, last1) = Len(db)
  <2>1. ASSUME NEW v \in last1 + 1 .. Len(db)
        PROVE  \E i \in LTXFiles(0, last1 + 1) :
                 i.min <= v /\ v <= i.max /\ i.max <= Len(db)
    <3>1. v \in 1 .. Len(db) /\ v \in Nat /\ last1 < v
      BY <1>0, <1>10
    <3>2. PICK i \in files : i.min <= v /\ v <= i.max
      BY <3>1, Zenon DEF FilesOK
    <3>3. /\ i.min \in Nat /\ i.max \in Nat /\ i.max <= Len(db) /\ i.level \in {0, 1}
      BY FileType, Zenon
    <3>4. i.level # 1
      <4>1. ~(i.max <= last1)
        BY <3>1, <3>2, <3>3, <1>10
      <4> QED BY <4>1, <1>13, Zenon
    <3>5. i.level = 0
      BY <3>3, <3>4, Zenon
    <3>6. i.min = i.max
      BY <3>5, Zenon DEF FilesOK
    <3>7. i.min >= last1 + 1
      BY <3>1, <3>2, <3>3, <3>6, <1>10
    <3> QED BY <3>2, <3>3, <3>5, <3>7, Zenon DEF LTXFiles
  <2>2. Reached(0, last1, Len(db))
    BY <2>1, Zenon DEF Reached
  <2>3. Len(db) \in last1 .. Len(db)
    BY <1>0, <1>10
  <2>4. Len(db) <= LastOf(zero, last1)
    BY <2>2, <2>3, <1>10, ChainReaches, Zenon
  <2> QED BY <2>4, <1>0, <1>10, <1>14
<1>16. \A i \in zero : i \in files /\ i.level = 0
  BY <1>14, Zenon DEF LTXFiles
<1> HIDE DEF zero
<1>17. RestorePlan = one \cup zero
  BY <1>3, <1>12, Zenon DEF zero
<1>18. RestorePlan \in SUBSET files /\ RestorePlan # {}
  BY <1>11, <1>16, <1>17, Zenon
<1>19. Covers(RestorePlan, 0, Len(db))
  <2>1. \A i \in RestorePlan : 0 < i.min /\ i.max <= Len(db)
    <3> SUFFICES ASSUME NEW i \in RestorePlan PROVE 0 < i.min /\ i.max <= Len(db)
      BY Zenon
    <3>1. i \in files
      BY <1>18, Zenon
    <3> QED BY <3>1, FileType, <1>0
  <2>2. ASSUME NEW v \in 0 + 1 .. Len(db)
        PROVE  \E i \in RestorePlan : i.min <= v /\ v <= i.max
    <3>0. v \in Nat /\ 1 <= v /\ v <= Len(db)
      BY <1>0
    <3>1. CASE v <= root.max
      <4>1. root.min <= v
        BY <3>0, <1>4
      <4> QED BY <4>1, <3>1, <1>17, Zenon
    <3>2. CASE root.max < v /\ v <= last1
      <4>1. v \in root.max + 1 .. last1
        BY <3>0, <3>2, <1>6, <1>10
      <4> QED BY <4>1, <1>7, <1>17, Zenon DEF Covers
    <3>3. CASE last1 < v
      <4>1. v \in last1 + 1 .. LastOf(zero, last1)
        BY <3>0, <3>3, <1>10, <1>15
      <4> QED BY <4>1, <1>14, <1>17, Zenon DEF Covers, zero
    <3> QED BY <3>0, <3>1, <3>2, <3>3, <1>6, <1>10
  <2> QED BY <2>1, <2>2, Zenon DEF Covers
<1>20. LastOf(RestorePlan, 0) = Len(db)
  <2>1. Len(db) \in 0 + 1 .. Len(db)
    BY <1>0
  <2>2. PICK i \in RestorePlan : Len(db) <= i.max
    BY <2>1, <1>19, Zenon DEF Covers
  <2>3. i \in files
    BY <1>18, Zenon
  <2>4. i.max = Len(db)
    BY <2>2, <2>3, <1>0, FileType
  <2>5. \A j \in RestorePlan : j.max <= i.max
    BY <2>4, <1>19, Zenon DEF Covers
  <2> QED BY <2>4, <2>5, <1>18, LastIs, Zenon
<1>21. \E last \in 0 .. Len(db) :
         /\ LastOf({i \in RestorePlan : i.level = 1}, 0) = last
         /\ \A i \in files : i.level = 1 => i.max <= last
         /\ last = 0 \/ \E i \in files : i.level = 1 /\ i.max = last
  <2> DEFINE L1 == {i \in RestorePlan : i.level = 1}
  <2>1. CASE root.level = 1
    <3>1. k \in L1 /\ k.max = last1 /\ k \in files /\ k.level = 1
      BY <2>1, <1>9, <1>11, <1>17, Zenon
    <3>2. L1 \in SUBSET files /\ \A i \in L1 : i.max <= k.max
      BY <3>1, <1>13, <1>18, Zenon
    <3>3. LastOf(L1, 0) = last1
      BY <3>1, <3>2, LastIs, Zenon
    <3> QED BY <3>1, <3>3, <1>10, <1>13, Zenon
  <2>2. CASE root.level # 1
    <3>1. \A i \in files : i.level # 1
      BY <2>2, <1>13, Zenon
    <3>2. L1 = {}
      BY <3>1, <1>18, Zenon
    <3>3. L1 \in SUBSET FileInfo /\ (\A i \in L1 : i.max <= Len(db)) /\ 0 \in 0 .. Len(db)
      BY <3>2, <1>0
    <3>4. LastOf(L1, 0) = 0
      BY <3>2, <3>3, <1>0, LastOfFiles, Zenon
    <3> QED BY <3>1, <3>3, <3>4, Zenon
  <2> QED BY <2>1, <2>2, Zenon
<1> QED BY <1>18, <1>19, <1>20, <1>21, Zenon

-----------------------------------------------------------------------------
(***************************************************************************)
(* The primary.                                                            *)
(***************************************************************************)

LEMMA MaxL1Is ==
  ASSUME StoreType, FilesOK
  PROVE  /\ MaxL1 \in 0 .. Len(db)
         /\ \A i \in files : i.level = 1 => i.max <= MaxL1
         /\ MaxL1 = 0 \/ \E i \in files : i.level = 1 /\ i.max = MaxL1
<1> DEFINE L1 == {j \in files : j.level = 1}
<1>0. Len(db) \in Nat /\ 0 \in 0 .. Len(db)
  BY LenType
<1>1. MaxL1 = LastOf(L1, 0)
  BY Zenon DEF MaxL1, LastOf
<1>2. L1 \in SUBSET FileInfo /\ \A i \in L1 : i.max <= Len(db)
  BY Zenon DEF StoreType, FilesOK
<1> HIDE DEF L1
<1>3. /\ LastOf(L1, 0) \in 0 .. Len(db) /\ \A i \in L1 : i.max <= LastOf(L1, 0)
      /\ LastOf(L1, 0) = 0 \/ \E i \in L1 : i.max = LastOf(L1, 0)
  BY <1>0, <1>2, LastOfFiles, Zenon
<1> QED BY <1>1, <1>3, Zenon DEF L1

\* The primary adds to the history and to the files, and leaves the poller.
Primary ==
  /\ StoreType' /\ FilesOK' /\ Len(db) <= Len(db')
  /\ moved' = (poll.pc # "idle") /\ UNCHANGED <<cursor, poll>>
  /\ \A c \in 0 .. Len(db) : Aligned(c) => Aligned(c)'

LEMMA InfoType ==
  ASSUME NEW level \in {0, 1}, NEW min \in 1 .. MaxTX, NEW max \in 1 .. MaxTX
  PROVE  /\ Info(level, min, max) \in FileInfo
         /\ Info(level, min, max).level = level /\ Info(level, min, max).min = min
         /\ Info(level, min, max).max = max
BY Zenon DEF Info, FileInfo

LEMMA TransactionPrimary ==
  ASSUME StoreType, FilesOK, NEW pages \in SUBSET Page, NEW commit \in Page,
         Transaction(pages, commit)
  PROVE  Primary
<1> DEFINE n == Len(db)
           tx == [pages |-> pages, commit |-> commit]
           new == Info(0, n + 1, n + 1)
<1>0. /\ n < MaxTX /\ db' = Append(db, tx) /\ files' = files \cup {new}
      /\ moved' = (poll.pc # "idle") /\ UNCHANGED <<cursor, poll>>
  BY Zenon DEF Transaction
<1>1. n \in Nat /\ 1 <= n /\ MaxTX \in Nat
  BY LenType, Zenon
<1>2. /\ db \in Seq([pages : SUBSET Page, commit : Page]) /\ files \subseteq FileInfo
  BY Zenon DEF StoreType
<1>3. tx \in [pages : SUBSET Page, commit : Page]
  BY Zenon
<1> HIDE DEF tx
<1>4. db' \in Seq([pages : SUBSET Page, commit : Page]) /\ Len(db') = n + 1
  BY <1>0, <1>2, <1>3
<1> HIDE DEF n
<1>5. n + 1 \in 1 .. MaxTX
  BY <1>0, <1>1
<1>6. new \in FileInfo /\ new.level = 0 /\ new.min = n + 1 /\ new.max = n + 1
  BY <1>5, InfoType
<1> HIDE DEF new
<1>7. StoreType'
  <2>1. files' \subseteq FileInfo
    BY <1>0, <1>2, <1>6, Zenon
  <2>2. Len(db') \in 1 .. MaxTX
    BY <1>4, <1>5, Zenon
  <2> QED BY <1>4, <2>1, <2>2, Zenon DEF StoreType
<1>8. FilesOK'
  <2>1. \A i \in files' : i.min <= i.max /\ i.max <= Len(db')
    <3>1. new.min <= new.max /\ new.max <= Len(db')
      BY <1>1, <1>4, <1>6
    <3>2. ASSUME NEW i \in files PROVE i.min <= i.max /\ i.max <= Len(db')
      BY FileType, <1>1, <1>4 DEF n
    <3> QED BY <3>1, <3>2, <1>0, Zenon
  <2>2. \A i \in files' : i.level = 0 => i.min = i.max
    BY <1>0, <1>6, Zenon DEF FilesOK
  <2>3. \A i, j \in files' :
          i.level = 1 /\ j.level = 1 => i = j \/ i.max < j.min \/ j.max < i.min
    <3>1. new.level # 1
      BY <1>6
    <3> QED BY <1>0, <3>1, Zenon DEF FilesOK
  <2>4. \A t \in 1 .. Len(db') : \E i \in files' : i.min <= t /\ t <= i.max
    <3> SUFFICES ASSUME NEW t \in 1 .. Len(db')
                 PROVE  \E i \in files' : i.min <= t /\ t <= i.max
      BY Zenon
    <3>1. CASE t = n + 1
      <4>1. new.min <= t /\ t <= new.max
        BY <3>1, <1>1, <1>6
      <4> QED BY <4>1, <1>0, Zenon
    <3>2. CASE t # n + 1
      <4>1. t \in 1 .. Len(db)
        BY <3>2, <1>1, <1>4 DEF n
      <4> QED BY <4>1, <1>0, Zenon DEF FilesOK
    <3> QED BY <3>1, <3>2, Zenon
  <2>5. \A j \in files' : \A t \in 1 .. j.max :
          j.level = 1 => \E i \in files' : i.level = 1 /\ i.min <= t /\ t <= i.max
    <3>1. new.level # 1
      BY <1>6
    <3> QED BY <3>1, <1>0, Zenon DEF FilesOK
  <2> QED BY <2>1, <2>2, <2>3, <2>4, <2>5, Zenon DEF FilesOK
<1>9. Len(db) <= Len(db')
  BY <1>1, <1>4 DEF n
<1>10. \A c \in 0 .. Len(db) : Aligned(c) => Aligned(c)'
  <2>1. new.level # 1
    BY <1>6
  <2> QED BY <2>1, <1>0, Zenon DEF Aligned
<1> QED BY <1>0, <1>7, <1>8, <1>9, <1>10, Zenon DEF Primary

LEMMA CompactPrimary ==
  ASSUME StoreType, FilesOK, NEW n \in 1 .. Len(db), Compact(n)
  PROVE  Primary
<1> DEFINE m == MaxL1
           new == Info(1, m + 1, n)
<1>0. /\ n > m /\ files' = files \cup {new} /\ UNCHANGED <<db, cursor, poll>>
      /\ moved' = (poll.pc # "idle")
  BY Zenon DEF Compact
<1>1. Len(db) \in Nat /\ Len(db) <= MaxTX /\ MaxTX \in Nat
  BY LenType, Zenon
<1>2. /\ m \in 0 .. Len(db) /\ \A i \in files : i.level = 1 => i.max <= m
      /\ m = 0 \/ \E i \in files : i.level = 1 /\ i.max = m
  BY MaxL1Is, Zenon
<1> HIDE DEF m
<1>3. m + 1 \in 1 .. MaxTX /\ n \in 1 .. MaxTX /\ n \in Nat /\ m \in Nat
  BY <1>0, <1>1, <1>2
<1>4. new \in FileInfo /\ new.level = 1 /\ new.min = m + 1 /\ new.max = n
  BY <1>3, InfoType, Zenon
<1> HIDE DEF new
<1>5. StoreType'
  BY <1>0, <1>4, Zenon DEF StoreType
<1>6. ASSUME NEW i \in files, i.level = 1
      PROVE  i.max < new.min
  BY <1>2, <1>3, <1>4, <1>6, FileType
<1>7. FilesOK'
  <2>1. \A i \in files' : i.min <= i.max /\ i.max <= Len(db')
    <3>1. new.min <= new.max /\ new.max <= Len(db)
      BY <1>0, <1>1, <1>3, <1>4
    <3> QED BY <3>1, <1>0, Zenon DEF FilesOK
  <2>2. \A i \in files' : i.level = 0 => i.min = i.max
    <3>1. new.level # 0
      BY <1>4
    <3> QED BY <3>1, <1>0, Zenon DEF FilesOK
  <2>3. \A i, j \in files' :
          i.level = 1 /\ j.level = 1 => i = j \/ i.max < j.min \/ j.max < i.min
    BY <1>0, <1>6, Zenon DEF FilesOK
  <2>4. \A t \in 1 .. Len(db') : \E i \in files' : i.min <= t /\ t <= i.max
    BY <1>0, Zenon DEF FilesOK
  <2>5. ASSUME NEW t \in 1 .. n
        PROVE  \E i \in files' : i.level = 1 /\ i.min <= t /\ t <= i.max
    <3>1. CASE m < t
      <4>1. new.min <= t /\ t <= new.max
        BY <3>1, <1>3, <1>4
      <4> QED BY <4>1, <1>0, <1>4, Zenon
    <3>2. CASE t <= m
      <4>1. m # 0 /\ t \in 1 .. m
        BY <3>2, <1>3
      <4>2. PICK j \in files : j.level = 1 /\ j.max = m
        BY <4>1, <1>2, Zenon
      <4> QED BY <4>1, <4>2, <1>0, Zenon DEF FilesOK
    <3> QED BY <3>1, <3>2, <1>3
  <2>6. \A j \in files' : \A t \in 1 .. j.max :
          j.level = 1 => \E i \in files' : i.level = 1 /\ i.min <= t /\ t <= i.max
    BY <2>5, <1>0, <1>4, Zenon DEF FilesOK
  <2> QED BY <2>1, <2>2, <2>3, <2>4, <2>6, Zenon DEF FilesOK
<1>8. Len(db) <= Len(db')
  BY <1>0, <1>1
<1>9. ASSUME NEW c \in 0 .. Len(db), Aligned(c)
      PROVE  Aligned(c)'
  <2>1. c <= m
    <3>1. CASE c = 0
      BY <3>1, <1>3
    <3>2. ASSUME NEW j \in files, j.level = 1, c <= j.max
          PROVE  c <= m
      BY <3>2, <1>2, <1>3, <1>1, FileType
    <3> QED BY <3>1, <3>2, <1>9, Zenon DEF Aligned
  <2>2. ~(new.min <= c)
    BY <2>1, <1>3, <1>4, <1>1
  <2> QED BY <2>2, <1>0, <1>9, Zenon DEF Aligned
<1> QED BY <1>0, <1>5, <1>7, <1>8, <1>9, Zenon DEF Primary

LEMMA ExpirePrimary ==
  ASSUME StoreType, FilesOK, Expire
  PROVE  Primary
<1> DEFINE m == MaxL1
<1>0. /\ files' = {i \in files : i.level = 0 => i.max > m} /\ UNCHANGED <<db, cursor, poll>>
      /\ moved' = (poll.pc # "idle")
  BY Zenon DEF Expire
<1>1. Len(db) \in Nat
  BY LenType, Zenon
<1>2. m = 0 \/ \E i \in files : i.level = 1 /\ i.max = m
  BY MaxL1Is, Zenon
<1>3. m \in Nat
  <2>1. m \in 0 .. Len(db)
    BY MaxL1Is, Zenon
  <2> QED BY <2>1, <1>1
<1> HIDE DEF m
<1>4. files' \subseteq files /\ \A i \in files : i.level = 1 => i \in files'
  <2>1. \A i \in files : i.level = 1 => ~(i.level = 0)
    OBVIOUS
  <2> QED BY <2>1, <1>0, Zenon
<1>5. StoreType'
  BY <1>0, <1>4, Zenon DEF StoreType
<1>6. FilesOK'
  <2>1. ASSUME NEW t \in 1 .. Len(db)
        PROVE  \E i \in files' : i.min <= t /\ t <= i.max
    <3>1. CASE t <= m
      <4>1. m # 0 /\ t \in 1 .. m
        BY <3>1, <1>3
      <4>2. PICK j \in files : j.level = 1 /\ j.max = m
        BY <4>1, <1>2, Zenon
      <4>3. PICK i \in files : i.level = 1 /\ i.min <= t /\ t <= i.max
        BY <4>1, <4>2, Zenon DEF FilesOK
      <4> QED BY <4>3, <1>4, Zenon
    <3>2. CASE m < t
      <4>1. PICK i \in files : i.min <= t /\ t <= i.max
        BY Zenon DEF FilesOK
      <4>2. i.max > m
        BY <4>1, <3>2, <1>1, <1>3, FileType
      <4> QED BY <4>1, <4>2, <1>0, Zenon
    <3> QED BY <3>1, <3>2, <1>3, <1>1
  <2>2. \A j \in files' : \A t \in 1 .. j.max :
          j.level = 1 => \E i \in files' : i.level = 1 /\ i.min <= t /\ t <= i.max
    BY <1>4, Zenon DEF FilesOK
  <2>3. /\ \A i \in files' : i.min <= i.max /\ i.max <= Len(db)
        /\ \A i \in files' : i.level = 0 => i.min = i.max
        /\ \A i, j \in files' :
             i.level = 1 /\ j.level = 1 => i = j \/ i.max < j.min \/ j.max < i.min
    BY <1>4, Zenon DEF FilesOK
  <2> QED BY <2>1, <2>2, <2>3, <1>0, Zenon DEF FilesOK
<1>7. Len(db) <= Len(db')
  BY <1>0, <1>1
<1>8. \A c \in 0 .. Len(db) : Aligned(c) => Aligned(c)'
  BY <1>4, Zenon DEF Aligned
<1> QED BY <1>0, <1>5, <1>6, <1>7, <1>8, Zenon DEF Primary

LEMMA SupersedePrimary ==
  ASSUME StoreType, FilesOK, Supersede
  PROVE  Primary
<1> DEFINE new == Info(1, 1, Len(db))
<1>0. /\ files' = {new} /\ UNCHANGED <<db, cursor, poll>> /\ moved' = (poll.pc # "idle")
  BY Zenon DEF Supersede
<1>1. Len(db) \in Nat /\ 1 <= Len(db) /\ Len(db) <= MaxTX /\ MaxTX \in Nat
  BY LenType, Zenon
<1>2. 1 \in 1 .. MaxTX /\ Len(db) \in 1 .. MaxTX
  BY <1>1
<1>3. new \in FileInfo /\ new.level = 1 /\ new.min = 1 /\ new.max = Len(db)
  BY <1>2, InfoType, Zenon
<1> HIDE DEF new
<1>4. StoreType'
  BY <1>0, <1>3, Zenon DEF StoreType
<1>5. FilesOK'
  <2>1. new.level # 0 /\ new.min <= new.max /\ new.max <= Len(db)
    BY <1>1, <1>3
  <2>2. \A t \in 1 .. Len(db) : new.min <= t /\ t <= new.max
    BY <1>1, <1>3
  <2> QED BY <2>1, <2>2, <1>0, <1>3, Zenon DEF FilesOK
<1>6. Len(db) <= Len(db')
  BY <1>0, <1>1
<1>7. \A c \in 0 .. Len(db) : Aligned(c)'
  <2>1. \A c \in 0 .. Len(db) : c <= new.max
    BY <1>1, <1>3
  <2> QED BY <2>1, <1>0, <1>3, Zenon DEF Aligned
<1> QED BY <1>0, <1>4, <1>5, <1>6, <1>7, Zenon DEF Primary

LEMMA PrimaryPolling ==
  ASSUME TypeOK, FilesOK, Polling, Primary
  PROVE  Polling'
<1>0. /\ Len(db) \in Nat /\ Len(db') \in Nat /\ Len(db) <= Len(db') /\ UNCHANGED <<cursor, poll>>
      /\ moved' = (poll.pc # "idle")
  <2>1. Len(db') \in 1 .. MaxTX /\ StoreType
    BY Zenon DEF Primary, TypeOK, StoreType
  <2>2. Len(db) \in Nat /\ Len(db') \in Nat
    BY <2>1, LenType
  <2> QED BY <2>2, Zenon DEF Primary
<1>1. ASSUME NEW pos \in Nat, NEW max1 \in Nat, pos <= Len(db), max1 <= pos, Aligned(max1)
      PROVE  pos <= Len(db') /\ Aligned(max1)'
  <2>1. max1 \in 0 .. Len(db) /\ pos <= Len(db')
    BY <1>0, <1>1
  <2> QED BY <2>1, <1>1, Zenon DEF Primary
<1>2. Placed(cursor)'
  <2>1. cursor.pos \in Nat /\ cursor.max1 \in Nat
    BY ReplicaBounds DEF TypeOK, PollType
  <2>2. PICK pos \in Nat, max1 \in Nat : pos = cursor.pos /\ max1 = cursor.max1
    BY <2>1, Zenon
  <2>3. pos <= Len(db') /\ Aligned(max1)' /\ max1 <= pos
    BY <2>2, <1>1, Zenon DEF Polling, Placed
  <2>4. pos = cursor'.pos /\ max1 = cursor'.max1
    BY <2>2, <1>0, Zenon
  <2> QED BY <2>3, <2>4, Zenon DEF Placed, Aligned
<1>3. UpdateOK'
  <2> SUFFICES ASSUME poll'.pc \in {"detect", "stage"}
               PROVE  Placed(poll.update)'
    BY <1>0, Zenon DEF UpdateOK
  <2>0. poll.update \in Update /\ Placed(poll.update)
    BY <1>0, Zenon DEF TypeOK, PollType, Polling, UpdateOK
  <2>1. poll.update.pos \in Nat /\ poll.update.max1 \in Nat
    BY <2>0, ReplicaBounds DEF Update
  <2>2. PICK pos \in Nat, max1 \in Nat : pos = poll.update.pos /\ max1 = poll.update.max1
    BY <2>1, Zenon
  <2>3. pos <= Len(db') /\ Aligned(max1)' /\ max1 <= pos
    BY <2>0, <2>2, <1>1, Zenon DEF Placed
  <2>4. pos = poll'.update.pos /\ max1 = poll'.update.max1
    BY <2>2, <1>0, Zenon
  <2> QED BY <2>3, <2>4, Zenon DEF Placed, Aligned
<1>4. Level0OK'
  <2> SUFFICES ASSUME poll.pc = "l1"
               PROVE  Level0OK'
    BY <1>0, Zenon DEF Level0OK
  <2>1. moved'
    <3>1. poll.pc # "idle"
      OBVIOUS
    <3> QED BY <1>0, <3>1, Zenon
  <2>2. poll.l0.max \in Nat /\ poll.l0.max <= Len(db)
    <3>1. poll.l0 \in Level0Result
      BY Zenon DEF TypeOK, PollType
    <3>2. poll.l0.max \in Nat
      BY <3>1, ReplicaBounds DEF Level0Result
    <3> QED BY <3>2, Zenon DEF Polling, Level0OK
  <2>3. poll.l0.max <= Len(db')
    BY <2>2, <1>0
  <2> QED BY <1>0, <2>1, <2>3, Zenon DEF Polling, Level0OK
<1>5. DetectOK' /\ NoSilentStall'
  <2>1. poll.pc = "detect" \/ poll.pc = "stage" => moved'
    <3>1. poll.pc = "detect" \/ poll.pc = "stage" => poll.pc # "idle"
      OBVIOUS
    <3> QED BY <1>0, <3>1, Zenon
  <2> QED BY <1>0, <2>1, Zenon DEF DetectOK, NoSilentStall
<1> QED BY <1>2, <1>3, <1>4, <1>5, Zenon DEF Polling

-----------------------------------------------------------------------------
(***************************************************************************)
(* The steps of a poll.                                                    *)
(***************************************************************************)

LEMMA CursorType ==
  ASSUME TypeOK, Placed(cursor)
  PROVE  /\ cursor.pos \in Nat /\ cursor.max1 \in Nat /\ cursor.commit \in Page
         /\ cursor.pos \in 1 .. Len(db) /\ cursor.max1 \in 0 .. Len(db)
         /\ cursor.max1 <= cursor.pos
         /\ cursor = [pos |-> cursor.pos, max1 |-> cursor.max1, commit |-> cursor.commit]
<1>1. StoreType /\ cursor \in [pos : 1 .. MaxTX, max1 : 0 .. MaxTX, commit : Page]
  BY Zenon DEF TypeOK, PollType
<1>2. /\ cursor.pos \in 1 .. MaxTX /\ cursor.max1 \in 0 .. MaxTX /\ cursor.commit \in Page
      /\ cursor = [pos |-> cursor.pos, max1 |-> cursor.max1, commit |-> cursor.commit]
  BY <1>1, Zenon
<1>3. cursor.pos <= Len(db) /\ cursor.max1 <= cursor.pos
  BY Zenon DEF Placed
<1> QED BY <1>1, <1>2, <1>3, LenType

LEMMA LevelType ==
  ASSUME StoreType, FilesOK, NEW level \in {0, 1}, NEW previous \in 0 .. Len(db), NEW base \in Page,
         NEW r, Listed(r, level, previous, base)
  PROVE  /\ r.index \in PageIndex /\ r.commit \in Page /\ r.max \in Nat
         /\ previous <= r.max /\ r.max <= Len(db)
<1>1. /\ r.max \in previous .. Len(db) /\ Chain(level, previous) \subseteq files
      /\ r.commit = IF r.max = previous THEN base ELSE Commit(r.max)
  BY ChainCovers, Zenon DEF Listed, LTXFiles
<1>2. r.index \in PageIndex
  <2>1. PICK infos \in SUBSET Chain(level, previous) : r.index = Index(infos)
    BY Zenon DEF Listed
  <2>2. infos \in SUBSET files
    BY <1>1, Zenon
  <2> QED BY <2>1, <2>2, IndexBest, Zenon
<1>3. r.max \in Nat /\ previous <= r.max /\ r.max <= Len(db)
  BY <1>1, LenType
<1>4. r.commit \in Page
  <2>1. CASE r.max = previous
    BY <2>1, <1>1, Zenon
  <2>2. CASE r.max # previous
    <3>1. r.max \in 1 .. Len(db)
      BY <2>2, <1>3, LenType
    <3> QED BY <3>1, <2>2, <1>1, CommitType, Zenon
  <2> QED BY <2>1, <2>2, Zenon
<1> QED BY <1>2, <1>3, <1>4, Zenon

LEMMA IdlePolling ==
  ASSUME FilesOK, Polling, Placed(cursor)', poll'.pc \in {"idle", "rebuild"}
  PROVE  Polling'
<1>1. poll'.pc # "l1" /\ poll'.pc # "detect" /\ poll'.pc # "stage"
  OBVIOUS
<1> QED BY <1>1, Zenon DEF Polling, Level0OK, UpdateOK, DetectOK, NoSilentStall

LEMMA PollL0Polling ==
  ASSUME PollInv, PollL0
  PROVE  PollType' /\ Polling'
<1> DEFINE l0 == PollLevel(0, cursor.pos, cursor.commit)
<1>0. TypeOK /\ StoreType /\ FilesOK /\ Polling /\ Placed(cursor)
  BY Zenon DEF PollInv, TypeOK, Polling
<1>1. /\ poll' = IF l0.failed THEN IdlePoll ELSE [IdlePoll EXCEPT !.pc = "l1", !.l0 = l0]
      /\ moved' = FALSE /\ UNCHANGED <<db, files, cursor>>
  BY Zenon DEF PollL0
<1>2. /\ cursor.pos \in 1 .. Len(db) /\ cursor.pos \in 0 .. Len(db) /\ cursor.pos # 0
      /\ cursor.pos \in Nat /\ cursor.commit \in Page
  BY <1>0, CursorType, LenType
<1>3. Listed(l0, 0, cursor.pos, cursor.commit)
  BY <1>0, <1>2, PollLevelLists, Zenon
<1>4. Placed(cursor)'
  BY <1>0, <1>1, Zenon DEF Placed, Aligned
<1>5. CASE l0.failed
  <2>1. poll' = [pc |-> "idle", l0 |-> None, update |-> None]
    BY <1>5, <1>1, Zenon DEF IdlePoll
  <2>2. poll'.pc = "idle" /\ poll' = [pc |-> poll'.pc, l0 |-> poll'.l0, update |-> poll'.update]
    BY <2>1, Zenon
  <2>3. PollType'
    BY <2>2, <1>0, <1>1, Zenon DEF TypeOK, PollType
  <2> QED BY <2>2, <2>3, <1>0, <1>4, IdlePolling, Zenon
<1>6. CASE ~l0.failed
  <2>1. l0 = [max |-> l0.max, index |-> l0.index, commit |-> l0.commit, gapAt |-> l0.gapAt,
              replace |-> l0.replace, fromRoot |-> l0.fromRoot, failed |-> l0.failed]
    BY Zenon DEF PollLevel
  <2> HIDE DEF l0
  <2>2. poll' = [pc |-> "l1", l0 |-> l0, update |-> None]
    BY <1>6, <1>1, Zenon DEF IdlePoll
  <2>3. /\ poll'.pc = "l1" /\ poll'.l0 = l0
        /\ poll' = [pc |-> poll'.pc, l0 |-> poll'.l0, update |-> poll'.update]
    BY <2>2, Zenon
  <2>4. /\ l0.index \in PageIndex /\ l0.commit \in Page /\ l0.max \in Nat
        /\ cursor.pos <= l0.max /\ l0.max <= Len(db)
    BY <1>0, <1>2, <1>3, LevelType, Zenon
  <2>5. l0.max \in 1 .. MaxTX
    BY <2>4, <1>0, <1>2, LenType
  <2>6. l0 \in Level0Result
    <3>1. /\ l0.gapAt \in 0 .. MaxTX /\ l0.replace \in BOOLEAN /\ l0.fromRoot \in BOOLEAN
          /\ l0.failed \in BOOLEAN
      BY <1>3, Zenon DEF Listed
    <3> QED BY <2>1, <2>4, <2>5, <3>1, Zenon DEF Level0Result
  <2>7. PollType'
    BY <2>3, <2>6, <1>0, <1>1, Zenon DEF TypeOK, PollType
  <2>8. /\ l0.gapAt # 0 => l0.gapAt > l0.max + 1
        /\ ~l0.fromRoot
        /\ l0.max = cursor.pos => l0.index = Empty /\ ~l0.replace
    BY <1>2, <1>3, Zenon DEF Listed
  <2>9. ASSUME l0.max = cursor.pos, l0.gapAt = 0, NEW i \in files, i.level = 0
        PROVE  i.min <= cursor.pos
    <3>1. cursor.pos < i.min => i.max <= l0.max
      BY <2>9, <1>3, <1>6, Zenon DEF Listed
    <3>2. i.min = i.max /\ i.min \in Nat
      BY <2>9, <1>0, FileType, Zenon DEF FilesOK
    <3> QED BY <3>1, <3>2, <2>9, <1>2
  <2>10. Level0OK'
    BY <2>3, <2>4, <2>8, <2>9, <1>1, Zenon DEF Level0OK
  <2>11. poll'.pc # "detect" /\ poll'.pc # "stage"
    BY <2>3
  <2>12. UpdateOK' /\ DetectOK' /\ NoSilentStall'
    BY <2>11, Zenon DEF UpdateOK, DetectOK, NoSilentStall
  <2> QED BY <2>7, <2>10, <2>12, <1>4, Zenon DEF Polling
<1> QED BY <1>5, <1>6, Zenon

LEMMA IndexParts ==
  ASSUME NEW index \in PageIndex
  PROVE  DOMAIN index \subseteq Page /\ \A p \in DOMAIN index : index[p] \in FileInfo
<1>1. PICK pages \in SUBSET Page : index \in [pages -> FileInfo]
  BY Zenon DEF PageIndex
<1> QED BY <1>1, Zenon

LEMMA OnlyType ==
  ASSUME NEW index \in PageIndex, NEW S
  PROVE  Only(index, S) \in PageIndex
<1>1. DOMAIN index \subseteq Page /\ \A p \in DOMAIN index : index[p] \in FileInfo
  BY IndexParts, Zenon
<1> DEFINE D == DOMAIN index \cap S
<1>2. Only(index, S) \in [D -> FileInfo] /\ D \in SUBSET Page
  BY <1>1, Zenon DEF Only
<1> HIDE DEF D
<1> QED BY <1>2, Zenon DEF PageIndex

LEMMA OverType ==
  ASSUME NEW new \in PageIndex, NEW old \in PageIndex
  PROVE  Over(new, old) \in PageIndex
<1>1. DOMAIN new \subseteq Page /\ \A p \in DOMAIN new : new[p] \in FileInfo
  BY IndexParts, Zenon
<1>2. DOMAIN old \subseteq Page /\ \A p \in DOMAIN old : old[p] \in FileInfo
  BY IndexParts, Zenon
<1> DEFINE D == DOMAIN new \cup DOMAIN old
<1>3. D \in SUBSET Page
  BY <1>1, <1>2, Zenon
<1>4. \A p \in D : (IF p \in DOMAIN new THEN new[p] ELSE old[p]) \in FileInfo
  BY <1>1, <1>2, Zenon
<1>5. Over(new, old) \in [D -> FileInfo]
  BY <1>4, Zenon DEF Over
<1> HIDE DEF D
<1> QED BY <1>3, <1>5, Zenon DEF PageIndex

LEMMA EmptyDomain == DOMAIN Empty = {}
BY DEF Empty

LEMMA NothingOver ==
  ASSUME NEW S
  PROVE  Over(Only(Empty, S), Empty) = Empty
<1>1. DOMAIN Only(Empty, S) = {}
  BY EmptyDomain, Zenon DEF Only
<1>2. DOMAIN Only(Empty, S) \cup DOMAIN Empty = {}
  BY <1>1, EmptyDomain, Zenon
<1>3. Over(Only(Empty, S), Empty)
        = [x \in {} |-> IF x \in DOMAIN Only(Empty, S) THEN Only(Empty, S)[x] ELSE Empty[x]]
  BY <1>2, Zenon DEF Over
<1> QED BY <1>3 DEF Empty

\* The locals of the level 1 step of a poll.
Level1 == PollLevel(1, cursor.max1, poll.l0.commit)
Bridged == poll.l0.gapAt # 0 /\ Level1.max + 1 >= poll.l0.gapAt
Replaces == poll.l0.replace \/ Level1.replace
Safe == Bridged /\ Replaces /\ CompleteSnapshot(poll.l0, Level1)
Rebuilds == (poll.l0.gapAt # 0 /\ ~Bridged) \/ (Replaces /\ ~Safe)
Newer == {p \in DOMAIN Level1.index :
            p \in DOMAIN poll.l0.index => Level1.index[p].max >= poll.l0.index[p].max}
MergedCommit ==
  IF poll.l0.max >= Level1.max /\ (poll.l0.max > cursor.pos \/ poll.l0.index # Empty)
  THEN poll.l0.commit
  ELSE IF Level1.max > cursor.max1 \/ Level1.index # Empty THEN Level1.commit
  ELSE cursor.commit
Merged ==
  [index |-> Over(Only(Level1.index, Newer), poll.l0.index), replace |-> Safe,
   commit |-> MergedCommit,
   pos |-> Larger(cursor.pos, Larger(poll.l0.max, Level1.max)), max1 |-> Level1.max]

LEMMA WithUpdate ==
  ASSUME NEW u
  PROVE  /\ [IdlePoll EXCEPT !.pc = "detect", !.update = u]
              = [pc |-> "detect", l0 |-> None, update |-> u]
         /\ [IdlePoll EXCEPT !.pc = "stage", !.update = u]
              = [pc |-> "stage", l0 |-> None, update |-> u]
<1>1. [IdlePoll EXCEPT !.pc = "detect", !.update = u]
        = [pc |-> "detect", l0 |-> None, update |-> u]
  <2>1. [IdlePoll EXCEPT !.pc = "detect", !.update = u]
          = [[IdlePoll EXCEPT !.pc = "detect"] EXCEPT !.update = u]
    BY DEF IdlePoll
  <2>2. [IdlePoll EXCEPT !.pc = "detect"] = [pc |-> "detect", l0 |-> None, update |-> None]
    BY DEF IdlePoll
  <2>3. [[pc |-> "detect", l0 |-> None, update |-> None] EXCEPT !.update = u]
          = [pc |-> "detect", l0 |-> None, update |-> u]
    OBVIOUS
  <2> QED BY <2>1, <2>2, <2>3, Zenon
<1>2. [IdlePoll EXCEPT !.pc = "stage", !.update = u]
        = [pc |-> "stage", l0 |-> None, update |-> u]
  <2>1. [IdlePoll EXCEPT !.pc = "stage", !.update = u]
          = [[IdlePoll EXCEPT !.pc = "stage"] EXCEPT !.update = u]
    BY DEF IdlePoll
  <2>2. [IdlePoll EXCEPT !.pc = "stage"] = [pc |-> "stage", l0 |-> None, update |-> None]
    BY DEF IdlePoll
  <2>3. [[pc |-> "stage", l0 |-> None, update |-> None] EXCEPT !.update = u]
          = [pc |-> "stage", l0 |-> None, update |-> u]
    OBVIOUS
  <2> QED BY <2>1, <2>2, <2>3, Zenon
<1> QED BY <1>1, <1>2, Zenon

LEMMA PollL1Step ==
  ASSUME PollL1
  PROVE  /\ poll.pc = "l1"
         /\ UNCHANGED <<db, files, visible, cursor, pending, cache, shared, read, pinned,
                        torn, moved, faults>>
         /\ \/ poll' = [pc |-> "idle", l0 |-> None, update |-> None]
            \/ poll' = [pc |-> "rebuild", l0 |-> None, update |-> None]
            \/ /\ ~Level1.failed /\ ~Rebuilds
               /\ \/ /\ poll' = [pc |-> "detect", l0 |-> None, update |-> Merged]
                     /\ Noop(Merged)
                  \/ /\ poll' = [pc |-> "stage", l0 |-> None, update |-> Merged]
                     /\ ~Noop(Merged)
<1>1. [Merge(poll.l0, Level1) EXCEPT !.replace = Safe] = Merged
  <2> DEFINE index == Over(Only(Level1.index, Newer), poll.l0.index)
             pos == Larger(cursor.pos, Larger(poll.l0.max, Level1.max))
             max1 == Level1.max
  <2>1. Merge(poll.l0, Level1) = [index |-> index, replace |-> FALSE, commit |-> MergedCommit,
                                  pos |-> pos, max1 |-> max1]
    BY Zenon DEF Merge, Newer, MergedCommit
  <2>2. Merged = [index |-> index, replace |-> Safe, commit |-> MergedCommit,
                  pos |-> pos, max1 |-> max1]
    BY Zenon DEF Merged
  <2> HIDE DEF index, pos, max1
  <2> QED BY <2>1, <2>2
<1>2. /\ poll.pc = "l1"
      /\ poll' = IF Level1.failed THEN IdlePoll
                 ELSE IF Rebuilds THEN [IdlePoll EXCEPT !.pc = "rebuild"]
                 ELSE [IdlePoll EXCEPT !.pc = IF Noop(Merged) THEN "detect" ELSE "stage",
                                       !.update = Merged]
      /\ UNCHANGED <<db, files, visible, cursor, pending, cache, shared, read, pinned,
                     torn, moved, faults>>
  BY <1>1, Zenon DEF PollL1, Level1, Bridged, Replaces, Safe, Rebuilds
<1>3. [IdlePoll EXCEPT !.pc = "rebuild"] = [pc |-> "rebuild", l0 |-> None, update |-> None]
  BY DEF IdlePoll
<1>4. /\ [IdlePoll EXCEPT !.pc = "detect", !.update = Merged]
           = [pc |-> "detect", l0 |-> None, update |-> Merged]
      /\ [IdlePoll EXCEPT !.pc = "stage", !.update = Merged]
           = [pc |-> "stage", l0 |-> None, update |-> Merged]
  BY WithUpdate, Zenon
<1> QED BY <1>2, <1>3, <1>4, Zenon DEF IdlePoll

LEMMA Level1Facts ==
  ASSUME PollInv, poll.pc = "l1"
  PROVE  /\ TypeOK /\ StoreType /\ FilesOK /\ Polling /\ Placed(cursor)
         /\ poll.l0 \in Level0Result
         /\ poll.l0.max \in Nat /\ poll.l0.index \in PageIndex /\ poll.l0.commit \in Page
         /\ poll.l0.gapAt \in Nat /\ poll.l0.replace \in BOOLEAN
         /\ cursor.pos <= poll.l0.max /\ poll.l0.max <= Len(db)
         /\ cursor.pos \in Nat /\ cursor.max1 \in Nat /\ cursor.max1 <= cursor.pos
         /\ 1 <= cursor.pos /\ cursor.commit \in Page
         /\ Len(db) \in Nat /\ Len(db) <= MaxTX /\ MaxTX \in Nat
         /\ Listed(Level1, 1, cursor.max1, poll.l0.commit)
         /\ Level1.index \in PageIndex /\ Level1.commit \in Page /\ Level1.max \in Nat
         /\ cursor.max1 <= Level1.max /\ Level1.max <= Len(db)
<1>1. TypeOK /\ StoreType /\ FilesOK /\ Polling /\ Placed(cursor) /\ poll.l0 \in Level0Result
  BY Zenon DEF PollInv, Polling, TypeOK, PollType
<1>2. /\ poll.l0.max \in 1 .. MaxTX /\ poll.l0.index \in PageIndex /\ poll.l0.commit \in Page
      /\ poll.l0.gapAt \in 0 .. MaxTX /\ poll.l0.replace \in BOOLEAN
  BY <1>1, Zenon DEF Level0Result
<1>3. cursor.pos <= poll.l0.max /\ poll.l0.max <= Len(db)
  BY <1>1, Zenon DEF Polling, Level0OK
<1>4. /\ cursor.pos \in Nat /\ cursor.max1 \in Nat /\ cursor.max1 <= cursor.pos
      /\ cursor.max1 \in 0 .. Len(db) /\ cursor.commit \in Page /\ cursor.pos \in 1 .. Len(db)
  BY <1>1, CursorType, Zenon
<1>5. Len(db) \in Nat /\ Len(db) <= MaxTX /\ MaxTX \in Nat
  BY <1>1, LenType, Zenon
<1>6. Listed(Level1, 1, cursor.max1, poll.l0.commit)
  BY <1>1, <1>4, PollLevelLists, Zenon DEF Level1
<1>7. /\ Level1.index \in PageIndex /\ Level1.commit \in Page /\ Level1.max \in Nat
      /\ cursor.max1 <= Level1.max /\ Level1.max <= Len(db)
  BY <1>1, <1>2, <1>4, <1>6, LevelType, Zenon
<1>8. poll.l0.max \in Nat /\ poll.l0.gapAt \in Nat /\ 1 <= cursor.pos
  BY <1>2, <1>4, <1>5
<1> QED BY <1>1, <1>2, <1>3, <1>4, <1>5, <1>6, <1>7, <1>8, Zenon

LEMMA MergedParts ==
  /\ Merged.index = Over(Only(Level1.index, Newer), poll.l0.index) /\ Merged.replace = Safe
  /\ Merged.commit = MergedCommit /\ Merged.max1 = Level1.max
  /\ Merged.pos = Larger(cursor.pos, Larger(poll.l0.max, Level1.max))
BY Zenon DEF Merged

LEMMA MergedPlaced ==
  ASSUME PollInv, poll.pc = "l1"
  PROVE  /\ Merged \in Update /\ Placed(Merged) /\ Merged.pos \in Nat
         /\ cursor.pos <= Merged.pos /\ poll.l0.max <= Merged.pos /\ Level1.max <= Merged.pos
         /\ Merged.pos = poll.l0.max \/ (Merged.pos = Level1.max /\ poll.l0.max < Level1.max)
<1> DEFINE l0 == poll.l0
           l1 == Level1
<1>1. /\ TypeOK /\ StoreType /\ FilesOK /\ Polling /\ Placed(cursor) /\ cursor.commit \in Page
      /\ l0.max \in Nat /\ l0.index \in PageIndex /\ l0.commit \in Page
      /\ cursor.pos <= l0.max /\ l0.max <= Len(db) /\ 1 <= cursor.pos
      /\ cursor.pos \in Nat /\ Len(db) \in Nat /\ Len(db) <= MaxTX /\ MaxTX \in Nat
      /\ Listed(l1, 1, cursor.max1, l0.commit)
      /\ l1.index \in PageIndex /\ l1.commit \in Page /\ l1.max \in Nat /\ l1.max <= Len(db)
  BY Level1Facts, Zenon
<1> HIDE DEF l0, l1
<1>2. /\ Merged.pos = Larger(cursor.pos, Larger(l0.max, l1.max)) /\ Merged.max1 = l1.max
  BY MergedParts, Zenon DEF l0, l1
<1>3. /\ Merged.pos \in Nat /\ cursor.pos <= Merged.pos /\ l0.max <= Merged.pos
      /\ l1.max <= Merged.pos /\ Merged.pos <= Len(db)
      /\ Merged.pos = l0.max \/ (Merged.pos = l1.max /\ l0.max < l1.max)
  BY <1>1, <1>2 DEF Larger
<1>4. Merged.pos \in 1 .. MaxTX /\ Merged.max1 \in 0 .. MaxTX
  BY <1>1, <1>2, <1>3
<1>5. MergedCommit \in Page
  BY <1>1, Zenon DEF MergedCommit, l0, l1
<1>6. Merged.index \in PageIndex
  <2>1. Only(l1.index, Newer) \in PageIndex
    BY <1>1, OnlyType, Zenon
  <2> QED BY <2>1, <1>1, OverType, MergedParts, Zenon DEF l0, l1
<1>7. Safe \in BOOLEAN
  BY Zenon DEF Safe, Bridged
<1>8. Merged \in Update
  <2>1. Merged = [index |-> Merged.index, replace |-> Merged.replace, commit |-> Merged.commit,
                  pos |-> Merged.pos, max1 |-> Merged.max1]
    BY Zenon DEF Merged
  <2>2. Merged.replace \in BOOLEAN /\ Merged.commit \in Page
    BY <1>5, <1>7, MergedParts, Zenon
  <2> QED BY <1>4, <1>6, <2>1, <2>2, Zenon DEF Update
<1>9. Aligned(l1.max)
  <2>1. CASE l1.max = cursor.max1
    BY <2>1, <1>1, Zenon DEF Placed
  <2>2. CASE l1.max # cursor.max1
    <3>1. PICK j \in files : j.level = 1 /\ j.max = l1.max
      BY <2>2, <1>1, Zenon DEF Listed
    <3>2. l1.max <= j.max /\ j.min \in Nat /\ j.max \in Nat /\ j.min <= j.max
      BY <3>1, <1>1, FileType
    <3>3. ASSUME NEW i \in files, i.level = 1, i.min <= l1.max, l1.max < i.max
          PROVE  FALSE
      <4>1. i = j \/ i.max < j.min \/ j.max < i.min
        BY <3>1, <3>3, <1>1, Zenon DEF FilesOK
      <4>2. i.min \in Nat /\ i.max \in Nat
        BY <1>1, FileType, Zenon
      <4> QED BY <3>1, <3>2, <3>3, <4>1, <4>2, <1>1
    <3> QED BY <3>1, <3>2, <3>3, Zenon DEF Aligned
  <2> QED BY <2>1, <2>2, Zenon
<1>10. Placed(Merged)
  BY <1>2, <1>3, <1>9, Zenon DEF Placed
<1> QED BY <1>3, <1>8, <1>10, Zenon DEF l0, l1

\* A merge that does not move on, although there is more, found nothing, and
\* one file has replaced everything.
LEMMA MergedStall ==
  ASSUME PollInv, poll.pc = "l1", ~moved, ~Level1.failed, ~Rebuilds,
         Merged.pos = cursor.pos, cursor.pos < Len(db)
  PROVE  /\ Noop(Merged)
         /\ \E i \in files : i.min = 1 /\ i.max > cursor.pos
<1> DEFINE l0 == poll.l0
           l1 == Level1
<1>1. /\ TypeOK /\ StoreType /\ FilesOK /\ Placed(cursor) /\ Level0OK
      /\ l0.max \in Nat /\ l0.gapAt \in Nat /\ l0.replace \in BOOLEAN
      /\ cursor.pos <= l0.max /\ cursor.pos \in Nat /\ cursor.max1 \in Nat
      /\ cursor.max1 <= cursor.pos /\ Len(db) \in Nat /\ 1 <= cursor.pos
      /\ Listed(l1, 1, cursor.max1, l0.commit) /\ l1.max \in Nat
  BY Level1Facts, Zenon DEF Polling
<1>2. l0.max <= cursor.pos /\ l1.max <= cursor.pos
  BY MergedPlaced, Zenon
<1> HIDE DEF l1
<1>3. l0.max = cursor.pos
  BY <1>1, <1>2
<1>4. /\ l0.gapAt # 0 => l0.gapAt > l0.max + 1
      /\ l0.index = Empty /\ ~l0.replace
      /\ l0.gapAt = 0 => \A i \in files : i.level = 0 => i.min <= cursor.pos
  BY <1>1, <1>3, Zenon DEF Level0OK
<1>5. l0.gapAt = 0
  <2>1. l0.gapAt # 0 => l1.max + 1 >= l0.gapAt
    BY Zenon DEF Rebuilds, Bridged, l1
  <2> QED BY <2>1, <1>1, <1>2, <1>3, <1>4
<1>6. PICK j \in files : j.level = 1 /\ j.max = Len(db)
  <2>1. Len(db) \in 1 .. Len(db)
    BY <1>1
  <2>2. PICK j \in files : Len(db) <= j.max
    BY <2>1, <1>1, Zenon DEF FilesOK
  <2>3. j.max = Len(db) /\ j.level \in {0, 1} /\ j.min \in Nat
    BY <2>2, <1>1, FileType
  <2>4. j.level # 0
    <3>1. j.level = 0 => j.min = j.max /\ j.min <= cursor.pos
      BY <1>1, <1>4, <1>5, Zenon DEF FilesOK
    <3> QED BY <3>1, <2>3, <1>1
  <2> QED BY <2>3, <2>4, Zenon
<1>7. j.min \in Nat /\ j.min <= j.max /\ 1 <= j.min
  BY <1>1, FileType, Zenon
<1>8. l1.gapAt = 0
  <2>1. l1.gapAt # 0 => 1 = 0
    BY <1>1, Zenon DEF Listed
  <2> QED BY <2>1
<1>9. \A i \in files : i.level = 1 /\ cursor.max1 < i.min => i.max <= l1.max
  BY <1>1, <1>8, Zenon DEF Listed, l1
<1>10. j.min <= cursor.max1
  <2>1. ~(j.max <= l1.max)
    BY <1>1, <1>2, <1>6
  <2>2. ~(cursor.max1 < j.min)
    BY <2>1, <1>6, <1>9, Zenon
  <2> QED BY <2>2, <1>1, <1>7
<1>11. j.min = 1
  <2>1. cursor.max1 < j.max
    BY <1>1, <1>6
  <2> QED BY <2>1, <1>1, <1>6, <1>10, Zenon DEF Placed, Aligned
<1>12. j.max > cursor.pos
  BY <1>6, <1>1
<1>13. l1.max = cursor.max1
  <2> SUFFICES ASSUME l1.max # cursor.max1 PROVE FALSE
    BY Zenon
  <2>1. PICK k \in files : k.level = 1 /\ cursor.max1 < k.min /\ k.max = l1.max
    BY <1>1, Zenon DEF Listed
  <2>2. k = j \/ k.max < j.min \/ j.max < k.min
    BY <2>1, <1>1, <1>6, Zenon DEF FilesOK
  <2>3. k.min \in Nat /\ k.max \in Nat /\ k.min <= k.max /\ 1 <= k.min
    BY <1>1, FileType, Zenon
  <2> QED BY <2>1, <2>2, <2>3, <1>1, <1>2, <1>6, <1>11
<1>14. l1.index = Empty /\ ~l1.replace
  BY <1>1, <1>13, Zenon DEF Listed
<1>15. ~Merged.replace
  BY <1>5, MergedParts, Zenon DEF Safe, Bridged
<1>16. Merged.index = Empty
  BY <1>4, <1>14, NothingOver, MergedParts, Zenon DEF l1
<1>17. Merged.commit = cursor.commit
  <2>1. ~(l0.max > cursor.pos) /\ ~(l1.max > cursor.max1)
    BY <1>1, <1>3, <1>13
  <2> QED BY <2>1, <1>4, <1>14, MergedParts, Zenon DEF MergedCommit, l1
<1>18. Cursor(Merged) = cursor
  <2>1. cursor = [pos |-> cursor.pos, max1 |-> cursor.max1, commit |-> cursor.commit]
    BY <1>1, CursorType, Zenon
  <2>2. Merged.max1 = cursor.max1
    BY <1>13, MergedParts, Zenon DEF l1
  <2> QED BY <2>1, <2>2, <1>17, Zenon DEF Cursor
<1> QED BY <1>11, <1>12, <1>15, <1>16, <1>18, Zenon DEF Noop

LEMMA RebuiltUpdate ==
  ASSUME PollInv, poll.pc = "rebuild", Rebuild
  PROVE  /\ poll'.pc = "stage" /\ poll'.update \in Update
         /\ poll' = [pc |-> poll'.pc, l0 |-> poll'.l0, update |-> poll'.update]
         /\ poll'.update.index = Index(RestorePlan) /\ poll'.update.replace
         /\ poll'.update.commit = Commit(Len(db)) /\ poll'.update.pos = Len(db)
         /\ poll'.update.max1 <= Len(db) /\ Aligned(poll'.update.max1)
         /\ \A i \in files : i.level = 1 => i.max <= poll'.update.max1
<1>1. TypeOK /\ StoreType /\ FilesOK
  BY Zenon DEF PollInv, TypeOK
<1>2. /\ RestorePlan \in SUBSET files /\ RestorePlan # {}
      /\ LastOf(RestorePlan, 0) = Len(db)
  BY <1>1, PlanCovers, Zenon
<1>3. PICK last1 \in 0 .. Len(db) :
        /\ LastOf({i \in RestorePlan : i.level = 1}, 0) = last1
        /\ \A i \in files : i.level = 1 => i.max <= last1
        /\ last1 = 0 \/ \E i \in files : i.level = 1 /\ i.max = last1
  BY <1>1, PlanCovers, Zenon
<1> DEFINE u == [index |-> Index(RestorePlan), replace |-> TRUE, commit |-> Commit(Len(db)),
                 pos |-> Len(db), max1 |-> last1]
<1>4. poll' = [IdlePoll EXCEPT !.pc = "stage", !.update = u]
  <2> DEFINE s == BuildSnapshot(RestorePlan)
  <2>1. /\ s.index = Index(RestorePlan) /\ s.commit = Commit(Len(db)) /\ s.pos = Len(db)
        /\ s.max1 = last1
    BY <1>2, <1>3, Zenon DEF BuildSnapshot
  <2>2. poll' = [IdlePoll EXCEPT !.pc = "stage",
                   !.update = [index |-> s.index, replace |-> TRUE, commit |-> s.commit,
                               pos |-> s.pos, max1 |-> s.max1]]
    BY <1>2, Zenon DEF Rebuild
  <2> HIDE DEF s
  <2> QED BY <2>1, <2>2, Zenon
<1>5. /\ u.index = Index(RestorePlan) /\ u.replace /\ u.commit = Commit(Len(db))
      /\ u.pos = Len(db) /\ u.max1 = last1
  BY Zenon
<1>6. u \in Update
  <2>1. Index(RestorePlan) \in PageIndex
    BY <1>1, <1>2, IndexBest, Zenon
  <2>2. Len(db) \in 1 .. MaxTX /\ Len(db) \in 1 .. Len(db) /\ last1 \in 0 .. MaxTX
    BY <1>1, LenType
  <2>3. Commit(Len(db)) \in Page
    BY <1>1, <2>2, CommitType, Zenon
  <2>4. TRUE \in BOOLEAN
    BY Zenon
  <2> QED BY <2>1, <2>2, <2>3, <2>4, Zenon DEF Update
<1> HIDE DEF u
<1>7. poll' = [pc |-> "stage", l0 |-> None, update |-> u]
  BY <1>4, WithUpdate, Zenon
<1>8. /\ poll'.pc = "stage" /\ poll'.update = u
      /\ poll' = [pc |-> poll'.pc, l0 |-> poll'.l0, update |-> poll'.update]
  BY <1>7, Zenon
<1>9. last1 <= Len(db) /\ last1 \in Nat
  BY <1>1, LenType
<1>10. Aligned(last1)
  <2>1. last1 = 0 \/ \E j \in files : j.level = 1 /\ last1 <= j.max
    <3>1. \A x : x = last1 => last1 <= x
      BY <1>9
    <3> QED BY <1>3, <3>1, Zenon
  <2>2. ASSUME NEW i \in files, i.level = 1, last1 < i.max PROVE FALSE
    BY <2>2, <1>1, <1>3, <1>9, FileType
  <2> QED BY <2>1, <2>2, Zenon DEF Aligned
<1> QED BY <1>3, <1>5, <1>6, <1>8, <1>9, <1>10, Zenon

LEMMA PollL1Polling ==
  ASSUME PollInv, PollL1
  PROVE  PollType' /\ Polling'
<1>0. TypeOK /\ StoreType /\ FilesOK /\ Polling /\ Placed(cursor)
  BY Zenon DEF PollInv, TypeOK, Polling
<1>1. poll.pc = "l1" /\ UNCHANGED <<db, files, cursor, moved>>
  BY PollL1Step, Zenon
<1>2. Placed(cursor)'
  BY <1>0, <1>1, Zenon DEF Placed, Aligned
<1>3. \/ poll' = [pc |-> "idle", l0 |-> None, update |-> None]
      \/ poll' = [pc |-> "rebuild", l0 |-> None, update |-> None]
      \/ /\ ~Level1.failed /\ ~Rebuilds
         /\ \/ poll' = [pc |-> "detect", l0 |-> None, update |-> Merged] /\ Noop(Merged)
            \/ poll' = [pc |-> "stage", l0 |-> None, update |-> Merged] /\ ~Noop(Merged)
  BY PollL1Step, Zenon
<1>4. CASE \/ poll' = [pc |-> "idle", l0 |-> None, update |-> None]
           \/ poll' = [pc |-> "rebuild", l0 |-> None, update |-> None]
  <2>1. /\ poll'.pc = "idle" \/ poll'.pc = "rebuild"
        /\ poll' = [pc |-> poll'.pc, l0 |-> poll'.l0, update |-> poll'.update]
    <3>1. CASE poll' = [pc |-> "idle", l0 |-> None, update |-> None]
      BY <3>1, Zenon
    <3>2. CASE poll' = [pc |-> "rebuild", l0 |-> None, update |-> None]
      BY <3>2, Zenon
    <3> QED BY <3>1, <3>2, <1>4, Zenon
  <2>2. poll'.pc \in {"idle", "rebuild"}
    BY <2>1, Zenon
  <2>3. PollType'
    BY <2>1, <1>0, <1>1, Zenon DEF TypeOK, PollType
  <2> QED BY <2>2, <2>3, <1>0, <1>2, IdlePolling, Zenon
<1>5. ASSUME NEW pc \in {"detect", "stage"}, ~Level1.failed, ~Rebuilds,
             poll' = [pc |-> pc, l0 |-> None, update |-> Merged],
             pc = "detect" => Noop(Merged), pc = "stage" => ~Noop(Merged)
      PROVE  PollType' /\ Polling'
  <2>1. /\ poll'.pc = pc /\ poll'.update = Merged
        /\ poll' = [pc |-> poll'.pc, l0 |-> poll'.l0, update |-> poll'.update]
    BY <1>5, Zenon
  <2>2. Merged \in Update /\ Placed(Merged) /\ Merged.pos \in Nat
    BY <1>1, MergedPlaced, Zenon
  <2>3. PollType'
    BY <2>1, <2>2, <1>0, <1>1, Zenon DEF TypeOK, PollType
  <2>4. UpdateOK'
    BY <2>1, <2>2, <1>1, Zenon DEF UpdateOK, Placed, Aligned
  <2>5. Level0OK'
    <3>1. pc # "l1"
      OBVIOUS
    <3> QED BY <2>1, <3>1, Zenon DEF Level0OK
  <2>6. ASSUME ~moved, cursor.pos < Len(db), Merged.pos = cursor.pos
        PROVE  Noop(Merged) /\ \E i \in files : i.min = 1 /\ i.max > cursor.pos
    BY <2>6, <1>1, <1>5, MergedStall, Zenon
  <2>7. Noop(Merged) => Merged.pos = cursor.pos
    <3>1. Cursor(Merged).pos = Merged.pos
      BY Zenon DEF Cursor
    <3> QED BY <3>1, Zenon DEF Noop
  <2>8. DetectOK'
    BY <2>1, <2>6, <2>7, <1>1, <1>5, Zenon DEF DetectOK
  <2>9. NoSilentStall'
    <3>1. CASE pc = "stage" /\ ~moved /\ Merged.pos = cursor.pos
      <4>1. ~(cursor.pos < Len(db))
        BY <3>1, <2>6, <1>5, Zenon
      <4>2. cursor.pos = Len(db)
        BY <4>1, <1>0, CursorType, LenType
      <4> QED BY <4>2, <1>1, Zenon DEF NoSilentStall
    <3>2. CASE ~(pc = "stage" /\ ~moved /\ Merged.pos = cursor.pos)
      BY <3>2, <2>1, <1>1, Zenon DEF NoSilentStall
    <3> QED BY <3>1, <3>2, Zenon
  <2> QED BY <1>2, <2>3, <2>4, <2>5, <2>8, <2>9, Zenon DEF Polling
<1>6. "detect" \in {"detect", "stage"} /\ "stage" \in {"detect", "stage"} /\ "detect" # "stage"
  OBVIOUS
<1> QED BY <1>3, <1>4, <1>5, <1>6, Zenon

LEMMA DetectPolling ==
  ASSUME PollInv, Detect
  PROVE  PollType' /\ Polling'
<1>0. TypeOK /\ StoreType /\ FilesOK /\ Polling /\ Placed(cursor)
  BY Zenon DEF PollInv, TypeOK, Polling
<1>1. /\ poll.pc = "detect" /\ UNCHANGED <<db, files, cursor, moved>>
      /\ poll' = [poll EXCEPT !.pc =
           IF \E i \in files : i.min = 1 /\ i.max > cursor.pos THEN "rebuild" ELSE "stage"]
  BY Zenon DEF Detect
<1> DEFINE pc == IF \E i \in files : i.min = 1 /\ i.max > cursor.pos
                 THEN "rebuild" ELSE "stage"
<1>2. poll = [pc |-> poll.pc, l0 |-> poll.l0, update |-> poll.update] /\ poll.update \in Update
  BY <1>0, <1>1, Zenon DEF TypeOK, PollType
<1>3. pc \in {"rebuild", "stage"} /\ poll' = [poll EXCEPT !.pc = pc]
  BY <1>1, Zenon
<1> HIDE DEF pc
<1>4. /\ poll'.pc = pc /\ poll'.update = poll.update
      /\ poll' = [pc |-> poll'.pc, l0 |-> poll'.l0, update |-> poll'.update]
  BY <1>2, <1>3
<1>5. PollType'
  BY <1>0, <1>1, <1>2, <1>3, <1>4, Zenon DEF TypeOK, PollType
<1>6. Placed(cursor)'
  BY <1>0, <1>1, Zenon DEF Placed, Aligned
<1>7. CASE pc = "rebuild"
  <2>1. poll'.pc \in {"idle", "rebuild"}
    BY <1>4, <1>7
  <2> QED BY <2>1, <1>0, <1>5, <1>6, IdlePolling, Zenon
<1>8. CASE pc = "stage"
  <2>1. "rebuild" # "stage" /\ "stage" # "l1" /\ "stage" # "detect"
    OBVIOUS
  <2>2. ~moved => ~(cursor.pos < Len(db))
    BY <2>1, <1>0, <1>1, <1>8, Zenon DEF Polling, DetectOK, pc
  <2>3. ~moved => cursor.pos = Len(db)
    BY <2>2, <1>0, CursorType, LenType
  <2>4. NoSilentStall'
    BY <2>3, <1>1, <1>4, Zenon DEF NoSilentStall
  <2>5. UpdateOK'
    BY <1>0, <1>1, <1>4, Zenon DEF Polling, UpdateOK, Placed, Aligned
  <2>6. Level0OK' /\ DetectOK'
    BY <2>1, <1>4, <1>8, Zenon DEF Level0OK, DetectOK
  <2> QED BY <2>4, <2>5, <2>6, <1>5, <1>6, Zenon DEF Polling
<1> QED BY <1>3, <1>7, <1>8, Zenon

LEMMA RebuildPolling ==
  ASSUME PollInv, Rebuild
  PROVE  PollType' /\ Polling'
<1>0. TypeOK /\ StoreType /\ FilesOK /\ Polling /\ Placed(cursor)
  BY Zenon DEF PollInv, TypeOK, Polling
<1>1. poll.pc = "rebuild" /\ UNCHANGED <<db, files, cursor, moved>>
  BY Zenon DEF Rebuild
<1>2. /\ poll'.pc = "stage" /\ poll'.update \in Update
      /\ poll' = [pc |-> poll'.pc, l0 |-> poll'.l0, update |-> poll'.update]
      /\ poll'.update.pos = Len(db) /\ poll'.update.max1 <= Len(db)
      /\ Aligned(poll'.update.max1)
  BY <1>1, RebuiltUpdate, Zenon
<1>3. PollType'
  BY <1>0, <1>1, <1>2, Zenon DEF TypeOK, PollType
<1>4. Placed(cursor)'
  BY <1>0, <1>1, Zenon DEF Placed, Aligned
<1>5. "stage" # "l1" /\ "stage" # "detect" /\ Len(db) <= Len(db)
  BY <1>0, LenType
<1>6. UpdateOK'
  BY <1>1, <1>2, <1>5, Zenon DEF UpdateOK, Placed, Aligned
<1>7. Level0OK' /\ DetectOK' /\ NoSilentStall'
  BY <1>1, <1>2, <1>5, Zenon DEF Level0OK, DetectOK, NoSilentStall
<1> QED BY <1>3, <1>4, <1>6, <1>7, Zenon DEF Polling

LEMMA PollFailsPolling ==
  ASSUME PollInv, PollFails
  PROVE  PollType' /\ Polling'
<1>0. TypeOK /\ StoreType /\ FilesOK /\ Polling /\ Placed(cursor)
  BY Zenon DEF PollInv, TypeOK, Polling
<1>1. /\ poll' = [pc |-> "idle", l0 |-> None, update |-> None]
      /\ UNCHANGED <<db, files, cursor, moved>>
  BY Zenon DEF PollFails, IdlePoll
<1>2. poll'.pc = "idle" /\ poll' = [pc |-> poll'.pc, l0 |-> poll'.l0, update |-> poll'.update]
  BY <1>1, Zenon
<1>3. PollType'
  BY <1>0, <1>1, <1>2, Zenon DEF TypeOK, PollType
<1>4. Placed(cursor)' /\ poll'.pc \in {"idle", "rebuild"}
  BY <1>0, <1>1, <1>2, Zenon DEF Placed, Aligned
<1> QED BY <1>0, <1>3, <1>4, IdlePolling, Zenon

LEMMA StagePolling ==
  ASSUME PollInv, Stage
  PROVE  PollType' /\ Polling'
<1>0. TypeOK /\ StoreType /\ FilesOK /\ Polling
  BY Zenon DEF PollInv, TypeOK
<1>1. /\ poll' = [pc |-> "idle", l0 |-> None, update |-> None] /\ poll.pc = "stage"
      /\ cursor' = Cursor(poll.update) /\ UNCHANGED <<db, files, moved>>
  BY Zenon DEF Stage, IdlePoll
<1>2. poll'.pc = "idle" /\ poll' = [pc |-> poll'.pc, l0 |-> poll'.l0, update |-> poll'.update]
  BY <1>1, Zenon
<1>3. poll.update \in Update /\ Placed(poll.update)
  BY <1>0, <1>1, Zenon DEF TypeOK, PollType, Polling, UpdateOK
<1>4. /\ cursor' \in [pos : 1 .. MaxTX, max1 : 0 .. MaxTX, commit : Page]
      /\ cursor'.pos = poll.update.pos /\ cursor'.max1 = poll.update.max1
  BY <1>1, <1>3, Zenon DEF Cursor, Update
<1>5. PollType'
  BY <1>0, <1>1, <1>2, <1>4, Zenon DEF TypeOK, PollType
<1>6. Placed(cursor)' /\ poll'.pc \in {"idle", "rebuild"}
  BY <1>1, <1>2, <1>3, <1>4, Zenon DEF Placed, Aligned
<1> QED BY <1>0, <1>5, <1>6, IdlePolling, Zenon

-----------------------------------------------------------------------------
(***************************************************************************)
(* What is visible, and the whole invariant.                               *)
(***************************************************************************)

LEMMA ApplyType ==
  ASSUME ViewType, NEW u \in Update, Apply(u)
  PROVE  /\ visible' \in [index : PageIndex, commit : Page, pos : 1 .. MaxTX, max1 : 0 .. MaxTX]
         /\ visible'.index = IF u.replace THEN Only(u.index, 1 .. u.commit)
                             ELSE Over(u.index, visible.index)
         /\ visible'.commit = u.commit /\ visible'.pos = u.pos /\ visible'.max1 = u.max1
         /\ read' \in PageRead \cup {None}
         /\ read' # None => read'.stale
<1>1. /\ u.index \in PageIndex /\ u.commit \in Page /\ u.pos \in 1 .. MaxTX
      /\ u.max1 \in 0 .. MaxTX /\ visible.index \in PageIndex /\ read \in PageRead \cup {None}
  BY Zenon DEF ViewType, Update
<1> DEFINE index == IF u.replace THEN Only(u.index, 1 .. u.commit)
                    ELSE Over(u.index, visible.index)
<1>2. /\ visible' = [index |-> index, commit |-> u.commit, pos |-> u.pos, max1 |-> u.max1]
      /\ read' = IF read = None THEN None ELSE [read EXCEPT !.stale = TRUE]
  BY Zenon DEF Apply, Installed
<1>3. index \in PageIndex
  BY <1>1, OnlyType, OverType, Zenon
<1> HIDE DEF index
<1>4. read' \in PageRead \cup {None} /\ (read' # None => read'.stale)
  <2>1. CASE read = None
    BY <2>1, <1>2, Zenon
  <2>2. CASE read # None
    <3>1. read \in PageRead /\ read' = [read EXCEPT !.stale = TRUE]
      BY <2>2, <1>1, <1>2, Zenon
    <3> QED BY <3>1, Zenon DEF PageRead
  <2> QED BY <2>1, <2>2, Zenon
<1>5. /\ visible'.index = index /\ visible'.commit = u.commit /\ visible'.pos = u.pos
      /\ visible'.max1 = u.max1
      /\ visible' \in [index : PageIndex, commit : Page, pos : 1 .. MaxTX, max1 : 0 .. MaxTX]
  BY <1>1, <1>2, <1>3, Zenon
<1> QED BY <1>4, <1>5, Zenon DEF index

LEMMA MergedPendingType ==
  ASSUME ViewType, NEW u \in Update
  PROVE  /\ MergedPending(u) \in Update
         /\ MergedPending(u).commit = u.commit /\ MergedPending(u).pos = u.pos
         /\ MergedPending(u).max1 = u.max1
         /\ u.replace \/ pending = None => MergedPending(u) = u
         /\ ~u.replace /\ pending # None =>
              /\ MergedPending(u).index = Over(u.index, pending.index)
              /\ MergedPending(u).replace = pending.replace
<1>1. CASE u.replace \/ pending = None
  BY <1>1, Zenon DEF MergedPending
<1>2. CASE ~u.replace /\ pending # None
  <2>1. /\ pending \in Update
        /\ MergedPending(u) = [u EXCEPT !.index = Over(u.index, pending.index),
                                        !.replace = pending.replace]
    BY <1>2, Zenon DEF ViewType, MergedPending
  <2>2. u.index \in PageIndex /\ pending.index \in PageIndex /\ pending.replace \in BOOLEAN
    BY <2>1, Zenon DEF Update
  <2>3. Over(u.index, pending.index) \in PageIndex
    BY <2>2, OverType, Zenon
  <2>4. PICK index \in PageIndex : index = Over(u.index, pending.index)
    BY <2>3, Zenon
  <2>5. PICK v : v = MergedPending(u)
    BY Zenon
  <2> DEFINE w == [u EXCEPT !.index = index]
  <2>6. v = [w EXCEPT !.replace = pending.replace]
    BY <2>1, <2>4, <2>5 DEF Update
  <2>7. /\ w \in Update /\ w.index = index
        /\ w.commit = u.commit /\ w.pos = u.pos /\ w.max1 = u.max1
    BY Zenon DEF Update
  <2> HIDE DEF w
  <2>8. v \in Update /\ v.replace = pending.replace
    BY <2>2, <2>6, <2>7, Zenon DEF Update
  <2>9. v.index = w.index /\ v.commit = w.commit /\ v.pos = w.pos /\ v.max1 = w.max1
    BY <2>6, <2>7 DEF Update
  <2> QED BY <1>2, <2>4, <2>5, <2>7, <2>8, <2>9, Zenon
<1> QED BY <1>1, <1>2, Zenon

\* The steps that only concern the reader.
Reader == Lock \/ Unlock \/ Fetched \/ FetchFails \/ \E p \in Page : ReadBegin(p)

LEMMA ReaderKeeps ==
  ASSUME Reader
  PROVE  UNCHANGED <<db, files, cursor, poll, moved, faults>>
BY Zenon DEF Reader, Lock, Unlock, Fetched, FetchFails, ReadBegin

LEMMA ReaderView ==
  ASSUME PollInv, Reader
  PROVE  ViewType'
<1>0. ViewType
  BY Zenon DEF PollInv, TypeOK
<1>1. CASE Lock
  BY <1>0, <1>1, Zenon DEF Lock, ViewType
<1>2. CASE Unlock
  <2>1. shared' = FALSE /\ pending' = None
    BY <1>2, Zenon DEF Unlock
  <2>2. CASE pending = None
    BY <2>1, <2>2, <1>0, <1>2, Zenon DEF Unlock, ViewType
  <2>3. CASE pending # None
    <3>1. PICK u \in Update : u = pending
      BY <2>3, <1>0, Zenon DEF ViewType
    <3>2. Apply(u)
      BY <2>3, <3>1, <1>2, Zenon DEF Unlock
    <3> QED BY <2>1, <3>2, <1>0, ApplyType, Zenon DEF ViewType
  <2> QED BY <2>2, <2>3, Zenon
<1>3. CASE Fetched \/ FetchFails
  BY <1>0, <1>3, Zenon DEF Fetched, FetchFails, ViewType
<1>4. ASSUME NEW p \in Page, ReadBegin(p) PROVE ViewType'
  <2>1. CASE UNCHANGED read
    BY <2>1, <1>0, <1>4, Zenon DEF ReadBegin, ViewType
  <2>2. CASE /\ p \in DOMAIN visible.index
             /\ read' = [page |-> p, elem |-> visible.index[p], stale |-> FALSE]
    <3>1. visible.index \in PageIndex
      BY <1>0, Zenon DEF ViewType
    <3>2. visible.index[p] \in FileInfo
      BY <2>2, <3>1, IndexParts, Zenon
    <3>3. read' \in PageRead
      BY <2>2, <3>2, Zenon DEF PageRead
    <3> QED BY <3>3, <1>0, <1>4, Zenon DEF ReadBegin, ViewType
  <2> QED BY <2>1, <2>2, <1>4, Zenon DEF ReadBegin
<1> QED BY <1>1, <1>2, <1>3, <1>4, Zenon DEF Reader

LEMMA StageView ==
  ASSUME PollInv, Stage
  PROVE  ViewType'
<1>0. ViewType /\ shared' = shared
  BY Zenon DEF PollInv, TypeOK, Stage
<1>1. PICK u \in Update : u = poll.update
  BY Zenon DEF PollInv, TypeOK, PollType, Stage
<1>2. \/ UNCHANGED <<visible, read, pending>>
      \/ pending' = MergedPending(u) /\ UNCHANGED <<visible, read>>
      \/ Apply(u) /\ UNCHANGED pending
  BY <1>1, Zenon DEF Stage
<1>3. CASE UNCHANGED <<visible, read, pending>>
  BY <1>0, <1>3, Zenon DEF ViewType
<1>4. CASE pending' = MergedPending(u) /\ UNCHANGED <<visible, read>>
  BY <1>0, <1>4, MergedPendingType, Zenon DEF ViewType
<1>5. CASE Apply(u) /\ UNCHANGED pending
  BY <1>0, <1>5, ApplyType, Zenon DEF ViewType
<1> QED BY <1>2, <1>3, <1>4, <1>5, Zenon

LEMMA PollInvNext ==
  ASSUME PollInv, [Next]_vars
  PROVE  PollInv'
<1>0. TypeOK /\ StoreType /\ PollType /\ ViewType /\ FilesOK /\ Polling
  BY Zenon DEF PollInv, TypeOK
<1>1. CASE PollL0 \/ PollL1 \/ Detect \/ Rebuild \/ PollFails
  <2>1. UNCHANGED <<db, files, visible, pending, read, shared>>
    BY <1>1, Zenon DEF PollL0, PollL1, Detect, Rebuild, PollFails
  <2>2. StoreType' /\ ViewType' /\ FilesOK'
    BY <2>1, <1>0, Zenon DEF StoreType, ViewType, FilesOK
  <2>3. PollType' /\ Polling'
    BY <1>1, PollL0Polling, PollL1Polling, DetectPolling, RebuildPolling, PollFailsPolling, Zenon
  <2> QED BY <2>2, <2>3, Zenon DEF PollInv, TypeOK
<1>2. CASE Stage
  <2>1. UNCHANGED <<db, files>>
    BY <1>2, Zenon DEF Stage
  <2>2. StoreType' /\ FilesOK'
    BY <2>1, <1>0, Zenon DEF StoreType, FilesOK
  <2> QED BY <2>2, <1>2, StagePolling, StageView, Zenon DEF PollInv, TypeOK
<1>3. CASE Reader \/ UNCHANGED vars
  <2>1. UNCHANGED <<db, files, cursor, poll, moved>>
    BY <1>3, ReaderKeeps, Zenon DEF vars
  <2>2. StoreType' /\ FilesOK' /\ PollType'
    BY <2>1, <1>0, Zenon DEF StoreType, FilesOK, PollType
  <2>3. Placed(cursor)' /\ Level0OK' /\ UpdateOK' /\ DetectOK' /\ NoSilentStall'
    BY <2>1, <1>0, Zenon
    DEF Polling, Placed, Aligned, Level0OK, UpdateOK, DetectOK, NoSilentStall
  <2>4. ViewType'
    BY <1>0, <1>3, ReaderView, Zenon DEF ViewType, vars
  <2> QED BY <2>2, <2>3, <2>4, Zenon DEF PollInv, TypeOK, Polling
<1>4. ASSUME Primary, UNCHANGED <<visible, pending, read, shared>> PROVE PollInv'
  <2>1. Polling' /\ StoreType' /\ FilesOK'
    BY <1>0, <1>4, PrimaryPolling, Zenon DEF Primary
  <2>2. UNCHANGED <<cursor, poll>> /\ moved' \in BOOLEAN
    BY <1>4, Zenon DEF Primary
  <2>3. PollType'
    BY <2>2, <1>0, Zenon DEF PollType
  <2>4. ViewType'
    BY <1>0, <1>4, Zenon DEF ViewType
  <2> QED BY <2>1, <2>3, <2>4, Zenon DEF PollInv, TypeOK
<1>5. ASSUME NEW pages \in SUBSET Page, NEW commit \in Page, Transaction(pages, commit)
      PROVE  PollInv'
  BY <1>0, <1>4, <1>5, TransactionPrimary, Zenon DEF Transaction
<1>6. ASSUME NEW n \in 1 .. Len(db), Compact(n) PROVE PollInv'
  BY <1>0, <1>4, <1>6, CompactPrimary, Zenon DEF Compact
<1>7. CASE Expire
  BY <1>0, <1>4, <1>7, ExpirePrimary, Zenon DEF Expire
<1>8. CASE Supersede
  BY <1>0, <1>4, <1>8, SupersedePrimary, Zenon DEF Supersede
<1> QED
  BY <1>1, <1>2, <1>3, <1>5, <1>6, <1>7, <1>8, Zenon DEF Next, Reader

LEMMA PollInvInit ==
  ASSUME Init
  PROVE  PollInv
<1> USE ReplicaBounds
<1>1. PICK level \in {0, 1} : files = {[level |-> level, min |-> 1, max |-> 1]}
  BY Zenon DEF Init
<1>2. db = <<[pages |-> Page, commit |-> MaxPage]>>
  BY Zenon DEF Init
<1>3. MaxPage \in Page /\ 1 \in 1 .. MaxTX /\ Page \in SUBSET Page
  BY DEF Page
<1>4. StoreType /\ Len(db) = 1
  <2>1. [pages |-> Page, commit |-> MaxPage] \in [pages : SUBSET Page, commit : Page]
    BY <1>3, Zenon
  <2>2. db \in Seq([pages : SUBSET Page, commit : Page]) /\ Len(db) = 1
    BY <1>2, <2>1
  <2>3. files \subseteq FileInfo
    BY <1>1, <1>3 DEF FileInfo
  <2> QED BY <2>2, <2>3, <1>3, Zenon DEF StoreType
<1>5. FilesOK
  BY <1>1, <1>4 DEF FilesOK
<1>6. PICK last1 \in 0 .. 1 :
        /\ LastOf({i \in RestorePlan : i.level = 1}, 0) = last1
        /\ \A i \in files : i.level = 1 => i.max <= last1
        /\ last1 = 0 \/ \E i \in files : i.level = 1 /\ i.max = last1
  BY <1>4, <1>5, PlanCovers, Zenon
<1>7. visible = [index |-> Index(RestorePlan), commit |-> Commit(1), pos |-> 1, max1 |-> last1]
  BY <1>4, <1>5, <1>6, PlanCovers, Zenon DEF Init, BuildSnapshot
<1>8. Index(RestorePlan) \in PageIndex /\ Commit(1) \in Page /\ last1 \in 0 .. MaxTX
  <2>1. Index(RestorePlan) \in PageIndex
    BY <1>4, <1>5, PlanCovers, IndexBest, Zenon
  <2>2. 1 \in 1 .. Len(db)
    BY <1>4
  <2>3. Commit(1) \in Page
    BY <1>4, <2>2, CommitType, Zenon
  <2>4. last1 \in 0 .. MaxTX
    OBVIOUS
  <2> QED BY <2>1, <2>3, <2>4, Zenon
<1>9. cursor = [pos |-> 1, max1 |-> last1, commit |-> Commit(1)]
  <2>1. cursor = [pos |-> visible.pos, max1 |-> visible.max1, commit |-> visible.commit]
    BY Zenon DEF Init, Cursor
  <2>2. visible.pos = 1 /\ visible.max1 = last1 /\ visible.commit = Commit(1)
    BY <1>7, Zenon
  <2> QED BY <2>1, <2>2, Zenon
<1>10. PollType /\ ViewType
  <2>1. poll = [pc |-> "idle", l0 |-> None, update |-> None] /\ moved = FALSE
    BY Zenon DEF Init, IdlePoll
  <2>2. PollType
    <3>1. poll = [pc |-> poll.pc, l0 |-> poll.l0, update |-> poll.update] /\ poll.pc = "idle"
      BY <2>1, Zenon
    <3>2. cursor \in [pos : 1 .. MaxTX, max1 : 0 .. MaxTX, commit : Page]
      BY <1>3, <1>8, <1>9, Zenon
    <3> QED BY <2>1, <3>1, <3>2, Zenon DEF PollType
  <2>3. ViewType
    <3>1. visible \in [index : PageIndex, commit : Page, pos : 1 .. MaxTX, max1 : 0 .. MaxTX]
      BY <1>3, <1>7, <1>8, Zenon
    <3>2. pending = None /\ read = None /\ shared = FALSE
      BY Zenon DEF Init
    <3> QED BY <3>1, <3>2, Zenon DEF ViewType
  <2> QED BY <2>2, <2>3, Zenon
<1>11. Polling
  <2>1. poll.pc = "idle"
    BY Zenon DEF Init, IdlePoll
  <2>2. Level0OK /\ UpdateOK /\ DetectOK /\ NoSilentStall
    BY <2>1, Zenon DEF Level0OK, UpdateOK, DetectOK, NoSilentStall
  <2>3. Aligned(last1)
    <3>1. last1 = 0 \/ \E j \in files : j.level = 1 /\ last1 <= j.max
      BY <1>6
    <3>2. ASSUME NEW i \in files, i.level = 1 PROVE ~(last1 < i.max)
      BY <1>1, <1>6, <3>2
    <3> QED BY <3>1, <3>2, Zenon DEF Aligned
  <2>4. cursor.pos = 1 /\ cursor.max1 = last1
    BY <1>9, Zenon
  <2>5. cursor.pos <= Len(db) /\ cursor.max1 <= cursor.pos
    BY <2>4, <1>4
  <2> QED BY <2>2, <2>3, <2>4, <2>5, Zenon DEF Polling, Placed
<1> QED BY <1>4, <1>5, <1>10, <1>11, Zenon DEF PollInv, TypeOK

\* A poll that succeeds without moving on has missed nothing, whatever the
\* primary compacted, expired or replaced and however late its compactions
\* are: pollReplicaClient with hasSupersedingSnapshot.
THEOREM PollerNotStalled == Spec => []NoSilentStall
<1>1. Init => PollInv
  BY PollInvInit, Zenon
<1>2. PollInv /\ [Next]_vars => PollInv'
  BY PollInvNext, Zenon
<1>3. PollInv => NoSilentStall
  BY Zenon DEF PollInv, Polling
<1> QED BY <1>1, <1>2, <1>3, PTL DEF Spec

-----------------------------------------------------------------------------
(***************************************************************************)
(* Indexes over one another.                                               *)
(***************************************************************************)

LEMMA UntouchedJoin ==
  ASSUME StoreType, NEW b \in 0 .. Len(db), NEW a \in 0 .. b, NEW p,
         Untouched(p, a, b)
  PROVE  /\ \A m \in 0 .. a : Untouched(p, m, a) => Untouched(p, m, b)
         /\ \A m \in a .. b : Untouched(p, m, b)
<1>0. Len(db) \in Nat
  BY LenType, Zenon
<1>1. ASSUME NEW m \in 0 .. a, Untouched(p, m, a), NEW t \in 1 .. Len(db), m < t, t <= b
      PROVE  p \notin db[t].pages
  <2>1. t <= a \/ a < t
    BY <1>0
  <2> QED BY <1>1, <2>1, Zenon DEF Untouched
<1>2. ASSUME NEW m \in a .. b, NEW t \in 1 .. Len(db), m < t, t <= b
      PROVE  p \notin db[t].pages
  <2>1. a < t
    BY <1>0, <1>2
  <2> QED BY <1>2, <2>1, Zenon DEF Untouched
<1> QED BY <1>1, <1>2, Zenon DEF Untouched

\* An index of what has changed since a, over one for a.
LEMMA OverSince ==
  ASSUME StoreType, HistoryOK, NEW new, NEW old, NEW b \in 1 .. Len(db), NEW a \in 1 .. b,
         Since(new, a, b)
  PROVE  /\ Whole(old, a) => Whole(Over(new, old), b)
         /\ \A c \in 1 .. a : Since(old, c, a) => Since(Over(new, old), c, b)
<1>0. /\ Len(db) \in Nat /\ b \in 0 .. Len(db) /\ a \in 0 .. b /\ a \in 1 .. Len(db)
      /\ b \in a .. Len(db)
  BY LenType
<1> DEFINE both == Over(new, old)
<1>1. /\ DOMAIN both = DOMAIN new \cup DOMAIN old
      /\ \A p \in DOMAIN new : both[p] = new[p]
      /\ \A p \in DOMAIN old : p \notin DOMAIN new => both[p] = old[p]
  BY Zenon DEF Over
<1> HIDE DEF both
<1>2. ASSUME NEW p \in 1 .. Commit(b)
      PROVE  \/ Named(both, p, b)
             \/ /\ p \notin DOMAIN new /\ Untouched(p, a, b) /\ p \in 1 .. Commit(a)
                /\ Named(old, p, a) => Named(both, p, b)
  <2>1. CASE Named(new, p, b)
    BY <2>1, <1>1, Zenon DEF Named
  <2>2. CASE p \notin DOMAIN new /\ Untouched(p, a, b)
    <3>1. p \in 1 .. Commit(a)
      BY <2>2, <1>0, NotAdded, Zenon
    <3>2. ASSUME Named(old, p, a) PROVE Named(both, p, b)
      <4>1. /\ both[p] = old[p] /\ p \in DOMAIN both /\ old[p].max \in 1 .. a
            /\ Untouched(p, old[p].max, a)
        BY <3>2, <2>2, <1>1, Zenon DEF Named
      <4>2. old[p].max \in 0 .. a /\ old[p].max \in 1 .. b
        BY <4>1, <1>0
      <4>3. Untouched(p, old[p].max, b)
        BY <2>2, <4>1, <4>2, <1>0, UntouchedJoin, Zenon
      <4> QED BY <4>1, <4>2, <4>3, Zenon DEF Named
    <3> QED BY <2>2, <3>1, <3>2, Zenon
  <2> QED BY <2>1, <2>2, Zenon DEF Since
<1>3. ASSUME Whole(old, a) PROVE Whole(both, b)
  BY <1>2, <1>3, Zenon DEF Whole
<1>4. ASSUME NEW c \in 1 .. a, Since(old, c, a), NEW p \in 1 .. Commit(b), ~Named(both, p, b)
      PROVE  p \notin DOMAIN both /\ Untouched(p, c, b)
  <2>1. /\ p \notin DOMAIN new /\ Untouched(p, a, b) /\ p \notin DOMAIN old
        /\ Untouched(p, c, a)
    BY <1>2, <1>4, Zenon DEF Since
  <2>2. c \in 0 .. a
    BY <1>0
  <2> QED BY <2>1, <2>2, <1>0, <1>1, UntouchedJoin, Zenon
<1> QED BY <1>3, <1>4, Zenon DEF both, Since

LEMMA OnlyWhole ==
  ASSUME NEW index, NEW pos, Whole(index, pos)
  PROVE  Whole(Only(index, 1 .. Commit(pos)), pos)
<1> DEFINE cut == Only(index, 1 .. Commit(pos))
<1>1. ASSUME NEW p \in 1 .. Commit(pos) PROVE Named(cut, p, pos)
  <2>1. Named(index, p, pos)
    BY Zenon DEF Whole
  <2>2. p \in DOMAIN cut /\ cut[p] = index[p]
    BY <2>1, Zenon DEF Only, Named
  <2> HIDE DEF cut
  <2> QED BY <2>1, <2>2, Zenon DEF Named
<1> HIDE DEF cut
<1>2. Whole(cut, pos)
  BY <1>1, Zenon DEF Whole
<1> QED BY <1>2, Zenon DEF cut

\* Every page is written by the first transaction.
LEMMA SinceFirst ==
  ASSUME StoreType, HistoryOK, NEW index, NEW b \in 1 .. Len(db), Since(index, 0, b)
  PROVE  Whole(index, b)
<1>0. 1 \in 1 .. Len(db) /\ 0 < 1 /\ 1 <= b
  BY LenType
<1>1. ASSUME NEW p \in 1 .. Commit(b) PROVE Named(index, p, b)
  <2>1. p \in db[1].pages
    BY CommitType, Zenon DEF HistoryOK
  <2>2. ~Untouched(p, 0, b)
    BY <2>1, <1>0, Zenon DEF Untouched
  <2> QED BY <2>2, Zenon DEF Since
<1> QED BY <1>1, Zenon DEF Whole

LEMMA NamedVersion ==
  ASSUME StoreType, NEW index, NEW p, NEW pos \in 1 .. Len(db), Named(index, p, pos)
  PROVE  Version(p, index[p].max) = Version(p, pos)
BY SameVersion, Zenon DEF Named

-----------------------------------------------------------------------------
(***************************************************************************)
(* What a poll finds takes the position of the poller to a snapshot.       *)
(***************************************************************************)

LEMMA CursorOf ==
  ASSUME VisibleOK
  PROVE  /\ pending = None => cursor.pos = visible.pos
         /\ pending # None => cursor.pos = pending.pos
         /\ cursor.commit = Commit(cursor.pos)
<1>1. /\ Cursor(visible).pos = visible.pos /\ Cursor(visible).commit = visible.commit
      /\ Cursor(pending).pos = pending.pos /\ Cursor(pending).commit = pending.commit
  BY Zenon DEF Cursor
<1> QED BY <1>1, Zenon DEF VisibleOK, Sound

LEMMA PollL0Sound ==
  ASSUME SnapshotInv, PollL0
  PROVE  Level0Sound' /\ UpdateSound'
<1> DEFINE l0 == PollLevel(0, cursor.pos, cursor.commit)
<1>0. /\ TypeOK /\ StoreType /\ FilesOK /\ HistoryOK /\ Placed(cursor)
      /\ cursor.commit = Commit(cursor.pos)
  BY CursorOf, Zenon DEF SnapshotInv, PollInv, Polling, TypeOK
<1>1. /\ poll' = IF l0.failed THEN IdlePoll ELSE [IdlePoll EXCEPT !.pc = "l1", !.l0 = l0]
      /\ UNCHANGED <<db, cursor>>
  BY Zenon DEF PollL0
<1>2. cursor.pos \in 0 .. Len(db) /\ cursor.pos \in Nat /\ Len(db) \in Nat /\ 1 <= cursor.pos
  BY <1>0, CursorType, LenType
<1>3. Listed(l0, 0, cursor.pos, cursor.commit)
  BY <1>0, <1>2, PollLevelLists, Zenon
<1> HIDE DEF l0
<1>4. PICK infos \in SUBSET Chain(0, cursor.pos) :
        /\ l0.index = Index(infos)
        /\ (l0.replace => l0.fromRoot) => infos = Chain(0, cursor.pos)
  BY <1>3, Zenon DEF Listed
<1>5. Chain(0, cursor.pos) \subseteq LTXFiles(0, cursor.pos + 1)
  BY <1>0, <1>2, ChainCovers, Zenon
<1>6. infos \in SUBSET files /\ \A i \in infos : i.level = 0
  BY <1>5, Zenon DEF LTXFiles
<1>7. Covers(Chain(0, cursor.pos), cursor.pos, l0.max) /\ l0.max \in cursor.pos .. Len(db)
  BY <1>3, Zenon DEF Listed
<1>8. l0.commit = Commit(l0.max)
  BY <1>0, <1>3, Zenon DEF Listed
<1>9. ASSUME NEW p \in DOMAIN l0.index
      PROVE  /\ cursor.pos < l0.index[p].max /\ l0.index[p].max <= l0.max
             /\ p \in db[l0.index[p].max].pages
  <2>1. PICK i \in infos : i = l0.index[p] /\ p \in FilePages(i)
    BY <1>0, <1>4, <1>6, IndexBest, Zenon DEF Best
  <2>2. i \in files /\ i.min = i.max /\ cursor.pos < i.min /\ i.max <= l0.max
    BY <1>0, <1>6, <1>7, Zenon DEF FilesOK, Covers
  <2>3. PICK t \in i.min .. i.max : p \in db[t].pages
    BY <1>0, <2>1, <2>2, FilePagesType, Zenon
  <2>4. t = i.max
    BY <2>2, <1>0, FileType
  <2> QED BY <2>1, <2>2, <2>3, <2>4, Zenon
<1>10. ASSUME ~l0.replace PROVE Since(l0.index, cursor.pos, l0.max)
  <2>1. infos = Chain(0, cursor.pos)
    BY <1>4, <1>10, Zenon
  <2>2. l0.max \in 1 .. Len(db) /\ cursor.pos \in 0 .. l0.max
    BY <1>2, <1>7
  <2> QED BY <2>1, <2>2, <1>0, <1>4, <1>6, <1>7, IndexSince, Zenon
<1>11. \/ poll' = [pc |-> "idle", l0 |-> None, update |-> None]
       \/ poll' = [pc |-> "l1", l0 |-> l0, update |-> None]
  BY <1>1, Zenon DEF IdlePoll
<1>12. poll'.pc = "idle" \/ (poll'.pc = "l1" /\ poll'.l0 = l0)
  <2>1. CASE poll' = [pc |-> "idle", l0 |-> None, update |-> None]
    BY <2>1, Zenon
  <2>2. CASE poll' = [pc |-> "l1", l0 |-> l0, update |-> None]
    BY <2>2, Zenon
  <2> QED BY <2>1, <2>2, <1>11, Zenon
<1>13. "idle" \notin {"l1", "detect", "stage"} /\ "l1" \notin {"detect", "stage"}
  OBVIOUS
<1>14. UpdateSound'
  BY <1>12, <1>13, Zenon DEF UpdateSound
<1>15. Level0Sound'
  BY <1>1, <1>8, <1>9, <1>10, <1>12, <1>13, Zenon
  DEF Level0Sound, Commit, Since, Named, Untouched
<1> QED BY <1>14, <1>15, Zenon

\* The entries of level 1 come from files after its cursor.
LEMMA Level1Entries ==
  ASSUME SnapshotInv, poll.pc = "l1"
  PROVE  /\ \A p \in DOMAIN Level1.index :
              /\ Level1.index[p].max \in 1 .. Level1.max
              /\ cursor.pos <= Level1.index[p].max
         /\ Level1.max # cursor.max1 =>
              /\ cursor.pos <= Level1.max
              /\ Level1.commit = Commit(Level1.max)
              /\ (Level1.replace => Level1.fromRoot) =>
                   Since(Level1.index, cursor.max1, Level1.max)
<1> DEFINE l1 == Level1
           chain == Chain(1, cursor.max1)
<1>0. /\ StoreType /\ FilesOK /\ HistoryOK /\ Caught(cursor) /\ Placed(cursor)
      /\ cursor.max1 \in Nat /\ l1.max \in Nat /\ cursor.max1 <= l1.max /\ l1.max <= Len(db)
      /\ Len(db) \in Nat /\ Listed(l1, 1, cursor.max1, poll.l0.commit)
  BY Level1Facts, Zenon DEF SnapshotInv
<1>1. cursor.max1 \in 0 .. Len(db)
  BY <1>0
<1>2. chain \subseteq LTXFiles(1, cursor.max1 + 1)
  BY <1>0, <1>1, ChainCovers, Zenon
<1> HIDE DEF l1, chain
<1>3. PICK infos \in SUBSET chain :
        l1.index = Index(infos) /\ ((l1.replace => l1.fromRoot) => infos = chain)
  BY <1>0, Zenon DEF Listed, chain
<1>4. Covers(chain, cursor.max1, l1.max)
  BY <1>0, Zenon DEF Listed, chain
<1>5. infos \in SUBSET files /\ \A i \in infos : i.level = 1
  BY <1>2, Zenon DEF LTXFiles
<1>6. ASSUME NEW p \in DOMAIN l1.index
      PROVE  l1.index[p].max \in 1 .. l1.max /\ cursor.pos <= l1.index[p].max
  <2>1. PICK i \in infos : i = l1.index[p]
    BY <1>0, <1>3, <1>5, IndexBest, Zenon DEF Best
  <2>2. i \in files /\ i.level = 1 /\ cursor.max1 < i.min /\ i.max <= l1.max
    BY <1>4, <1>5, Zenon DEF Covers
  <2>3. cursor.pos <= i.max
    BY <2>2, <1>0, Zenon DEF Caught
  <2>4. i.max \in 1 .. l1.max
    BY <2>2, <1>0, FileType
  <2> QED BY <2>1, <2>3, <2>4, Zenon
<1>7. ASSUME l1.max # cursor.max1
      PROVE  cursor.pos <= l1.max /\ l1.commit = Commit(l1.max)
  <2>1. \E j \in files : j.level = 1 /\ cursor.max1 < j.min /\ j.max = l1.max
    BY <1>7, <1>0, Zenon DEF Listed
  <2> QED BY <2>1, <1>0, <1>7, Zenon DEF Caught, Listed
<1>8. ASSUME l1.max # cursor.max1, l1.replace => l1.fromRoot
      PROVE  Since(l1.index, cursor.max1, l1.max)
  <2>1. l1.max \in 1 .. Len(db) /\ cursor.max1 \in 0 .. l1.max
    BY <1>0, <1>8
  <2>2. l1.index = Index(chain) /\ chain \in SUBSET files
    BY <1>3, <1>5, <1>8, Zenon
  <2> QED BY <2>1, <2>2, <1>0, <1>4, IndexSince, Zenon
<1> QED BY <1>6, <1>7, <1>8, Zenon DEF l1

\* The index that is merged: level 1 where it is at least as new.
LEMMA MergedIndex ==
  /\ DOMAIN Merged.index = Newer \cup DOMAIN poll.l0.index
  /\ \A p \in Newer : Merged.index[p] = Level1.index[p]
  /\ \A p \in DOMAIN poll.l0.index : p \notin Newer => Merged.index[p] = poll.l0.index[p]
<1>1. DOMAIN Only(Level1.index, Newer) = Newer
  BY Zenon DEF Only, Newer
<1>2. \A p \in Newer : Only(Level1.index, Newer)[p] = Level1.index[p]
  BY Zenon DEF Only, Newer
<1> DEFINE one == Only(Level1.index, Newer)
<1>3. Merged.index = Over(one, poll.l0.index)
  BY MergedParts, Zenon
<1> HIDE DEF one
<1>4. /\ DOMAIN Merged.index = DOMAIN one \cup DOMAIN poll.l0.index
      /\ \A p \in DOMAIN one : Merged.index[p] = one[p]
      /\ \A p \in DOMAIN poll.l0.index : p \notin DOMAIN one => Merged.index[p] = poll.l0.index[p]
  BY <1>3, Zenon DEF Over
<1> QED BY <1>1, <1>2, <1>4, Zenon DEF one

\* Level 0 has the last transaction of the two.
LEMMA MergedByLevel0 ==
  ASSUME SnapshotInv, poll.pc = "l1", ~poll.l0.replace, Merged.pos = poll.l0.max
  PROVE  Since(Merged.index, cursor.pos, Merged.pos)
<1> DEFINE l0 == poll.l0
           l1 == Level1
           pos == Merged.pos
<1>0. PollInv /\ Since(l0.index, cursor.pos, pos)
  BY Zenon DEF SnapshotInv, Level0Sound
<1>1. /\ StoreType /\ pos \in Nat /\ l1.max \in Nat /\ l1.max <= pos /\ cursor.pos \in Nat
      /\ cursor.pos <= pos /\ Len(db) \in Nat /\ pos <= Len(db)
  BY <1>0, Level1Facts, MergedPlaced, Zenon DEF Placed
<1>2. \A p \in DOMAIN l1.index : l1.index[p].max \in 1 .. l1.max /\ cursor.pos <= l1.index[p].max
  BY Level1Entries, Zenon
<1>3. /\ DOMAIN Merged.index = Newer \cup DOMAIN l0.index
      /\ \A p \in Newer : Merged.index[p] = l1.index[p] /\ p \in DOMAIN l1.index
      /\ \A p \in DOMAIN l0.index : p \notin Newer => Merged.index[p] = l0.index[p]
      /\ \A p \in Newer : p \in DOMAIN l0.index => l1.index[p].max >= l0.index[p].max
      /\ \A p \in DOMAIN l1.index : p \notin DOMAIN l0.index => p \in Newer
  BY MergedIndex, Zenon DEF Newer
<1> HIDE DEF l0, l1, pos
<1>4. ASSUME NEW p \in Newer, NEW m \in 0 .. pos, Untouched(p, m, pos), m <= l1.index[p].max
      PROVE  Named(Merged.index, p, pos)
  <2>1. l1.index[p].max \in 1 .. pos /\ l1.index[p].max \in m .. pos
    BY <1>1, <1>2, <1>3, <1>4
  <2>2. pos \in 0 .. Len(db)
    BY <1>1
  <2>3. Untouched(p, l1.index[p].max, pos)
    BY <2>1, <2>2, <1>1, <1>4, UntouchedJoin, Zenon
  <2> QED BY <2>1, <2>3, <1>3, Zenon DEF Named
<1>5. ASSUME NEW p \in 1 .. Commit(pos)
      PROVE  \/ Named(Merged.index, p, pos)
             \/ p \notin DOMAIN Merged.index /\ Untouched(p, cursor.pos, pos)
  <2>1. CASE Named(l0.index, p, pos) /\ p \in Newer
    <3>1. /\ l0.index[p].max \in 1 .. pos /\ Untouched(p, l0.index[p].max, pos)
          /\ l1.index[p].max >= l0.index[p].max /\ l1.index[p].max \in 1 .. l1.max
      BY <2>1, <1>2, <1>3, Zenon DEF Named
    <3>2. l0.index[p].max \in 0 .. pos /\ l0.index[p].max <= l1.index[p].max
      BY <3>1, <1>1
    <3> QED BY <3>1, <3>2, <2>1, <1>4, Zenon
  <2>2. CASE Named(l0.index, p, pos) /\ p \notin Newer
    BY <2>2, <1>3, Zenon DEF Named
  <2>3. CASE p \notin DOMAIN l0.index /\ Untouched(p, cursor.pos, pos)
    <3>1. cursor.pos \in 0 .. pos
      BY <1>1
    <3> QED BY <3>1, <2>3, <1>2, <1>3, <1>4, Zenon
  <2> QED BY <2>1, <2>2, <2>3, <1>0, Zenon DEF Since
<1> QED BY <1>5, Zenon DEF Since, pos

\* Level 1 has it: what level 0 holds is not newer than what level 1 holds.
LEMMA MergedByLevel1 ==
  ASSUME SnapshotInv, poll.pc = "l1", Level1.replace => Level1.fromRoot,
         poll.l0.max < Level1.max, Merged.pos = Level1.max
  PROVE  Since(Merged.index, cursor.max1, Merged.pos)
<1> DEFINE l0 == poll.l0
           l1 == Level1
           pos == Merged.pos
<1>1. /\ PollInv
      /\ \A p \in DOMAIN l0.index :
           LET m == l0.index[p].max IN cursor.pos < m /\ m <= l0.max /\ p \in db[m].pages
  BY Zenon DEF SnapshotInv, Level0Sound
<1>2. /\ pos \in Nat /\ l0.max \in Nat /\ l0.max < pos /\ cursor.pos \in Nat
      /\ cursor.max1 \in Nat /\ cursor.max1 <= cursor.pos /\ cursor.pos <= l0.max
      /\ Len(db) \in Nat /\ pos <= Len(db) /\ l0.index \in PageIndex
  BY <1>1, Level1Facts, MergedPlaced, Zenon DEF Placed
<1>3. cursor.max1 # l1.max
  BY <1>2
<1>4. Since(l1.index, cursor.max1, pos)
  BY <1>3, Level1Entries, Zenon
<1>5. /\ DOMAIN Merged.index = Newer \cup DOMAIN l0.index
      /\ \A p \in Newer : Merged.index[p] = l1.index[p] /\ p \in DOMAIN l1.index
      /\ \A p \in DOMAIN l1.index : p \in Newer \/ ~(l1.index[p].max >= l0.index[p].max)
      /\ \A p \in DOMAIN l1.index : p \notin DOMAIN l0.index => p \in Newer
  BY MergedIndex, Zenon DEF Newer
<1>6. \A p \in DOMAIN l0.index : l0.index[p].max \in Nat
  <2>1. \A p \in DOMAIN l0.index : l0.index[p].max \in 1 .. MaxTX
    BY <1>2, IndexParts, Zenon DEF FileInfo
  <2> QED BY <2>1
<1> HIDE DEF l0, l1, pos
<1>7. ASSUME NEW p \in DOMAIN l0.index, NEW m \in Nat, m < l0.index[p].max, Untouched(p, m, pos)
      PROVE  FALSE
  <2>1. /\ cursor.pos < l0.index[p].max /\ l0.index[p].max <= l0.max
        /\ p \in db[l0.index[p].max].pages
    BY <1>1, Zenon
  <2>2. l0.index[p].max \in 1 .. Len(db) /\ l0.index[p].max <= pos
    BY <2>1, <1>2, <1>6
  <2> QED BY <2>1, <2>2, <1>7, Zenon DEF Untouched
<1>8. ASSUME NEW p \in 1 .. Commit(pos)
      PROVE  \/ Named(Merged.index, p, pos)
             \/ p \notin DOMAIN Merged.index /\ Untouched(p, cursor.max1, pos)
  <2>1. CASE Named(l1.index, p, pos)
    <3>1. p \in DOMAIN l1.index /\ l1.index[p].max \in 1 .. pos /\ Untouched(p, l1.index[p].max, pos)
      BY <2>1, Zenon DEF Named
    <3>2. p \in Newer
      <4> SUFFICES ASSUME p \notin Newer PROVE FALSE
        BY Zenon
      <4>1. p \in DOMAIN l0.index /\ ~(l1.index[p].max >= l0.index[p].max)
        BY <3>1, <1>5, Zenon
      <4>2. l1.index[p].max \in Nat /\ l1.index[p].max < l0.index[p].max
        BY <3>1, <4>1, <1>2, <1>6
      <4> QED BY <3>1, <4>1, <4>2, <1>7, Zenon
    <3> QED BY <3>1, <3>2, <1>5, Zenon DEF Named
  <2>2. CASE p \notin DOMAIN l1.index /\ Untouched(p, cursor.max1, pos)
    <3>1. p \notin DOMAIN l0.index
      <4> SUFFICES ASSUME p \in DOMAIN l0.index PROVE FALSE
        BY Zenon
      <4>1. cursor.pos < l0.index[p].max
        BY <1>1, Zenon
      <4>2. cursor.max1 < l0.index[p].max
        BY <4>1, <1>2, <1>6
      <4> QED BY <4>2, <2>2, <1>2, <1>7, Zenon
    <3> QED BY <3>1, <2>2, <1>5, Zenon
  <2> QED BY <2>1, <2>2, <1>4, Zenon DEF Since
<1> QED BY <1>8, Zenon DEF Since, pos

LEMMA MergedAt ==
  ASSUME SnapshotInv, poll.pc = "l1"
  PROVE  Merged.commit = Commit(Merged.pos)
<1> DEFINE l0 == poll.l0
           l1 == Level1
<1>0. /\ PollInv /\ l0.commit = Commit(l0.max) /\ cursor.commit = Commit(cursor.pos)
  BY CursorOf, Zenon DEF SnapshotInv, Level0Sound
<1>1. /\ l0.max \in Nat /\ l1.max \in Nat /\ cursor.pos \in Nat /\ cursor.max1 \in Nat
      /\ cursor.pos <= l0.max /\ cursor.max1 <= cursor.pos /\ cursor.max1 <= l1.max
      /\ Merged.pos \in Nat
      /\ Merged.pos = l0.max \/ (Merged.pos = l1.max /\ l0.max < l1.max)
      /\ l1.max <= Merged.pos /\ l0.max <= Merged.pos
      /\ Listed(l1, 1, cursor.max1, l0.commit)
  BY <1>0, Level1Facts, MergedPlaced, Zenon
<1>2. l1.max # cursor.max1 => cursor.pos <= l1.max /\ l1.commit = Commit(l1.max)
  BY Level1Entries, Zenon
<1>3. l1.max = cursor.max1 => l1.index = Empty
  BY <1>1, Zenon DEF Listed
<1>4. /\ l0.max = cursor.pos => l0.index = Empty
      /\ Merged.commit =
           IF l0.max >= l1.max /\ (l0.max > cursor.pos \/ l0.index # Empty) THEN l0.commit
           ELSE IF l1.max > cursor.max1 \/ l1.index # Empty THEN l1.commit ELSE cursor.commit
  BY <1>0, MergedParts, Zenon DEF MergedCommit, PollInv, Polling, Level0OK
<1> HIDE DEF l0, l1
<1>5. CASE l0.max >= l1.max /\ (l0.max > cursor.pos \/ l0.index # Empty)
  <2>1. Merged.pos = l0.max
    BY <1>1, <1>5
  <2> QED BY <2>1, <1>0, <1>4, <1>5, Zenon
<1>6. CASE /\ ~(l0.max >= l1.max /\ (l0.max > cursor.pos \/ l0.index # Empty))
           /\ l1.max # cursor.max1
  <2>1. l1.max > cursor.max1
    BY <1>1, <1>6
  <2>2. Merged.pos = l1.max
    BY <1>1, <1>2, <1>6
  <2> QED BY <2>1, <2>2, <1>2, <1>4, <1>6, Zenon
<1>7. CASE /\ ~(l0.max >= l1.max /\ (l0.max > cursor.pos \/ l0.index # Empty))
           /\ l1.max = cursor.max1
  <2>1. ~(l1.max > cursor.max1) /\ Merged.pos = cursor.pos
    BY <1>1, <1>7
  <2> QED BY <2>1, <1>0, <1>3, <1>4, <1>7, Zenon
<1> QED BY <1>5, <1>6, <1>7, Zenon

LEMMA MergedSound ==
  ASSUME SnapshotInv, poll.pc = "l1", ~Level1.failed, ~Rebuilds
  PROVE  Sound(Merged, cursor.pos) /\ Caught(Merged)
<1> DEFINE l0 == poll.l0
           l1 == Level1
           pos == Merged.pos
<1>0. PollInv /\ HistoryOK
  BY Zenon DEF SnapshotInv
<1>1. /\ l0.max \in Nat /\ l1.max \in Nat /\ cursor.pos \in Nat /\ cursor.max1 \in Nat
      /\ cursor.pos <= pos /\ cursor.max1 <= cursor.pos /\ cursor.max1 <= l1.max
      /\ 1 <= cursor.pos /\ pos \in Nat /\ pos <= Len(db) /\ Len(db) \in Nat
      /\ pos = l0.max \/ (pos = l1.max /\ l0.max < l1.max)
      /\ l1.max <= pos /\ l0.gapAt \in Nat /\ StoreType /\ FilesOK
      /\ Listed(l1, 1, cursor.max1, l0.commit)
  BY <1>0, Level1Facts, MergedPlaced, Zenon DEF Placed
<1>2. /\ l0.gapAt # 0 => l0.gapAt > l0.max + 1
      /\ ~l0.fromRoot
  BY <1>0, Zenon DEF PollInv, Polling, Level0OK
<1>3. (l1.replace => l1.fromRoot) /\ pos = l1.max /\ l0.max < l1.max =>
        Since(Merged.index, cursor.max1, pos)
  BY MergedByLevel1, Zenon
<1>4. ~l0.replace /\ pos = l0.max => Since(Merged.index, cursor.pos, pos)
  BY MergedByLevel0, Zenon
<1>5. /\ Merged.replace = Safe /\ Merged.commit = Commit(pos) /\ Merged.max1 = l1.max
  BY MergedParts, MergedAt, Zenon
<1> HIDE DEF l0, l1, pos
<1>6. ASSUME Safe PROVE Sound(Merged, cursor.pos)
  <2>1. Bridged /\ l1.replace /\ l1.fromRoot
    BY <1>2, <1>6, Zenon DEF Safe, CompleteSnapshot, l0, l1
  <2>2. l0.gapAt # 0 /\ l1.max + 1 >= l0.gapAt
    BY <2>1, Zenon DEF Bridged, l0, l1
  <2>3. cursor.max1 = 0
    BY <2>1, <1>1, Zenon DEF Listed
  <2>4. pos = l1.max /\ l0.max < l1.max
    BY <2>2, <1>1, <1>2
  <2>5. Since(Merged.index, 0, pos) /\ pos \in 1 .. Len(db)
    BY <2>1, <2>3, <2>4, <1>1, <1>3
  <2>6. Whole(Merged.index, pos)
    BY <2>5, <1>0, <1>1, SinceFirst, Zenon
  <2> QED BY <2>6, <1>5, <1>6, Zenon DEF Sound, pos
<1>7. ASSUME ~Safe PROVE Sound(Merged, cursor.pos)
  <2>1. ~l0.replace /\ ~l1.replace
    BY <1>7, Zenon DEF Rebuilds, Replaces, l0, l1
  <2>2. CASE pos = l0.max
    BY <2>1, <2>2, <1>1, <1>4, <1>5, <1>7, Zenon DEF Sound, pos
  <2>3. CASE pos = l1.max /\ l0.max < l1.max
    <3>1. Since(Merged.index, cursor.max1, pos)
      BY <2>1, <2>3, <1>3, Zenon
    <3>2. pos \in 0 .. Len(db) /\ cursor.max1 \in 0 .. pos /\ cursor.pos \in cursor.max1 .. pos
      BY <1>1
    <3>3. \A p : Untouched(p, cursor.max1, pos) => Untouched(p, cursor.pos, pos)
      BY <3>2, <1>1, UntouchedJoin, Zenon
    <3>4. Since(Merged.index, cursor.pos, pos)
      BY <3>1, <3>3, Zenon DEF Since
    <3> QED BY <3>4, <1>1, <1>5, <1>7, Zenon DEF Sound, pos
  <2> QED BY <2>2, <2>3, <1>1, Zenon
<1>8. Caught(Merged)
  <2> SUFFICES ASSUME NEW i \in files, i.level = 1, l1.max < i.min PROVE FALSE
    BY <1>5, Zenon DEF Caught
  <2>1. l1.gapAt = 0
    BY <1>1 DEF Listed
  <2>2. i.min \in Nat /\ i.max \in Nat /\ i.min <= i.max
    BY <1>1, FileType, Zenon
  <2>3. cursor.max1 < i.min
    BY <2>2, <1>1
  <2>4. i.max <= l1.max
    BY <2>1, <2>3, <1>1, Zenon DEF Listed, l1
  <2> QED BY <2>2, <2>4, <1>1
<1> QED BY <1>6, <1>7, <1>8, Zenon

LEMMA PollL1Sound ==
  ASSUME SnapshotInv, PollL1
  PROVE  Level0Sound' /\ UpdateSound'
<1>1. poll.pc = "l1" /\ UNCHANGED <<db, files, cursor>>
  BY PollL1Step, Zenon
<1>2. \/ poll' = [pc |-> "idle", l0 |-> None, update |-> None]
      \/ poll' = [pc |-> "rebuild", l0 |-> None, update |-> None]
      \/ /\ ~Level1.failed /\ ~Rebuilds
         /\ \/ poll' = [pc |-> "detect", l0 |-> None, update |-> Merged]
            \/ poll' = [pc |-> "stage", l0 |-> None, update |-> Merged]
  BY PollL1Step, Zenon
<1>3. \/ poll'.pc = "idle" \/ poll'.pc = "rebuild"
      \/ /\ ~Level1.failed /\ ~Rebuilds /\ poll'.pc \in {"detect", "stage"}
         /\ poll'.update = Merged
  <2>1. CASE poll' = [pc |-> "idle", l0 |-> None, update |-> None]
    BY <2>1, Zenon
  <2>2. CASE poll' = [pc |-> "rebuild", l0 |-> None, update |-> None]
    BY <2>2, Zenon
  <2>3. CASE poll' = [pc |-> "detect", l0 |-> None, update |-> Merged]
    BY <2>3, <1>2
  <2>4. CASE poll' = [pc |-> "stage", l0 |-> None, update |-> Merged]
    BY <2>4, <1>2
  <2> QED BY <2>1, <2>2, <2>3, <2>4, <1>2, Zenon
<1>4. poll'.pc # "l1"
  BY <1>3
<1>5. Level0Sound'
  BY <1>4, Zenon DEF Level0Sound
<1>6. UpdateSound'
  <2>1. "idle" \notin {"detect", "stage"} /\ "rebuild" \notin {"detect", "stage"}
    OBVIOUS
  <2>2. poll'.pc \in {"detect", "stage"} =>
          Sound(Merged, cursor.pos) /\ Caught(Merged) /\ poll'.update = Merged
    BY <2>1, <1>1, <1>3, MergedSound, Zenon
  <2>3. PICK u : u = Merged
    BY Zenon
  <2> QED
    BY <2>2, <2>3, <1>1, Zenon
    DEF UpdateSound, Sound, Whole, Since, Named, Untouched, Commit, Caught
<1> QED BY <1>5, <1>6, Zenon

LEMMA RebuildSound ==
  ASSUME SnapshotInv, Rebuild
  PROVE  Level0Sound' /\ UpdateSound'
<1>0. StoreType /\ FilesOK /\ HistoryOK /\ PollInv
  BY Zenon DEF SnapshotInv, PollInv, TypeOK
<1>1. poll.pc = "rebuild" /\ UNCHANGED <<db, files, cursor>>
  BY Zenon DEF Rebuild
<1>2. PICK u : u = poll'.update
  BY Zenon
<1>3. /\ poll'.pc = "stage" /\ u \in Update /\ u.index = Index(RestorePlan) /\ u.replace
      /\ u.commit = Commit(Len(db)) /\ u.pos = Len(db)
      /\ \A i \in files : i.level = 1 => i.max <= u.max1
  BY <1>0, <1>1, <1>2, RebuiltUpdate, Zenon
<1>4. Len(db) \in 1 .. Len(db) /\ 0 \in 0 .. Len(db)
  BY <1>0, LenType
<1>5. Since(Index(RestorePlan), 0, Len(db))
  BY <1>0, <1>4, PlanCovers, IndexSince, Zenon
<1>6. Whole(u.index, u.pos)
  BY <1>0, <1>3, <1>4, <1>5, SinceFirst, Zenon
<1>7. Sound(u, cursor.pos)
  BY <1>3, <1>6, Zenon DEF Sound
<1>8. Caught(u)
  <2>1. u.max1 \in 0 .. MaxTX
    BY <1>3, Zenon DEF Update
  <2>2. \A i \in files : i.level = 1 => ~(u.max1 < i.min)
    BY <2>1, <1>0, <1>3, FileType, LenType
  <2> QED BY <2>2, Zenon DEF Caught
<1>9. UpdateSound'
  BY <1>1, <1>2, <1>7, <1>8, Zenon
  DEF UpdateSound, Sound, Whole, Since, Named, Untouched, Commit, Caught
<1>10. "stage" # "l1"
  OBVIOUS
<1> QED BY <1>3, <1>9, <1>10, Zenon DEF Level0Sound

-----------------------------------------------------------------------------
(***************************************************************************)
(* Staging, applying and reading.                                          *)
(***************************************************************************)

LEMMA VisibleType ==
  ASSUME SnapshotInv
  PROVE  /\ StoreType /\ HistoryOK /\ ViewType /\ VisibleOK /\ Len(db) \in Nat
         /\ visible.pos \in 1 .. Len(db) /\ visible.commit = Commit(visible.pos)
         /\ Whole(visible.index, visible.pos) /\ visible.index \in PageIndex
<1>1. StoreType /\ HistoryOK /\ ViewType /\ VisibleOK
  BY Zenon DEF SnapshotInv, PollInv, TypeOK
<1>2. visible.pos \in 1 .. MaxTX /\ visible.index \in PageIndex /\ visible.pos <= Len(db)
  BY <1>1, Zenon DEF ViewType, VisibleOK
<1>3. Len(db) \in Nat /\ MaxTX \in Nat
  BY <1>1, LenType, Zenon
<1>4. visible.pos \in 1 .. Len(db)
  BY <1>2, <1>3
<1> QED BY <1>1, <1>2, <1>3, <1>4, Zenon DEF VisibleOK

LEMMA ApplySound ==
  ASSUME SnapshotInv, NEW u \in Update, u.pos <= Len(db), Sound(u, visible.pos), Apply(u)
  PROVE  /\ visible'.pos = u.pos /\ visible'.commit = u.commit /\ visible'.max1 = u.max1
         /\ Whole(visible'.index, u.pos)
         /\ \A p \in DOMAIN cache' :
              p \in Page /\ (p <= u.commit => cache'[p] = Version(p, u.pos))
         /\ read' # None => read'.stale
<1>0. /\ StoreType /\ HistoryOK /\ ViewType /\ Len(db) \in Nat
      /\ visible.pos \in 1 .. Len(db) /\ visible.commit = Commit(visible.pos)
      /\ Whole(visible.index, visible.pos)
  BY VisibleType, Zenon
<1>1. u.pos \in 1 .. Len(db) /\ u.commit = Commit(u.pos)
  <2>1. u.pos \in 1 .. MaxTX /\ u.commit = Commit(u.pos)
    BY Zenon DEF Update, Sound
  <2> QED BY <2>1, <1>0
<1>2. /\ visible'.index = IF u.replace THEN Only(u.index, 1 .. u.commit)
                          ELSE Over(u.index, visible.index)
      /\ visible'.commit = u.commit /\ visible'.pos = u.pos /\ visible'.max1 = u.max1
      /\ read' # None => read'.stale
  BY <1>0, ApplyType, Zenon
<1>3. cache' = IF u.replace THEN Empty ELSE Only(cache, Page \ DOMAIN u.index)
  BY Zenon DEF Apply
<1>4. CASE u.replace
  <2>1. Whole(visible'.index, u.pos)
    BY <1>1, <1>2, <1>4, OnlyWhole, Zenon DEF Sound
  <2>2. DOMAIN cache' = {}
    BY <1>3, <1>4, EmptyDomain, Zenon
  <2> QED BY <2>1, <2>2, <1>2, Zenon
<1>5. CASE ~u.replace
  <2>1. visible.pos <= u.pos /\ Since(u.index, visible.pos, u.pos)
    BY <1>5, Zenon DEF Sound
  <2>2. visible.pos \in 1 .. u.pos /\ u.pos \in visible.pos .. Len(db)
    BY <2>1, <1>0, <1>1
  <2>3. Whole(visible'.index, u.pos)
    <3>1. PICK new, old : new = u.index /\ old = visible.index
      BY Zenon
    <3>2. Since(new, visible.pos, u.pos) /\ Whole(old, visible.pos)
      BY <2>1, <3>1, <1>0, Zenon
    <3>3. Whole(Over(new, old), u.pos)
      BY <3>2, <2>2, <1>0, <1>1, OverSince, Zenon
    <3> QED BY <3>1, <3>3, <1>2, <1>5, Zenon
  <2>4. ASSUME NEW p \in DOMAIN cache'
        PROVE  p \in Page /\ (p <= u.commit => cache'[p] = Version(p, u.pos))
    <3>1. p \in DOMAIN cache /\ p \in Page /\ p \notin DOMAIN u.index /\ cache'[p] = cache[p]
      BY <1>3, <1>5, Zenon DEF Only
    <3>2. ASSUME p <= u.commit PROVE cache'[p] = Version(p, u.pos)
      <4>1. p \in 1 .. Commit(u.pos)
        BY <3>1, <3>2, <1>0, <1>1, CommitType, ReplicaBounds DEF Page
      <4>2. Untouched(p, visible.pos, u.pos)
        BY <2>1, <3>1, <4>1, Zenon DEF Since, Named
      <4>3. p \in 1 .. Commit(visible.pos)
        BY <2>2, <4>1, <4>2, <1>0, NotAdded, Zenon
      <4>4. p <= visible.commit
        BY <4>3, <1>0, CommitType
      <4>5. cache[p] = Version(p, visible.pos)
        BY <3>1, <4>4, Zenon DEF SnapshotInv, ReaderOK
      <4>6. Version(p, visible.pos) = Version(p, u.pos)
        BY <2>2, <4>2, <1>0, <1>1, SameVersion, Zenon
      <4> QED BY <3>1, <4>5, <4>6, Zenon
    <3> QED BY <3>1, <3>2, Zenon
  <2> QED BY <2>3, <2>4, <1>2, Zenon
<1> QED BY <1>4, <1>5, Zenon

\* What is held back, with one more update.
LEMMA MergedPendingSound ==
  ASSUME SnapshotInv, NEW u \in Update, u.pos <= Len(db), Sound(u, cursor.pos)
  PROVE  Sound(MergedPending(u), visible.pos)
<1>0. /\ StoreType /\ HistoryOK /\ ViewType /\ VisibleOK /\ Len(db) \in Nat
      /\ visible.pos \in 1 .. Len(db)
  BY VisibleType, Zenon
<1>1. CASE u.replace
  BY <1>1, <1>0, MergedPendingType, Zenon DEF Sound
<1>2. CASE pending = None
  BY <1>2, <1>0, MergedPendingType, CursorOf, Zenon
<1>3. CASE ~u.replace /\ pending # None
  <2>1. PICK v : v = MergedPending(u)
    BY Zenon
  <2>2. /\ v.commit = u.commit /\ v.pos = u.pos /\ v.replace = pending.replace
        /\ v.index = Over(u.index, pending.index)
    BY <2>1, <1>0, <1>3, MergedPendingType, Zenon
  <2>3. /\ pending \in Update /\ pending.pos <= Len(db) /\ Sound(pending, visible.pos)
        /\ cursor.pos = pending.pos
    BY <1>0, <1>3, CursorOf, Zenon DEF ViewType, VisibleOK
  <2>4. /\ u.commit = Commit(u.pos) /\ pending.pos <= u.pos /\ u.pos \in 1 .. MaxTX
        /\ Since(u.index, pending.pos, u.pos) /\ pending.pos \in 1 .. MaxTX
    BY <2>3, <1>3, Zenon DEF Sound, Update
  <2>5. u.pos \in 1 .. Len(db) /\ pending.pos \in 1 .. u.pos
    BY <2>3, <2>4, <1>0
  <2>6. /\ Whole(pending.index, pending.pos) => Whole(v.index, u.pos)
        /\ \A c \in 1 .. pending.pos :
             Since(pending.index, c, pending.pos) => Since(v.index, c, u.pos)
    <3>1. PICK new, old : new = u.index /\ old = pending.index
      BY Zenon
    <3>2. Since(new, pending.pos, u.pos)
      BY <2>4, <3>1, Zenon
    <3>3. /\ Whole(old, pending.pos) => Whole(Over(new, old), u.pos)
          /\ \A c \in 1 .. pending.pos :
               Since(old, c, pending.pos) => Since(Over(new, old), c, u.pos)
      BY <3>2, <2>5, <1>0, OverSince, Zenon
    <3> QED BY <3>1, <3>3, <2>2, Zenon
  <2>7. CASE pending.replace
    BY <2>1, <2>2, <2>3, <2>4, <2>6, <2>7, Zenon DEF Sound
  <2>8. CASE ~pending.replace
    <3>1. visible.pos <= pending.pos /\ Since(pending.index, visible.pos, pending.pos)
      BY <2>3, <2>8, Zenon DEF Sound
    <3>2. visible.pos <= u.pos /\ visible.pos \in 1 .. pending.pos
      BY <3>1, <2>5, <1>0
    <3> QED BY <3>1, <3>2, <2>1, <2>2, <2>4, <2>6, <2>8, Zenon DEF Sound
  <2> QED BY <2>7, <2>8, Zenon
<1> QED BY <1>1, <1>2, <1>3, Zenon

\* What the invariant says of the history and the view, after a step.
ViewOK == HistoryOK /\ Caught(cursor) /\ VisibleOK /\ ReaderOK

LEMMA PollSnapshot ==
  ASSUME SnapshotInv, PollL0 \/ PollL1 \/ Detect \/ Rebuild \/ PollFails
  PROVE  ViewOK' /\ Level0Sound' /\ UpdateSound'
<1>1. UNCHANGED <<db, files, cursor, visible, pending, cache, shared, read, pinned, torn>>
  BY Zenon DEF PollL0, PollL1, Detect, Rebuild, PollFails
<1>2. HistoryOK' /\ Caught(cursor)'
  BY <1>1, Zenon DEF SnapshotInv, HistoryOK, Caught
<1>3. VisibleOK'
  BY <1>1, Zenon
  DEF SnapshotInv, VisibleOK, Cursor, Commit, Whole, Sound, Since, Named, Untouched
<1>4. ReaderOK'
  BY <1>1, Zenon DEF SnapshotInv, ReaderOK, Version
<1>5. CASE Detect
  <2>1. poll = [pc |-> poll.pc, l0 |-> poll.l0, update |-> poll.update] /\ poll.pc = "detect"
    BY <1>5, Zenon DEF SnapshotInv, PollInv, TypeOK, PollType, Detect
  <2>2. PICK pc \in {"rebuild", "stage"} : poll' = [poll EXCEPT !.pc = pc]
    BY <1>5, Zenon DEF Detect
  <2>3. poll'.pc = pc /\ poll'.update = poll.update
    BY <2>1, <2>2
  <2>4. pc # "l1" /\ poll.pc \in {"detect", "stage"}
    BY <2>1
  <2>5. Sound(poll.update, cursor.pos) /\ Caught(poll.update)
    BY <2>4, Zenon DEF SnapshotInv, UpdateSound
  <2>6. UpdateSound'
    BY <2>3, <2>5, <1>1, Zenon
    DEF UpdateSound, Sound, Whole, Since, Named, Untouched, Commit, Caught
  <2> QED BY <2>3, <2>4, <2>6, <1>2, <1>3, <1>4, Zenon DEF ViewOK, Level0Sound
<1>6. CASE PollFails
  <2>1. poll' = [pc |-> "idle", l0 |-> None, update |-> None]
    BY <1>6, Zenon DEF PollFails, IdlePoll
  <2>2. poll'.pc = "idle" /\ "idle" \notin {"l1", "detect", "stage"}
    BY <2>1
  <2>3. Level0Sound' /\ UpdateSound'
    BY <2>2, Zenon DEF Level0Sound, UpdateSound
  <2> QED BY <2>3, <1>2, <1>3, <1>4, Zenon DEF ViewOK
<1>7. CASE PollL0 \/ PollL1 \/ Rebuild
  BY <1>2, <1>3, <1>4, <1>7, PollL0Sound, PollL1Sound, RebuildSound, Zenon DEF ViewOK
<1> QED BY <1>5, <1>6, <1>7, Zenon

LEMMA StageSnapshot ==
  ASSUME SnapshotInv, Stage
  PROVE  ViewOK' /\ Level0Sound' /\ UpdateSound'
<1>0. ViewType /\ VisibleOK /\ ReaderOK /\ HistoryOK
  BY Zenon DEF SnapshotInv, PollInv, TypeOK
<1>1. /\ poll' = [pc |-> "idle", l0 |-> None, update |-> None] /\ poll.pc = "stage"
      /\ UNCHANGED <<db, files, shared, pinned, torn>>
  BY Zenon DEF Stage, IdlePoll
<1>2. PICK u \in Update : u = poll.update
  BY <1>1, Zenon DEF SnapshotInv, PollInv, TypeOK, PollType
<1>3. cursor' = Cursor(u) /\ u.pos <= Len(db) /\ Sound(u, cursor.pos) /\ Caught(u)
  BY <1>1, <1>2, Zenon DEF Stage, SnapshotInv, PollInv, Polling, UpdateOK, Placed, UpdateSound
<1>4. Level0Sound' /\ UpdateSound'
  <2>1. poll'.pc = "idle" /\ "idle" \notin {"l1", "detect", "stage"}
    BY <1>1
  <2> QED BY <2>1, Zenon DEF Level0Sound, UpdateSound
<1>5. HistoryOK' /\ Caught(cursor)'
  <2>1. cursor'.pos = u.pos /\ cursor'.max1 = u.max1
    BY <1>3, Zenon DEF Cursor
  <2> QED BY <2>1, <1>0, <1>1, <1>3, Zenon DEF HistoryOK, Caught
<1>6. VisibleOK' /\ ReaderOK'
  <2>1. CASE /\ Cursor(u) = IF pending = None THEN Cursor(visible) ELSE Cursor(pending)
             /\ UNCHANGED <<visible, cache, read, pending>>
    <3>1. VisibleOK'
      BY <2>1, <1>0, <1>1, <1>3, Zenon
      DEF VisibleOK, Cursor, Commit, Whole, Sound, Since, Named, Untouched
    <3>2. ReaderOK'
      BY <2>1, <1>0, <1>1, Zenon DEF ReaderOK, Version
    <3> QED BY <3>1, <3>2, Zenon
  <2>2. CASE shared /\ pending' = MergedPending(u) /\ UNCHANGED <<visible, cache, read>>
    <3>1. PICK v : v = MergedPending(u)
      BY Zenon
    <3>2. /\ v \in Update /\ v.commit = u.commit /\ v.pos = u.pos /\ v.max1 = u.max1
          /\ Sound(v, visible.pos) /\ v # None
      BY <3>1, <1>0, <1>3, MergedPendingType, MergedPendingSound, NoneAssumption, Zenon
    <3>3. cursor' = Cursor(v)
      BY <3>2, <1>3, Zenon DEF Cursor
    <3>4. VisibleOK'
      <4>1. /\ cursor' = Cursor(pending)'
            /\ pending' # None /\ shared' /\ pending'.pos <= Len(db')
        BY <2>2, <3>1, <3>2, <3>3, <1>1, <1>3, Zenon DEF Cursor
      <4>2. Sound(pending, visible.pos)'
        BY <2>2, <3>1, <3>2, <1>1, Zenon
        DEF Commit, Whole, Sound, Since, Named, Untouched
      <4>3. (/\ visible.pos <= Len(db) /\ visible.commit = Commit(visible.pos)
             /\ Whole(visible.index, visible.pos))'
        BY <2>2, <1>0, <1>1, Zenon DEF VisibleOK, Commit, Whole, Named, Untouched
      <4> QED BY <4>1, <4>2, <4>3, Zenon DEF VisibleOK
    <3>5. ReaderOK'
      BY <2>2, <1>0, <1>1, Zenon DEF ReaderOK, Version
    <3> QED BY <3>4, <3>5, Zenon
  <2>3. CASE ~shared /\ Apply(u) /\ UNCHANGED pending
    <3>1. pending = None /\ Sound(u, visible.pos)
      BY <2>3, <1>0, <1>3, CursorOf, Zenon DEF VisibleOK
    <3>2. PICK v, c : v = visible' /\ c = cache'
      BY Zenon
    <3>3. /\ v.pos = u.pos /\ v.commit = u.commit /\ v.max1 = u.max1
          /\ Whole(v.index, u.pos)
          /\ \A p \in DOMAIN c : p \in Page /\ (p <= u.commit => c[p] = Version(p, u.pos))
          /\ read' # None => read'.stale
      BY <2>3, <3>1, <3>2, <1>3, ApplySound, Zenon
    <3>4. u.commit = Commit(u.pos) /\ Cursor(u) = Cursor(v)
      BY <3>3, <1>3, Zenon DEF Sound, Cursor
    <3>5. VisibleOK'
      BY <2>3, <3>1, <3>2, <3>3, <3>4, <1>1, <1>3, Zenon
      DEF VisibleOK, Cursor, Commit, Whole, Named, Untouched
    <3>6. ReaderOK'
      BY <2>3, <3>2, <3>3, <1>0, <1>1, Zenon DEF ReaderOK, Version
    <3> QED BY <3>5, <3>6, Zenon
  <2> QED BY <2>1, <2>2, <2>3, <1>2, Zenon DEF Stage
<1> QED BY <1>4, <1>5, <1>6, Zenon DEF ViewOK

LEMMA LockSnapshot ==
  ASSUME SnapshotInv, Lock \/ Unlock
  PROVE  VisibleOK' /\ ReaderOK'
<1>0. ViewType /\ VisibleOK /\ ReaderOK
  BY Zenon DEF SnapshotInv, PollInv, TypeOK
<1>1. UNCHANGED <<db, cursor, torn>>
  BY Zenon DEF Lock, Unlock
<1>2. CASE Lock
  <2>1. /\ shared' = TRUE /\ pinned' = visible.pos
        /\ UNCHANGED <<visible, pending, cache, read>>
    BY <1>2, Zenon DEF Lock
  <2>2. VisibleOK'
    BY <2>1, <1>0, <1>1, Zenon
    DEF VisibleOK, Cursor, Commit, Whole, Sound, Since, Named, Untouched
  <2>3. ReaderOK'
    BY <2>1, <1>0, <1>1, Zenon DEF ReaderOK, Version
  <2> QED BY <2>2, <2>3, Zenon
<1>3. CASE Unlock
  <2>1. /\ shared' = FALSE /\ pending' = None
        /\ IF pending = None THEN UNCHANGED <<visible, cache, read>> ELSE Apply(pending)
    BY <1>3, Zenon DEF Unlock
  <2>2. CASE pending = None
    <3>1. VisibleOK'
      BY <2>1, <2>2, <1>0, <1>1, Zenon
      DEF VisibleOK, Cursor, Commit, Whole, Sound, Since, Named, Untouched
    <3>2. ReaderOK'
      BY <2>1, <2>2, <1>0, <1>1, Zenon DEF ReaderOK, Version
    <3> QED BY <3>1, <3>2, Zenon
  <2>3. CASE pending # None
    <3>1. PICK u \in Update : u = pending
      BY <2>3, <1>0, Zenon DEF ViewType
    <3>2. /\ Apply(u) /\ u.pos <= Len(db) /\ Sound(u, visible.pos)
          /\ cursor = [pos |-> u.pos, max1 |-> u.max1, commit |-> u.commit]
      BY <2>1, <2>3, <3>1, <1>0, Zenon DEF VisibleOK, Cursor
    <3>3. PICK v, c : v = visible' /\ c = cache'
      BY Zenon
    <3>4. /\ v.pos = u.pos /\ v.commit = u.commit /\ v.max1 = u.max1
          /\ Whole(v.index, u.pos)
          /\ \A p \in DOMAIN c : p \in Page /\ (p <= u.commit => c[p] = Version(p, u.pos))
          /\ read' # None => read'.stale
      BY <3>2, <3>3, ApplySound, Zenon
    <3>5. u.commit = Commit(u.pos) /\ cursor = Cursor(v)
      BY <3>2, <3>4, Zenon DEF Sound, Cursor
    <3>6. VisibleOK'
      BY <2>1, <3>2, <3>3, <3>4, <3>5, <1>1, Zenon
      DEF VisibleOK, Cursor, Commit, Whole, Named, Untouched
    <3>7. ReaderOK'
      BY <2>1, <3>3, <3>4, <1>0, <1>1, Zenon DEF ReaderOK, Version
    <3> QED BY <3>6, <3>7, Zenon
  <2> QED BY <2>2, <2>3, Zenon
<1> QED BY <1>2, <1>3, Zenon

LEMMA ReadSnapshot ==
  ASSUME SnapshotInv, Fetched \/ FetchFails \/ \E p \in Page : ReadBegin(p)
  PROVE  VisibleOK' /\ ReaderOK'
<1>0. /\ StoreType /\ ViewType /\ VisibleOK /\ ReaderOK /\ visible.pos \in 1 .. Len(db)
      /\ visible.commit = Commit(visible.pos) /\ Whole(visible.index, visible.pos)
  BY VisibleType, Zenon DEF SnapshotInv
<1>1. UNCHANGED <<db, cursor, visible, pending, shared, pinned>>
  BY Zenon DEF Fetched, FetchFails, ReadBegin
<1>2. VisibleOK'
  BY <1>0, <1>1, Zenon DEF VisibleOK, Cursor, Commit, Whole, Sound, Since, Named, Untouched
<1>3. (IF shared THEN pinned ELSE visible.pos) = visible.pos /\ torn = {}
  BY <1>0, Zenon DEF ReaderOK
<1>4. CASE FetchFails \/ (Fetched /\ read.stale)
  <2>1. UNCHANGED <<cache, torn>> /\ read' = None
    BY <1>4, Zenon DEF FetchFails, Fetched
  <2> QED BY <2>1, <1>0, <1>1, <1>2, Zenon DEF ReaderOK, Version
<1>5. CASE Fetched /\ ~read.stale
  <2>1. PICK p, elem : p = read.page /\ elem = read.elem
    BY Zenon
  <2> DEFINE content == Version(p, elem.max)
  <2>2. /\ read # None /\ read' = None /\ Returned(p, content) /\ Cached(p, content)
    BY <2>1, <1>5, Zenon DEF Fetched
  <2>3. p \in Page /\ p <= visible.commit /\ elem = visible.index[p]
    BY <2>1, <2>2, <1>0, <1>5, Zenon DEF ViewType, PageRead, ReaderOK
  <2>4. content = Version(p, visible.pos)
    <3>1. p \in 1 .. Commit(visible.pos)
      BY <2>3, <1>0, CommitType, ReplicaBounds DEF Page
    <3>2. PICK index : index = visible.index
      BY Zenon
    <3>3. Named(index, p, visible.pos)
      BY <3>1, <3>2, <1>0, Zenon DEF Whole
    <3> QED BY <3>2, <3>3, <2>3, <1>0, NamedVersion, Zenon
  <2> HIDE DEF content
  <2>5. torn' = {}
    BY <2>2, <2>4, <1>3, Zenon DEF Returned
  <2>6. PICK kept \in SUBSET DOMAIN cache :
          cache' = Over([q \in {p} |-> content], Only(cache, kept))
    BY <2>2, Zenon DEF Cached
  <2>7. ASSUME NEW q \in DOMAIN cache'
        PROVE  (q = p /\ cache'[q] = content) \/ (q \in DOMAIN cache /\ cache'[q] = cache[q])
    BY <2>6, <2>7, Zenon DEF Over, Only
  <2>8. \A q \in DOMAIN cache' :
          q \in Page /\ (q <= visible.commit => cache'[q] = Version(q, visible.pos))
    BY <2>3, <2>4, <2>7, <1>0, Zenon DEF ReaderOK
  <2>9. ReaderOK'
    BY <2>2, <2>5, <2>8, <1>0, <1>1, Zenon DEF ReaderOK, Version
  <2> QED BY <2>9, <1>2, Zenon
<1>6. ASSUME NEW p \in Page, ReadBegin(p) PROVE ReaderOK'
  <2>1. p <= visible.commit /\ UNCHANGED cache
    BY <1>6, Zenon DEF ReadBegin
  <2>2. CASE p \in DOMAIN cache /\ Returned(p, cache[p]) /\ UNCHANGED read
    <3>1. cache[p] = Version(p, visible.pos)
      BY <2>1, <2>2, <1>0, Zenon DEF ReaderOK
    <3>2. torn' = {}
      BY <2>2, <3>1, <1>3, Zenon DEF Returned
    <3> QED BY <2>1, <2>2, <3>2, <1>0, <1>1, Zenon DEF ReaderOK, Version
  <2>3. CASE /\ p \in DOMAIN visible.index /\ UNCHANGED torn
             /\ read' = [page |-> p, elem |-> visible.index[p], stale |-> FALSE]
    <3>1. read'.page = p /\ read'.elem = visible.index[p]
      BY <2>3, Zenon
    <3> QED BY <2>1, <2>3, <3>1, <1>0, <1>1, Zenon DEF ReaderOK, Version
  <2> QED BY <2>2, <2>3, <1>6, Zenon DEF ReadBegin
<1> QED BY <1>2, <1>4, <1>5, <1>6, Zenon

-----------------------------------------------------------------------------
(***************************************************************************)
(* The primary, when no compaction is late.                                *)
(***************************************************************************)

Grown ==
  /\ Len(db) <= Len(db') /\ \A t \in 1 .. Len(db) : db'[t] = db[t]
  /\ \A i \in files' : i.level = 1 => i \in files \/ i.max = Len(db)
  /\ HistoryOK'
  /\ UNCHANGED <<cursor, poll, visible, pending, cache, shared, read, pinned, torn>>

LEMMA GrownSnapshot ==
  ASSUME SnapshotInv, StoreType', Grown
  PROVE  ViewOK' /\ Level0Sound' /\ UpdateSound'
<1>0. /\ StoreType /\ ViewType /\ VisibleOK /\ ReaderOK /\ visible.pos \in 1 .. Len(db)
      /\ Len(db) \in Nat /\ Len(db') \in Nat /\ Len(db) <= Len(db')
      /\ Level0Sound /\ UpdateSound /\ Caught(cursor) /\ Placed(cursor) /\ PollType
      /\ Level0OK /\ UpdateOK
  <2>1. /\ StoreType /\ ViewType /\ VisibleOK /\ visible.pos \in 1 .. Len(db) /\ Len(db) \in Nat
    BY VisibleType, Zenon
  <2>2. Len(db') \in 1 .. MaxTX /\ Len(db) <= Len(db')
    BY Zenon DEF StoreType, Grown
  <2>3. Len(db') \in Nat
    BY <2>2, ReplicaBounds
  <2>4. /\ ReaderOK /\ Level0Sound /\ UpdateSound /\ Caught(cursor) /\ Placed(cursor)
        /\ PollType /\ Level0OK /\ UpdateOK
    BY Zenon DEF SnapshotInv, PollInv, Polling, TypeOK
  <2> QED BY <2>1, <2>2, <2>3, <2>4, Zenon
<1>1. /\ \A t \in 1 .. Len(db) : db'[t] = db[t]
      /\ UNCHANGED <<cursor, poll, visible, pending, cache, shared, read, pinned, torn>>
  BY Zenon DEF Grown
<1>2. ASSUME NEW pos \in 1 .. Len(db)
      PROVE  /\ db'[pos] = db[pos] /\ pos <= Len(db') /\ \A t \in 1 .. pos : t \in 1 .. Len(db)
             /\ \A t \in 1 .. Len(db') : t <= pos => t \in 1 .. Len(db)
  BY <1>0, <1>1
<1>3. ASSUME NEW pos \in 1 .. Len(db), NEW p, NEW a, Untouched(p, a, pos)
      PROVE  Untouched(p, a, pos)'
  BY <1>1, <1>2, <1>3, Zenon DEF Untouched
<1>4. ASSUME NEW pos \in 1 .. Len(db), NEW p
      PROVE  Version(p, pos)' = Version(p, pos)
  <2>1. {t \in 1 .. pos : p \in db'[t].pages} = {t \in 1 .. pos : p \in db[t].pages}
    BY <1>1, <1>2, Zenon
  <2> QED BY <2>1, Zenon DEF Version
<1>5. ASSUME NEW u, NEW base, u.pos \in 1 .. Len(db), Sound(u, base)
      PROVE  Sound(u, base)'
  <2>1. PICK pos \in 1 .. Len(db) : pos = u.pos
    BY <1>5, Zenon
  <2>2. \A p : Named(u.index, p, pos) => Named(u.index, p, pos)'
    BY <1>3, Zenon DEF Named
  <2>3. Commit(pos)' = Commit(pos)
    BY <1>1, Zenon DEF Commit
  <2>4. Whole(u.index, pos) => Whole(u.index, pos)'
    BY <2>2, <2>3, Zenon DEF Whole
  <2>5. Since(u.index, base, pos) => Since(u.index, base, pos)'
    BY <2>2, <2>3, <1>3, Zenon DEF Since
  <2> QED BY <2>1, <2>3, <2>4, <2>5, <1>5, Zenon DEF Sound
<1>6. ASSUME NEW c, c.pos \in 1 .. Len(db), Caught(c) PROVE Caught(c)'
  <2>1. c.pos <= Len(db)
    BY <1>0, <1>6
  <2> QED BY <2>1, <1>6, Zenon DEF Caught, Grown
<1>7. Caught(cursor)'
  <2>1. PICK c : c = cursor
    BY Zenon
  <2>2. c.pos \in 1 .. Len(db) /\ Caught(c)
    BY <2>1, <1>0, CursorType, Zenon DEF SnapshotInv, PollInv
  <2>3. Caught(c)'
    BY <2>2, <1>6, Zenon
  <2> QED BY <2>1, <2>3, <1>1, Zenon DEF Caught
<1>8. UpdateSound'
  <2> SUFFICES ASSUME poll.pc \in {"detect", "stage"}
               PROVE  (Sound(poll.update, cursor.pos) /\ Caught(poll.update))'
    BY <1>1, Zenon DEF UpdateSound
  <2>1. PICK u, base : u = poll.update /\ base = cursor.pos
    BY Zenon
  <2>2. u \in Update /\ u.pos <= Len(db) /\ Sound(u, base) /\ Caught(u)
    BY <2>1, <1>0, Zenon DEF PollType, UpdateOK, Placed, UpdateSound
  <2>3. u.pos \in 1 .. Len(db)
    <3>1. u.pos \in 1 .. MaxTX
      BY <2>2, Zenon DEF Update
    <3> QED BY <3>1, <2>2, <1>0
  <2>4. Sound(u, base)' /\ Caught(u)'
    BY <2>2, <2>3, <1>5, <1>6, Zenon
  <2> QED
    BY <2>1, <2>4, <1>1, Zenon
    DEF Sound, Whole, Since, Named, Untouched, Commit, Caught
<1>9. Level0Sound'
  <2> SUFFICES ASSUME poll.pc = "l1" PROVE Level0Sound'
    BY <1>1, Zenon DEF Level0Sound
  <2>1. PICK l0 : l0 = poll.l0
    BY Zenon
  <2>2. /\ l0.commit = Commit(l0.max) /\ l0.max \in 1 .. MaxTX /\ l0.max <= Len(db)
        /\ \A p \in DOMAIN l0.index :
             LET m == l0.index[p].max IN cursor.pos < m /\ m <= l0.max /\ p \in db[m].pages
        /\ ~l0.replace => Since(l0.index, cursor.pos, l0.max)
        /\ l0.index \in PageIndex /\ cursor.pos \in 1 .. MaxTX
    BY <2>1, <1>0, Zenon DEF PollType, Level0Result, Level0OK, Level0Sound
  <2>3. l0.max \in 1 .. Len(db)
    BY <2>2, <1>0
  <2>4. ASSUME NEW p \in DOMAIN l0.index PROVE db'[l0.index[p].max] = db[l0.index[p].max]
    <3>1. l0.index[p].max \in 1 .. MaxTX /\ l0.index[p].max <= l0.max
      BY <2>2, IndexParts, Zenon DEF FileInfo
    <3>2. l0.index[p].max \in 1 .. Len(db)
      BY <3>1, <2>3, <1>0
    <3> QED BY <3>2, <1>1, Zenon
  <2>5. db'[l0.max] = db[l0.max]
    BY <2>3, <1>1, Zenon
  <2>6. PICK base : base = cursor.pos
    BY Zenon
  <2>7. ASSUME ~l0.replace PROVE Since(l0.index, base, l0.max)'
    <3>1. \A p : Named(l0.index, p, l0.max) => Named(l0.index, p, l0.max)'
      BY <2>3, <1>3, Zenon DEF Named
    <3>2. Commit(l0.max)' = Commit(l0.max)
      BY <2>5, Zenon DEF Commit
    <3> QED BY <3>1, <3>2, <2>2, <2>3, <2>6, <2>7, <1>3, Zenon DEF Since
  <2> QED
    BY <2>1, <2>2, <2>4, <2>5, <2>6, <2>7, <1>1, Zenon
    DEF Level0Sound, Commit, Since, Named, Untouched
<1>10. VisibleOK'
  <2>1. PICK v, w : v = visible /\ w = pending
    BY Zenon
  <2>2. /\ v.pos \in 1 .. Len(db) /\ v.commit = Commit(v.pos) /\ Whole(v.index, v.pos)
    BY <2>1, <1>0, VisibleType, Zenon
  <2>3. v.commit = Commit(v.pos)' /\ Whole(v.index, v.pos)'
    <3>1. Commit(v.pos)' = Commit(v.pos)
      BY <2>2, <1>1, Zenon DEF Commit
    <3>2. \A p : Named(v.index, p, v.pos) => Named(v.index, p, v.pos)'
      BY <2>2, <1>3, Zenon DEF Named
    <3> QED BY <3>1, <3>2, <2>2, Zenon DEF Whole
  <2>4. ASSUME w # None
        PROVE  shared /\ w.pos <= Len(db') /\ Sound(w, v.pos)'
    <3>1. w \in Update /\ w.pos <= Len(db) /\ Sound(w, v.pos) /\ shared
      BY <2>1, <2>4, <1>0, Zenon DEF ViewType, VisibleOK
    <3>2. w.pos \in 1 .. MaxTX
      BY <3>1, Zenon DEF Update
    <3>3. w.pos \in 1 .. Len(db) /\ w.pos <= Len(db')
      BY <3>1, <3>2, <1>0
    <3> QED BY <3>1, <3>3, <1>5, Zenon
  <2>5. visible.pos <= Len(db')
    BY <1>0
  <2>6. (/\ visible.commit = Commit(visible.pos) /\ Whole(visible.index, visible.pos))'
    BY <2>1, <2>3, <1>1, Zenon DEF Commit, Whole, Named, Untouched
  <2>7. (pending # None => Sound(pending, visible.pos))'
    BY <2>1, <2>4, <1>1, Zenon DEF Sound, Commit, Whole, Since, Named, Untouched
  <2> QED BY <2>1, <2>4, <2>5, <2>6, <2>7, <1>0, <1>1, Zenon DEF VisibleOK, Cursor
<1>11. ReaderOK'
  <2>1. PICK pos : pos = visible.pos
    BY Zenon
  <2>2. \A p : Version(p, pos)' = Version(p, visible.pos)
    BY <2>1, <1>0, <1>4, Zenon
  <2> QED BY <2>1, <2>2, <1>0, <1>1, Zenon DEF ReaderOK, Version
<1> QED BY <1>7, <1>8, <1>9, <1>10, <1>11, Zenon DEF ViewOK, Grown

LEMMA TransactionGrown ==
  ASSUME SnapshotInv, NEW pages \in SUBSET Page, NEW commit \in Page,
         Transaction(pages, commit)
  PROVE  Grown
<1> DEFINE n == Len(db)
           tx == [pages |-> pages, commit |-> commit]
<1>0. /\ db' = Append(db, tx) /\ files' = files \cup {Info(0, n + 1, n + 1)}
      /\ Commit(n) + 1 .. commit \subseteq pages
      /\ UNCHANGED <<cursor, poll, visible, pending, cache, shared, read, pinned, torn>>
  BY Zenon DEF Transaction
<1>1. StoreType /\ HistoryOK /\ db \in Seq([pages : SUBSET Page, commit : Page])
  BY Zenon DEF SnapshotInv, PollInv, TypeOK, StoreType
<1>2. n \in Nat /\ 1 <= n /\ n \in 1 .. Len(db)
  BY <1>1, LenType
<1>3. tx.pages = pages /\ tx.commit = commit
  BY Zenon
<1> HIDE DEF tx
<1>4. Len(db') = n + 1 /\ db'[n + 1] = tx /\ \A t \in 1 .. n : db'[t] = db[t]
  BY <1>0, <1>1
<1>5. Info(0, n + 1, n + 1).level = 0
  BY Zenon DEF Info
<1>6. \A i \in files' : i.level = 1 => i \in files
  <2>1. 0 # 1
    OBVIOUS
  <2> QED BY <2>1, <1>0, <1>5, Zenon
<1>7. Commit(n) = db[n].commit /\ db[n].commit \in Page
  BY <1>1, <1>2, CommitType, Zenon DEF Commit
<1> HIDE DEF n
<1>8. HistoryOK'
  <2>1. db'[1].pages = Page
    <3>1. 1 \in 1 .. n
      BY <1>2
    <3> QED BY <3>1, <1>1, <1>4, Zenon DEF HistoryOK
  <2>2. ASSUME NEW t \in 2 .. Len(db'), NEW p \in Page, p <= db'[t].commit, db'[t - 1].commit < p
        PROVE  p \in db'[t].pages
    <3>1. CASE t \in 2 .. n
      <4>1. t \in 1 .. n /\ t - 1 \in 1 .. n
        BY <3>1, <1>2
      <4> QED BY <2>2, <3>1, <4>1, <1>1, <1>4, Zenon DEF HistoryOK, n
    <3>2. CASE t \notin 2 .. n
      <4>1. t = n + 1 /\ t - 1 = n /\ n \in 1 .. n
        BY <3>2, <1>2, <1>4
      <4>2. p <= commit /\ db[n].commit < p
        BY <2>2, <4>1, <1>3, <1>4, Zenon
      <4>3. p \in Commit(n) + 1 .. commit
        BY <4>2, <1>7, ReplicaBounds DEF Page
      <4> QED BY <4>1, <4>3, <1>0, <1>3, <1>4, Zenon
    <3> QED BY <3>1, <3>2, Zenon
  <2> QED BY <2>1, <2>2, Zenon DEF HistoryOK
<1>9. Len(db) <= Len(db') /\ \A t \in 1 .. Len(db) : db'[t] = db[t]
  BY <1>2, <1>4 DEF n
<1> QED BY <1>0, <1>6, <1>8, <1>9, Zenon DEF Grown

\* Nothing else than a transaction changes the history; a new file of level 1
\* is not behind it.
LEMMA FilesGrown ==
  ASSUME Lag = 0, SnapshotInv, Expire \/ Supersede \/ \E n \in 1 .. Len(db) : Compact(n)
  PROVE  Grown
<1>0. StoreType /\ HistoryOK
  BY Zenon DEF SnapshotInv, PollInv, TypeOK
<1>1. UNCHANGED <<db, cursor, poll, visible, pending, cache, shared, read, pinned, torn>>
  BY Zenon DEF Expire, Supersede, Compact
<1>2. \A i \in files' : i \in files \/ i.max = Len(db)
  <2>1. CASE Expire
    BY <2>1, Zenon DEF Expire
  <2>2. CASE Supersede
    <3>1. Info(1, 1, Len(db)).max = Len(db)
      BY Zenon DEF Info
    <3> QED BY <2>2, <3>1, Zenon DEF Supersede
  <2>3. ASSUME NEW n \in 1 .. Len(db), Compact(n) PROVE \A i \in files' : i \in files \/ i.max = Len(db)
    <3>1. n + Lag >= Len(db) /\ files' = files \cup {Info(1, MaxL1 + 1, n)}
      BY <2>3, Zenon DEF Compact
    <3>2. n = Len(db)
      BY <3>1, <1>0, LenType
    <3>3. Info(1, MaxL1 + 1, n).max = n
      BY Zenon DEF Info
    <3> QED BY <3>1, <3>2, <3>3, Zenon
  <2> QED BY <2>1, <2>2, <2>3, Zenon
<1>3. Len(db) <= Len(db)
  BY <1>0, LenType
<1> QED BY <1>0, <1>1, <1>2, <1>3, Zenon DEF Grown, HistoryOK

LEMMA SnapshotNext ==
  ASSUME Lag = 0, SnapshotInv, [Next]_vars
  PROVE  SnapshotInv'
<1>0. PollInv
  BY Zenon DEF SnapshotInv
<1>1. PollInv'
  BY <1>0, PollInvNext, Zenon
<1>2. StoreType'
  BY <1>1, Zenon DEF PollInv, TypeOK
<1>3. ASSUME ViewOK' /\ Level0Sound' /\ UpdateSound' PROVE SnapshotInv'
  BY <1>1, <1>3, Zenon DEF SnapshotInv, ViewOK
<1>4. CASE PollL0 \/ PollL1 \/ Detect \/ Rebuild \/ PollFails
  BY <1>3, <1>4, PollSnapshot, Zenon
<1>5. CASE Stage
  BY <1>3, <1>5, StageSnapshot, Zenon
<1>6. CASE Reader \/ UNCHANGED vars
  <2>1. UNCHANGED <<db, files, cursor, poll>>
    BY <1>6, ReaderKeeps, Zenon DEF vars
  <2>2. HistoryOK' /\ Caught(cursor)'
    BY <2>1, Zenon DEF SnapshotInv, HistoryOK, Caught
  <2>3. Level0Sound'
    BY <2>1, Zenon DEF SnapshotInv, Level0Sound, Commit, Since, Named, Untouched
  <2>4. UpdateSound'
    BY <2>1, Zenon
    DEF SnapshotInv, UpdateSound, Sound, Whole, Since, Named, Untouched, Commit, Caught
  <2>5. VisibleOK' /\ ReaderOK'
    <3>1. CASE UNCHANGED vars
      <4>1. UNCHANGED <<db, cursor, visible, pending, cache, shared, read, pinned, torn>>
        BY <3>1, Zenon DEF vars
      <4>2. VisibleOK'
        BY <4>1, Zenon
        DEF SnapshotInv, VisibleOK, Cursor, Commit, Whole, Sound, Since, Named, Untouched
      <4>3. ReaderOK'
        BY <4>1, Zenon DEF SnapshotInv, ReaderOK, Version
      <4> QED BY <4>2, <4>3, Zenon
    <3> QED BY <3>1, <1>6, LockSnapshot, ReadSnapshot, Zenon DEF Reader
  <2> QED BY <1>3, <2>2, <2>3, <2>4, <2>5, Zenon DEF ViewOK
<1>7. ASSUME NEW pages \in SUBSET Page, NEW commit \in Page, Transaction(pages, commit)
      PROVE  SnapshotInv'
  BY <1>2, <1>3, <1>7, TransactionGrown, GrownSnapshot, Zenon
<1>8. CASE Expire \/ Supersede \/ \E n \in 1 .. Len(db) : Compact(n)
  BY <1>2, <1>3, <1>8, FilesGrown, GrownSnapshot, Zenon
<1> QED BY <1>4, <1>5, <1>6, <1>7, <1>8, Zenon DEF Next, Reader

LEMMA SnapshotInit ==
  ASSUME Init
  PROVE  SnapshotInv
<1>0. PollInv /\ StoreType /\ FilesOK
  BY PollInvInit, Zenon DEF PollInv, TypeOK
<1>1. db = <<[pages |-> Page, commit |-> MaxPage]>>
  BY Zenon DEF Init
<1>2. Len(db) = 1 /\ db[1].pages = Page
  BY <1>1
<1>3. HistoryOK
  BY <1>2 DEF HistoryOK
<1>4. 1 \in 1 .. Len(db) /\ 0 \in 0 .. Len(db)
  BY <1>2
<1>5. Whole(Index(RestorePlan), 1)
  BY <1>0, <1>2, <1>3, <1>4, PlanCovers, IndexSince, SinceFirst, Zenon
<1>6. /\ visible.index = Index(RestorePlan) /\ visible.commit = Commit(1) /\ visible.pos = 1
      /\ cursor = Cursor(visible) /\ pending = None
  BY <1>0, <1>2, PlanCovers, Zenon DEF Init, BuildSnapshot
<1>7. VisibleOK
  <2>1. visible.pos <= Len(db)
    BY <1>2, <1>6
  <2> QED BY <2>1, <1>5, <1>6, Zenon DEF VisibleOK
<1>8. Caught(cursor)
  <2>1. cursor.pos = 1
    BY <1>6, Zenon DEF Cursor
  <2>2. \A i \in files : cursor.pos <= i.max
    BY <2>1, <1>0, FileType
  <2> QED BY <2>2, Zenon DEF Caught
<1>9. Level0Sound /\ UpdateSound
  <2>1. poll.pc = "idle" /\ "idle" \notin {"l1", "detect", "stage"}
    BY DEF Init, IdlePoll
  <2> QED BY <2>1, Zenon DEF Level0Sound, UpdateSound
<1>10. ReaderOK
  BY EmptyDomain, Zenon DEF Init, ReaderOK
<1> QED BY <1>0, <1>3, <1>7, <1>8, <1>9, <1>10, Zenon DEF SnapshotInv

LEMMA SnapshotCoherent ==
  ASSUME SnapshotInv
  PROVE  Coherent /\ ReadsOneSnapshot
<1>1. /\ StoreType /\ visible.pos \in 1 .. Len(db) /\ visible.commit = Commit(visible.pos)
      /\ Whole(visible.index, visible.pos)
  BY VisibleType, Zenon
<1>2. PICK index : index = visible.index
  BY Zenon
<1>3. ASSUME NEW p \in 1 .. visible.commit
      PROVE  p \in DOMAIN index /\ Version(p, index[p].max) = Version(p, visible.pos)
  <2>1. Named(index, p, visible.pos)
    BY <1>1, <1>2, Zenon DEF Whole
  <2> QED BY <2>1, <1>1, NamedVersion, Zenon DEF Named
<1>4. Coherent
  BY <1>1, <1>2, <1>3, Zenon DEF Coherent
<1> QED BY <1>4, Zenon DEF ReadsOneSnapshot, SnapshotInv, ReaderOK

\* applyUpdateLocked installs one coherent snapshot: the visible page index
\* and size are those of the visible position, for every number of pages and
\* transactions, when a compaction has everything that was committed when it
\* appears.
THEOREM VisibleCoherent ==
  ASSUME Lag = 0
  PROVE  Spec => []Coherent
<1>1. Init => SnapshotInv
  BY SnapshotInit, Zenon
<1>2. SnapshotInv /\ [Next]_vars => SnapshotInv'
  BY SnapshotNext, Zenon
<1>3. SnapshotInv => Coherent
  BY SnapshotCoherent, Zenon
<1> QED BY <1>1, <1>2, <1>3, PTL DEF Spec

\* From LOCK_SHARED through LOCK_NONE a connection is given the pages of one
\* position, cached or fetched, whatever polls are staged meanwhile; the same
\* hypothesis.
THEOREM OneSnapshotRead ==
  ASSUME Lag = 0
  PROVE  Spec => []ReadsOneSnapshot
<1>1. Init => SnapshotInv
  BY SnapshotInit, Zenon
<1>2. SnapshotInv /\ [Next]_vars => SnapshotInv'
  BY SnapshotNext, Zenon
<1>3. SnapshotInv => ReadsOneSnapshot
  BY SnapshotCoherent, Zenon
<1> QED BY <1>1, <1>2, <1>3, PTL DEF Spec
=============================================================================
