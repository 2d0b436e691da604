----------------------------- MODULE ReplicaFile ----------------------------
(***************************************************************************)
(* The read-only SQLite VFS of cmd/litestream-vfs-wrapper: replica_file.go *)
(* and replica_poller.go, for one open main database.                      *)
(*                                                                         *)
(* A primary commits transactions and publishes LTX files: level 0 holds   *)
(* single transactions, level 1 compactions of them.  The poller of the    *)
(* file lists both levels in steps of its own, merges what it finds and    *)
(* stages it; a connection locks, reads pages and unlocks meanwhile.       *)
(*                                                                         *)
(* The content of a page is the transaction that wrote it last, so the     *)
(* content of a page index element (a file) follows from the history db.   *)
(***************************************************************************)
EXTENDS Integers, FiniteSets, Sequences, FiniteSetsExt

CONSTANTS
  MaxPage,      \* bound: pages of the database
  MaxTX,        \* bound: transactions
  Lag,          \* transactions an L1 file may be behind when it is published
  CacheSize,    \* entries of the page cache
  MaxFaults,    \* bound: polls that fail
  None

ASSUME ReplicaBounds ==
  /\ MaxPage \in Nat \ {0} /\ MaxTX \in Nat \ {0} /\ CacheSize \in Nat \ {0}
  /\ Lag \in Nat /\ MaxFaults \in Nat

Page == 1 .. MaxPage

\* An LTX file, a page index, a replicaUpdate, and the locals of a ReadAt.
FileInfo == [level : {0, 1}, min : 1 .. MaxTX, max : 1 .. MaxTX]
PageIndex == UNION {[pages -> FileInfo] : pages \in SUBSET Page}
Update == [index : PageIndex, replace : BOOLEAN, commit : Page, pos : 1 .. MaxTX,
           max1 : 0 .. MaxTX]
PageRead == [page : Page, elem : FileInfo, stale : BOOLEAN]

ASSUME NoneAssumption == None \notin Update /\ None \notin PageRead

VARIABLES
  db,       \* external: Seq of [pages, commit], the committed transactions
  files,    \* external: set of [level, min, max], the LTX files
  visible,  \* what readers see: [index, commit, pos, max1]
  cursor,   \* where the next poll starts: [pos, max1, commit]
  pending,  \* replicaUpdate held back by a reader, or None
  cache,    \* page cache: page -> content
  shared,   \* the lock is LOCK_SHARED
  poll,     \* locals of pollReplicaClient: [pc, l0, update]
  read,     \* locals of ReadAt: [page, elem, stale], or None; stale when
            \* visibleGeneration has moved since the read began
  pinned,   \* history: the visible position when the lock was taken, or 0
  torn,     \* history: pages read that are not of that position
  moved,    \* history: the primary has acted since the current poll began
  faults

vars == <<db, files, visible, cursor, pending, cache, shared, poll, read, pinned, torn, moved, faults>>

Only(fn, S) == [x \in DOMAIN fn \cap S |-> fn[x]]
Over(new, old) ==
  [x \in DOMAIN new \cup DOMAIN old |-> IF x \in DOMAIN new THEN new[x] ELSE old[x]]
Larger(a, b) == IF a > b THEN a ELSE b
Empty == << >>

Commit(t) == db[t].commit

\* The transaction that wrote what page p holds after transaction t.
Version(p, t) == Max({u \in 1 .. t : p \in db[u].pages})

\* FetchPageIndex: the pages that an LTX file holds.
FilePages(info) ==
  {p \in 1 .. Commit(info.max) : \E t \in info.min .. info.max : p \in db[t].pages}

\* The page indexes of several files, later ones over earlier ones.
Index(infos) ==
  [p \in UNION {FilePages(i) : i \in infos} |->
     CHOOSE i \in infos :
       p \in FilePages(i) /\ \A j \in infos : p \in FilePages(j) => j.max <= i.max]

\* LTXFiles: the files of a level from a transaction on.
LTXFiles(level, seek) == {i \in files : i.level = level /\ i.min >= seek}

\* The files of a level that continue transaction t without a gap.
Chain(level, t) ==
  LET listed == LTXFiles(level, t + 1)
      end == Max({u \in t .. Len(db) : \A v \in t + 1 .. u :
                    \E i \in listed : i.min <= v /\ v <= i.max /\ i.max <= u})
  IN {i \in listed : i.max <= end}

LastOf(infos, t) == Max({t} \cup {i.max : i \in infos})

-----------------------------------------------------------------------------
(***************************************************************************)
(* Opening and rebuilding.                                                 *)
(***************************************************************************)

\* CalcRestorePlan: the longest file from the first transaction on, extended
\* by the files of level 1 and then of level 0 that continue it.
RestorePlan ==
  LET roots == {i \in files : i.min = 1}
      root == CHOOSE i \in roots : \A j \in roots :
                i.max > j.max \/ (i.max = j.max /\ i.level >= j.level)
      one == {root} \cup Chain(1, root.max)
  IN IF roots = {} THEN {} ELSE one \cup Chain(0, LastOf(one, 0))

\* buildSnapshot.
BuildSnapshot(plan) ==
  [index |-> Index(plan), commit |-> Commit(LastOf(plan, 0)), pos |-> LastOf(plan, 0),
   max1 |-> LastOf({i \in plan : i.level = 1}, 0)]

Cursor(u) == [pos |-> u.pos, max1 |-> u.max1, commit |-> u.commit]
IdlePoll == [pc |-> "idle", l0 |-> None, update |-> None]

\* openReplicaFile: the first transaction has been published at either level.
Init ==
  /\ db = <<[pages |-> Page, commit |-> MaxPage]>>
  /\ \E level \in {0, 1} : files = {[level |-> level, min |-> 1, max |-> 1]}
  /\ visible = BuildSnapshot(RestorePlan)
  /\ cursor = Cursor(visible)
  /\ pending = None /\ cache = Empty /\ shared = FALSE
  /\ poll = IdlePoll /\ read = None
  /\ pinned = 0 /\ torn = {} /\ moved = FALSE
  /\ faults = 0

-----------------------------------------------------------------------------
(***************************************************************************)
(* One poll: level 0, level 1, perhaps a rebuild, and staging.             *)
(***************************************************************************)

\* pollLevel: the files that continue the previous ones.  The index is reset
\* by a file that shrinks the database or starts at the first transaction.
PollLevel(level, previous, base) ==
  LET found == Chain(level, previous)
      beyond == LTXFiles(level, previous + 1) \ found
      next == Min({i.min : i \in beyond})
      gap == beyond # {} /\ level = 0 /\ next > LastOf(found, previous) + 1
      Before(i) == IF i.min = previous + 1 THEN base ELSE Commit(i.min - 1)
      resets == {i \in found : Commit(i.max) < Before(i) \/ i.min = 1}
      from == Max({0} \cup {i.min : i \in resets})
  IN [max |-> LastOf(found, previous),
      index |-> Index({i \in found : i.min >= from}),
      commit |-> IF found = {} THEN base ELSE Commit(LastOf(found, previous)),
      gapAt |-> IF gap THEN next ELSE 0,
      replace |-> resets # {}, fromRoot |-> from = 1,
      failed |-> beyond # {} /\ ~gap]

\* isProvablyCompleteSnapshot.
CompleteSnapshot(l0, l1) ==
  IF l1.replace THEN l1.fromRoot ELSE l0.replace /\ l0.fromRoot

\* Faulty: the file of level 1 is preferred whatever it reaches.
MergePreferringL1(l0, l1) ==
  [index |-> Over(l1.index, l0.index), replace |-> FALSE,
   commit |-> IF l0.max >= l1.max /\ (l0.max > cursor.pos \/ l0.index # Empty)
              THEN l0.commit
              ELSE IF l1.max > cursor.max1 \/ l1.index # Empty THEN l1.commit
              ELSE cursor.commit,
   pos |-> Larger(cursor.pos, Larger(l0.max, l1.max)), max1 |-> l1.max]

\* mergePollLevelResults.
Merge(l0, l1) ==
  LET newer == {p \in DOMAIN l1.index :
                  p \in DOMAIN l0.index => l1.index[p].max >= l0.index[p].max}
  IN
  [index |-> Over(Only(l1.index, newer), l0.index), replace |-> FALSE,
   commit |-> IF l0.max >= l1.max /\ (l0.max > cursor.pos \/ l0.index # Empty)
              THEN l0.commit
              ELSE IF l1.max > cursor.max1 \/ l1.index # Empty THEN l1.commit
              ELSE cursor.commit,
   pos |-> Larger(cursor.pos, Larger(l0.max, l1.max)), max1 |-> l1.max]

\* isNoopPollUpdate.
Noop(u) == ~u.replace /\ u.index = Empty /\ Cursor(u) = cursor

PollL0 ==
  LET l0 == PollLevel(0, cursor.pos, cursor.commit) IN
  /\ poll.pc = "idle"
  /\ poll' = IF l0.failed THEN IdlePoll ELSE [IdlePoll EXCEPT !.pc = "l1", !.l0 = l0]
  /\ moved' = FALSE
  /\ UNCHANGED <<db, files, visible, cursor, pending, cache, shared, read, pinned, torn, faults>>

\* Level 1, and what to do with the two results.
PollL1 ==
  LET l0 == poll.l0
      l1 == PollLevel(1, cursor.max1, l0.commit)
      bridged == l0.gapAt # 0 /\ l1.max + 1 >= l0.gapAt
      replace == l0.replace \/ l1.replace
      safe == bridged /\ replace /\ CompleteSnapshot(l0, l1)
      rebuild == (l0.gapAt # 0 /\ ~bridged) \/ (replace /\ ~safe)
      update == [Merge(l0, l1) EXCEPT !.replace = safe]
  IN
  /\ poll.pc = "l1"
  /\ poll' = IF l1.failed THEN IdlePoll
             ELSE IF rebuild THEN [IdlePoll EXCEPT !.pc = "rebuild"]
             ELSE [IdlePoll EXCEPT !.pc = IF Noop(update) THEN "detect" ELSE "stage",
                                   !.update = update]
  /\ UNCHANGED <<db, files, visible, cursor, pending, cache, shared, read, pinned, torn,
                 moved, faults>>

\* Faulty: a poll that found nothing does not look behind its cursors.
DetectNothing ==
  /\ poll.pc = "detect"
  /\ poll' = [poll EXCEPT !.pc = "stage"]
  /\ UNCHANGED <<db, files, visible, cursor, pending, cache, shared, read, pinned, torn,
                 moved, faults>>

\* hasSupersedingSnapshot, for a poll that found nothing.
Detect ==
  /\ poll.pc = "detect"
  /\ poll' = [poll EXCEPT !.pc =
       IF \E i \in files : i.min = 1 /\ i.max > cursor.pos THEN "rebuild" ELSE "stage"]
  /\ UNCHANGED <<db, files, visible, cursor, pending, cache, shared, read, pinned, torn,
                 moved, faults>>

\* rebuildLatest.
Rebuild ==
  LET s == BuildSnapshot(RestorePlan) IN
  /\ poll.pc = "rebuild"
  /\ poll' = IF RestorePlan = {} THEN IdlePoll
             ELSE [IdlePoll EXCEPT !.pc = "stage",
                     !.update = [index |-> s.index, replace |-> TRUE, commit |-> s.commit,
                                 pos |-> s.pos, max1 |-> s.max1]]
  /\ UNCHANGED <<db, files, visible, cursor, pending, cache, shared, read, pinned, torn,
                 moved, faults>>

\* recordPollFailure: a request of the poll fails.
PollFails ==
  /\ poll.pc \in {"l1", "detect", "rebuild"} /\ faults < MaxFaults
  /\ faults' = faults + 1
  /\ poll' = IdlePoll
  /\ UNCHANGED <<db, files, visible, cursor, pending, cache, shared, read, pinned, torn, moved>>

-----------------------------------------------------------------------------
(***************************************************************************)
(* Staging and applying.                                                   *)
(***************************************************************************)

\* What applyUpdateLocked leaves visible.
Installed(u) ==
  [index |-> IF u.replace THEN Only(u.index, 1 .. u.commit)
             ELSE Over(u.index, visible.index),
   commit |-> u.commit, pos |-> u.pos, max1 |-> u.max1]

\* Faulty: the cached content of the updated pages is kept.
ApplyKeepingCache(u) ==
  /\ visible' = Installed(u)
  /\ UNCHANGED cache
  /\ read' = IF read = None THEN None ELSE [read EXCEPT !.stale = TRUE]

\* applyUpdateLocked.
Apply(u) ==
  /\ visible' = Installed(u)
  /\ cache' = IF u.replace THEN Empty ELSE Only(cache, Page \ DOMAIN u.index)
  /\ read' = IF read = None THEN None ELSE [read EXCEPT !.stale = TRUE]

\* mergePendingLocked.
MergedPending(u) ==
  IF u.replace \/ pending = None THEN u
  ELSE [u EXCEPT !.index = Over(u.index, pending.index), !.replace = pending.replace]

\* The end of pollReplicaClient, with stageUpdateLocked.
Stage ==
  LET u == poll.update
      shown == IF pending = None THEN Cursor(visible) ELSE Cursor(pending)
      same == ~u.replace /\ u.index = Empty /\ Cursor(u) = shown
  IN
  /\ poll.pc = "stage"
  /\ cursor' = Cursor(u)
  /\ poll' = IdlePoll
  /\ \/ same /\ UNCHANGED <<visible, cache, read, pending>>
     \/ ~same /\ shared /\ pending' = MergedPending(u) /\ UNCHANGED <<visible, cache, read>>
     \/ ~same /\ ~shared /\ Apply(u) /\ UNCHANGED pending
  /\ UNCHANGED <<db, files, shared, pinned, torn, moved, faults>>

-----------------------------------------------------------------------------
(***************************************************************************)
(* The connection.                                                         *)
(***************************************************************************)

Lock ==
  /\ ~shared /\ read = None
  /\ shared' = TRUE
  /\ pinned' = visible.pos /\ UNCHANGED torn
  /\ UNCHANGED <<db, files, visible, cursor, pending, cache, poll, read, moved, faults>>

\* Unlock(LOCK_NONE) publishes what was held back.
Unlock ==
  /\ shared /\ read = None
  /\ shared' = FALSE
  /\ pinned' = 0 /\ UNCHANGED torn
  /\ IF pending = None THEN UNCHANGED <<visible, cache, read>> ELSE Apply(pending)
  /\ pending' = None
  /\ UNCHANGED <<db, files, cursor, poll, moved, faults>>

\* A page was returned to the reader, in a transaction or without a lock.
Returned(p, content) ==
  torn' = IF content = Version(p, IF shared THEN pinned ELSE visible.pos)
          THEN torn ELSE torn \cup {p}

\* ReadAt and page: the size, then the cache or the index.
ReadBegin(p) ==
  /\ read = None /\ p <= visible.commit
  /\ \/ /\ p \in DOMAIN cache
        /\ Returned(p, cache[p])
        /\ UNCHANGED read
     \/ /\ p \notin DOMAIN cache /\ p \in DOMAIN visible.index
        /\ read' = [page |-> p, elem |-> visible.index[p], stale |-> FALSE]
        /\ UNCHANGED torn
  /\ UNCHANGED <<db, files, visible, cursor, pending, cache, shared, poll, pinned, moved, faults>>

Cached(p, content) ==
  LET kept == DOMAIN cache \ {p} IN
  \E dropped \in IF Cardinality(kept) < CacheSize THEN {{}} ELSE {{q} : q \in kept} :
    cache' = Over([q \in {p} |-> content], Only(cache, kept \ dropped))

\* The page has been fetched; it is kept unless the snapshot has changed.
Fetched ==
  LET content == Version(read.page, read.elem.max) IN
  /\ read # None /\ read.elem \in files
  /\ IF read.stale THEN UNCHANGED <<torn, cache>>
     ELSE Returned(read.page, content) /\ Cached(read.page, content)
  /\ read' = None
  /\ UNCHANGED <<db, files, visible, cursor, pending, shared, poll, pinned, moved, faults>>

\* fetchPageWithRetry gives up: the file is gone.
FetchFails ==
  /\ read # None /\ read.elem \notin files
  /\ read' = None
  /\ UNCHANGED <<db, files, visible, cursor, pending, cache, shared, poll, pinned, torn, moved, faults>>

-----------------------------------------------------------------------------
(***************************************************************************)
(* The primary and its replica storage (external).                         *)
(***************************************************************************)

Info(level, min, max) == [level |-> level, min |-> min, max |-> max]
MaxL1 == Max({0} \cup {i.max : i \in {j \in files : j.level = 1}})

\* A transaction, published at level 0; pages it adds are in it.
Transaction(pages, commit) ==
  /\ Len(db) < MaxTX
  /\ pages # {} /\ Commit(Len(db)) + 1 .. commit \subseteq pages /\ pages \subseteq 1 .. commit
  /\ db' = Append(db, [pages |-> pages, commit |-> commit])
  /\ files' = files \cup {Info(0, Len(db) + 1, Len(db) + 1)}
  /\ UNCHANGED <<visible, cursor, pending, cache, shared, poll, read, pinned, torn, faults>>
  /\ moved' = (poll.pc # "idle")

\* A compaction up to transaction n, at most Lag behind when it appears.
Compact(n) ==
  /\ n > MaxL1 /\ n + Lag >= Len(db)
  /\ files' = files \cup {Info(1, MaxL1 + 1, n)}
  /\ UNCHANGED <<db, visible, cursor, pending, cache, shared, poll, read, pinned, torn, faults>>
  /\ moved' = (poll.pc # "idle")

\* Retention at level 0: what level 1 covers.
Expire ==
  /\ files' = {i \in files : i.level = 0 => i.max > MaxL1} /\ files' # files
  /\ UNCHANGED <<db, visible, cursor, pending, cache, shared, poll, read, pinned, torn, faults>>
  /\ moved' = (poll.pc # "idle")

\* Everything is replaced by one file.
Supersede ==
  /\ files' = {Info(1, 1, Len(db))} /\ files' # files
  /\ UNCHANGED <<db, visible, cursor, pending, cache, shared, poll, read, pinned, torn, faults>>
  /\ moved' = (poll.pc # "idle")

Next ==
  \/ PollL0 \/ PollL1 \/ Detect \/ Rebuild \/ Stage \/ PollFails
  \/ Lock \/ Unlock \/ Fetched \/ FetchFails \/ \E p \in Page : ReadBegin(p)
  \/ \E pages \in SUBSET Page, commit \in Page : Transaction(pages, commit)
  \/ \E n \in 1 .. Len(db) : Compact(n)
  \/ Expire \/ Supersede

Spec == Init /\ [][Next]_vars

-----------------------------------------------------------------------------
(***************************************************************************)
(* Properties.                                                             *)
(***************************************************************************)

\* "applyUpdateLocked installs one coherent visible snapshot": page index and
\* size are those of one transaction, the visible position, however polls of
\* the two levels were split, bridged, rebuilt or held back.
Coherent ==
  /\ visible.commit = Commit(visible.pos)
  /\ \A p \in 1 .. visible.commit :
       /\ p \in DOMAIN visible.index
       /\ Version(p, visible.index[p].max) = Version(p, visible.pos)

\* "From LOCK_SHARED through LOCK_NONE, a connection sees one immutable
\* snapshot": every page that a read transaction was given, from the cache or
\* fetched, is that of the position at which it was locked.
ReadsOneSnapshot ==
  torn = {}

\* A poll that succeeds without moving on has missed nothing: unless the
\* primary acted meanwhile, the poller is at the last transaction, also when
\* files were merged, expired or replaced behind its cursors.
NoSilentStall ==
  (poll.pc = "stage" /\ ~moved /\ poll.update.pos = cursor.pos) => cursor.pos = Len(db)
=============================================================================
