---------------------------- MODULE MastodonSync ---------------------------
(***************************************************************************)
(* The Mastodon side of the bridge (cmd/nostr-bridge/mastodon, and the     *)
(* loop around it in runtime.go).  Mastodon's stream cannot be replayed:   *)
(* before every subscription Backfill reads one page of each timeline with *)
(* a budget, oldest gap last, and keeps its progress in three cursors per  *)
(* timeline that are saved one after the other:                            *)
(*                                                                         *)
(*   committed  everything up to here was read                             *)
(*   ceiling    what committed becomes when the gap is closed              *)
(*   next       the gap's pages continue below this status                 *)
(*                                                                         *)
(* Statuses are numbered in the order in which the instance creates them.  *)
(* A status counts as enqueued when EnqueueEvent or EnqueueUpdate has      *)
(* committed; those transactions replace mapping and source operation      *)
(* together (module Outbox), so one variable stands for both.              *)
(***************************************************************************)
EXTENDS Integers, FiniteSets, Sequences

CONSTANTS
  Feed,           \* timelines: home and the configured lists
  Feeds,          \* the order in which Backfill visits them
  BackfillLimit,  \* statuses read by one Backfill
  PageLimit,      \* statuses on one page (40 in the client)
  MaxStatus,      \* bound: statuses
  Kind,           \* what a status can be: [feeds, target, public]
  MaxChanges,     \* bound: edits and deletions
  MaxFaults       \* bound: failures during a backfill

ASSUME FeedAssumption ==
  /\ IsFiniteSet(Feed) /\ Feed # {}
  /\ Feeds \in [1..Cardinality(Feed) -> Feed]
  /\ \A f \in Feed : \E k \in DOMAIN Feeds : Feeds[k] = f
  /\ Kind \subseteq [feeds : (SUBSET Feed) \ {{}}, target : BOOLEAN, public : BOOLEAN]
ASSUME BackfillAssumption ==
  /\ BackfillLimit \in Nat \ {0} /\ PageLimit \in Nat \ {0}
  /\ MaxStatus \in Nat /\ MaxChanges \in Nat /\ MaxFaults \in Nat

VARIABLES
  statuses,  \* the instance: [kind, version, deleted] in creation order
  cursor,    \* [committed, ceiling, next : Feed -> id] and index, in the database
  mapping,   \* [id -> enqueued version, 0 when there is none]
  alias,     \* ids with a status alias
  worker,    \* the local variables of Run, Backfill and recoverFeed
  inbox,     \* stream messages not yet read
  sent,      \* history: [id -> versions enqueued, in order]
  faults

vars == <<statuses, cursor, mapping, alias, worker, inbox, sent, faults>>
store == <<cursor, mapping, alias, sent>>

Id == 1..MaxStatus
Zero == [f \in Feed |-> 0]

\* Run between two attempts; pc names the next durable step.
Idle == [pc |-> "idle", visited |-> 0, remaining |-> 0, ceiling |-> 0,
         page |-> {}, nextMax |-> 0, used |-> 0]

Init ==
  /\ statuses = << >>
  /\ cursor = [committed |-> Zero, ceiling |-> Zero, next |-> Zero, index |-> 0]
  /\ mapping = [i \in Id |-> 0]
  /\ alias = {}
  /\ worker = Idle
  /\ inbox = << >>
  /\ sent = [i \in Id |-> << >>]
  /\ faults = 0

-----------------------------------------------------------------------------
(***************************************************************************)
(* The instance.  A subscribed stream carries a message for every feed of  *)
(* the status.                                                             *)
(***************************************************************************)

Push(op, i, v) ==
  inbox' = IF worker.pc # "stream" THEN inbox
           ELSE inbox \o [k \in 1..Cardinality(statuses'[i].kind.feeds) |->
                            [op |-> op, id |-> i, version |-> v]]

PostStatus(kind) ==
  /\ Len(statuses) < MaxStatus
  /\ statuses' = Append(statuses, [kind |-> kind, version |-> 1, deleted |-> FALSE])
  /\ Push("update", Len(statuses'), 1)
  /\ UNCHANGED <<store, worker, faults>>

Changed == {i \in DOMAIN statuses : statuses[i].version > 1}
Deleted == {i \in DOMAIN statuses : statuses[i].deleted}
MayChange(i) ==
  /\ i \notin Deleted
  /\ Cardinality(Changed) + Cardinality(Deleted) < MaxChanges

EditStatus(i) ==
  /\ MayChange(i) /\ i \notin Changed
  /\ statuses' = [statuses EXCEPT ![i].version = @ + 1]
  /\ Push("status.update", i, statuses'[i].version)
  /\ UNCHANGED <<store, worker, faults>>

DeleteStatus(i) ==
  /\ MayChange(i)
  /\ statuses' = [statuses EXCEPT ![i].deleted = TRUE]
  /\ Push("delete", i, 0)
  /\ UNCHANGED <<store, worker, faults>>

-----------------------------------------------------------------------------
(***************************************************************************)
(* Statuses.                                                               *)
(***************************************************************************)

isTarget(i) == statuses[i].kind.target

\* Only public statuses that are no boosts have a post.
NormalizeStatus(i) == statuses[i].kind.public
Mirrored(i) == isTarget(i) /\ NormalizeStatus(i)

\* Faulty: every copy of a status is published.
handleEveryCopy(i, v) ==
  IF ~Mirrored(i) THEN UNCHANGED <<mapping, alias, sent>>
  ELSE /\ alias' = alias \cup {i}
       /\ mapping' = [mapping EXCEPT ![i] = v]
       /\ sent' = [sent EXCEPT ![i] = Append(@, v)]

\* handleStatus: the alias is saved, then the status is enqueued unless the
\* same operation was enqueued before.
handleStatus(i, v) ==
  IF ~Mirrored(i) THEN UNCHANGED <<mapping, alias, sent>>
  ELSE /\ alias' = alias \cup {i}
       /\ IF mapping[i] = v
          THEN UNCHANGED <<mapping, sent>>
          ELSE /\ mapping' = [mapping EXCEPT ![i] = v]
               /\ sent' = [sent EXCEPT ![i] = Append(@, v)]

\* deleteStatus: nothing is known of a status without alias or mapping.
deleteStatus(i) ==
  /\ mapping' = IF i \in alias THEN [mapping EXCEPT ![i] = 0] ELSE mapping
  /\ UNCHANGED <<alias, sent>>

-----------------------------------------------------------------------------
(***************************************************************************)
(* Backfill.                                                               *)
(***************************************************************************)

feedAt(k) == Feeds[((cursor.index + k) % Len(Feeds)) + 1]
feed == feedAt(0)
Goto(pc) == worker' = [worker EXCEPT !.pc = pc]
Smallest(S) == CHOOSE i \in S : \A j \in S : i <= j
Largest(S) == CHOOSE i \in S : \A j \in S : j <= i

\* The newest statuses of a timeline above since and below max.
statusTimelinePage(f, since, max, limit) ==
  LET all == {i \in DOMAIN statuses : /\ ~statuses[i].deleted
                                      /\ f \in statuses[i].kind.feeds
                                      /\ i > since /\ (max = 0 \/ i < max)}
  IN {i \in all : Cardinality({j \in all : j > i}) < limit}

BeginBackfill ==
  /\ worker.pc = "idle"
  /\ worker' = [Idle EXCEPT !.pc = "page", !.remaining = BackfillLimit]
  /\ UNCHANGED <<statuses, store, inbox, faults>>

\* The page is read and, for a new gap, the ceiling saved.  A full page links
\* to a next one; a shorter one may.
ReadPage ==
  LET f == feed
      limit == IF worker.remaining < PageLimit THEN worker.remaining ELSE PageLimit
      ids == statusTimelinePage(f, cursor.committed[f], cursor.next[f], limit)
      ceiling == IF cursor.ceiling[f] = 0 /\ ids # {} THEN Largest(ids)
                 ELSE cursor.ceiling[f]
  IN
  /\ worker.pc = "page"
  /\ \E nextMax \in IF ids = {} THEN {0}
                    ELSE IF Cardinality(ids) = limit THEN {Smallest(ids)}
                    ELSE {0, Smallest(ids)} :
       worker' = [worker EXCEPT !.pc = "statuses", !.ceiling = ceiling,
                                !.page = {<<i, statuses[i].version>> : i \in ids},
                                !.nextMax = nextMax, !.used = Cardinality(ids)]
  /\ cursor' = [cursor EXCEPT !.ceiling[f] = ceiling]
  /\ UNCHANGED <<statuses, mapping, alias, inbox, sent, faults>>

\* The page's statuses, oldest first, each in a transaction of its own.
HandlePage ==
  /\ worker.pc = "statuses" /\ worker.page # {}
  /\ LET s == CHOOSE x \in worker.page : \A y \in worker.page : x[1] <= y[1] IN
     /\ handleStatus(s[1], s[2])
     /\ worker' = [worker EXCEPT !.page = @ \ {s}]
  /\ UNCHANGED <<statuses, cursor, inbox, faults>>

\* Faulty: the gap counts as closed after any page.
PageDoneAlways ==
  /\ worker.pc = "statuses" /\ worker.page = {}
  /\ Goto("committed")
  /\ UNCHANGED <<statuses, store, inbox, faults>>

\* With another page to come only its position is saved.
PageDone ==
  /\ worker.pc = "statuses" /\ worker.page = {}
  /\ IF worker.nextMax # 0
     THEN /\ cursor' = [cursor EXCEPT !.next[feed] = worker.nextMax]
          /\ Goto("index")
     ELSE /\ UNCHANGED cursor
          /\ Goto("committed")
  /\ UNCHANGED <<statuses, mapping, alias, inbox, sent, faults>>

\* The three saves that close a gap.
SaveCommitted ==
  /\ worker.pc = "committed"
  /\ cursor' = IF worker.ceiling = 0 THEN cursor
               ELSE [cursor EXCEPT !.committed[feed] = worker.ceiling]
  /\ Goto("ceiling")
  /\ UNCHANGED <<statuses, mapping, alias, inbox, sent, faults>>

ClearCeiling ==
  /\ worker.pc = "ceiling"
  /\ cursor' = [cursor EXCEPT !.ceiling[feed] = 0]
  /\ Goto("next")
  /\ UNCHANGED <<statuses, mapping, alias, inbox, sent, faults>>

\* Faulty: the position inside the gap survives the gap.
KeepNext ==
  /\ worker.pc = "next"
  /\ Goto("index")
  /\ UNCHANGED <<statuses, store, inbox, faults>>

ClearNext ==
  /\ worker.pc = "next"
  /\ cursor' = [cursor EXCEPT !.next[feed] = 0]
  /\ Goto("index")
  /\ UNCHANGED <<statuses, mapping, alias, inbox, sent, faults>>

\* The next Backfill starts with the timeline after this one; this Backfill
\* goes on while it has budget and timelines left.
SaveIndex ==
  LET visited == worker.visited + 1
      remaining == worker.remaining - worker.used
  IN
  /\ worker.pc = "index"
  /\ cursor' = [cursor EXCEPT !.index = (@ + 1) % Len(Feeds)]
  /\ worker' = [Idle EXCEPT
       !.pc = IF visited < Len(Feeds) /\ remaining > 0 THEN "page" ELSE "connect",
       !.visited = visited, !.remaining = remaining]
  /\ UNCHANGED <<statuses, mapping, alias, inbox, sent, faults>>

\* A failed request or transaction, a full outbox, or a crash: Backfill is
\* started again from the saved cursors.
BackfillFails ==
  /\ worker.pc \notin {"idle", "stream"} /\ faults < MaxFaults
  /\ worker' = Idle /\ faults' = faults + 1
  /\ UNCHANGED <<statuses, store, inbox>>

-----------------------------------------------------------------------------
(***************************************************************************)
(* The stream.                                                             *)
(***************************************************************************)

Subscribe ==
  /\ worker.pc = "connect"
  /\ worker' = [Idle EXCEPT !.pc = "stream"]
  /\ UNCHANGED <<statuses, store, inbox, faults>>

HandleEvent ==
  /\ worker.pc = "stream" /\ inbox # << >>
  /\ IF Head(inbox).op = "delete" THEN deleteStatus(Head(inbox).id)
     ELSE handleStatus(Head(inbox).id, Head(inbox).version)
  /\ inbox' = Tail(inbox)
  /\ UNCHANGED <<statuses, cursor, worker, faults>>

\* Messages that were not read before the connection ended are lost.
Disconnect ==
  /\ worker.pc = "stream"
  /\ worker' = Idle /\ inbox' = << >>
  /\ UNCHANGED <<statuses, store, faults>>

Recover ==
  \/ BeginBackfill \/ ReadPage \/ HandlePage \/ PageDone
  \/ SaveCommitted \/ ClearCeiling \/ ClearNext \/ SaveIndex \/ Subscribe

Next ==
  \/ \E kind \in Kind : PostStatus(kind)
  \/ \E i \in DOMAIN statuses : EditStatus(i) \/ DeleteStatus(i)
  \/ Recover \/ BackfillFails \/ HandleEvent \/ Disconnect

\* The worker goroutine runs.
Spec == Init /\ [][Next]_vars /\ WF_vars(Recover)

-----------------------------------------------------------------------------
(***************************************************************************)
(* Properties.                                                             *)
(***************************************************************************)

\* A status that was enqueued, or that need not be.
Settled(i) == sent[i] # << >> \/ ~Mirrored(i) \/ statuses[i].deleted
Missing(i) == i \in DOMAIN statuses /\ ~Settled(i)

\* What the committed cursor of a timeline covers was enqueued: no crash
\* between the three saves, no budget, page boundary or status that arrives
\* while a gap is being closed makes Backfill skip a status.
CommittedCovers ==
  \A f \in Feed, i \in DOMAIN statuses :
    (f \in statuses[i].kind.feeds /\ i <= cursor.committed[f]) => Settled(i)

\* No version of a status is enqueued twice and none after a newer one,
\* though a status may be read from several timelines, from the stream once
\* per timeline, and again after a failure (HandleEvent's idempotency).
VersionsAscend ==
  \A i \in Id : \A j, k \in DOMAIN sent[i] : j < k => sent[i][j] < sent[i][k]

\* Every connection is preceded by a Backfill: as long as connections keep
\* being renewed, every status of a target is enqueued in the end, the ones
\* that fall between a page and the subscription included.
GapsClosed ==
  ([]<><<Disconnect>>_vars) =>
    \A i \in Id : []<>~Missing(i)
=============================================================================
