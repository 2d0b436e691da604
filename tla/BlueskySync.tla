---------------------------- MODULE BlueskySync ----------------------------
(***************************************************************************)
(* Bluesky posts mirrored to the relay, end to end:                        *)
(*                                                                         *)
(*   source    the repositories of followed authors: a log of commits that *)
(*             Jetstream replays from a cursor, and the timeline;          *)
(*   syncer    cmd/nostr-bridge/syncer with the loop around it in          *)
(*             runtime.go: backfill, subscription, Handle, reconnection,   *)
(*             and the live target set that reconciliation replaces;       *)
(*   store     mappings, source operations, stream cursor and targets;     *)
(*             each enqueue operation is one transaction (module Outbox);  *)
(*   delivery  one FIFO channel per author with repeated delivery, which   *)
(*             is what Outbox is shown to implement;                       *)
(*   relay     the transactions of module RelayEvents.                     *)
(*                                                                         *)
(* An event is known by the post and the version of its text, because      *)
(* PostEvent is a function of the record.  A commit is far when more than  *)
(* the rewind of three seconds separates it from the commit before it.     *)
(***************************************************************************)
EXTENDS RelayEvents, Sequences, Functions

CONSTANTS
  Author,      \* DIDs
  Post,        \* record URIs
  AuthorOf,    \* [Post -> Author]
  Version,     \* contents of a record
  First,       \* the version a post is created with
  Core,        \* authors that stay targets throughout
  None,
  Limit,       \* NOSTR_BRIDGE_OUTBOX_LIMIT
  MaxCommits,  \* bound: length of the log
  MaxEdits,    \* bound: updates in the log
  MaxFaults,   \* bound: lost connections and crashes
  MaxRetarget  \* bound: changes of the followed set

ASSUME SourceAssumption ==
  /\ AuthorOf \in [Post -> Author] /\ First \in Version /\ Core \subseteq Author
  /\ None \notin Version
ASSUME SyncBounds ==
  /\ Limit \in Nat /\ MaxCommits \in Nat /\ MaxEdits \in Nat
  /\ MaxFaults \in Nat /\ MaxRetarget \in Nat

VARIABLES
  log,        \* the commits, oldest first
  follows,    \* the authors followed or listed at the source
  syncer,     \* [phase, page, next, wanted]: the runtime loop and its stream
  live,       \* liveTargets.values
  signal,     \* liveTargets.updates holds a token
  store,      \* [mapping, operation, cursor, targets]: the bridge database
  channel,    \* [Author -> sequence of events on their way to the relay]
  relay,      \* [events, tombstones]: the relay's tables
  faults, retargets

vars == <<log, follows, syncer, live, signal, store, channel, relay,
          faults, retargets>>
sourceVars == <<log, follows, faults, retargets>>

\* Where the runtime loop is: waiting for its next attempt, walking through a
\* timeline page, about to subscribe, or reading the stream.
Phase == {"waiting", "backfill", "connect", "stream"}
Waiting == [phase |-> "waiting", page |-> {}, next |-> 0, wanted |-> {}]

Init ==
  /\ log = << >>
  /\ follows = Author
  /\ syncer = Waiting
  /\ live = {} /\ signal = FALSE
  /\ store = [mapping |-> [p \in Post |-> None],
              operation |-> [p \in Post |-> None], cursor |-> 0,
              targets |-> Author]
  /\ channel = [a \in Author |-> << >>]
  /\ relay = [events |-> {}, tombstones |-> {}]
  /\ faults = 0 /\ retargets = 0

-----------------------------------------------------------------------------
(***************************************************************************)
(* The source.                                                             *)
(***************************************************************************)

\* The last commit of a post decides what the source shows.
Commits(p) == {i \in DOMAIN log : log[i].post = p}
LastCommit(p) == CHOOSE i \in Commits(p) : \A j \in Commits(p) : j <= i
Current(p) ==
  IF Commits(p) = {} \/ log[LastCommit(p)].op = "delete" THEN None
  ELSE log[LastCommit(p)].version

Commit(op, p, v) ==
  /\ Len(log) < MaxCommits
  /\ \E far \in BOOLEAN :
       log' = Append(log, [op |-> op, post |-> p, version |-> v, far |-> far])
  /\ UNCHANGED <<follows, syncer, live, signal, store, channel, relay,
                 faults, retargets>>

CreatePost(p) == Commits(p) = {} /\ Commit("create", p, First)
UpdatePost(p) ==
  /\ Current(p) # None
  /\ Cardinality({i \in DOMAIN log : log[i].op = "update"}) < MaxEdits
  /\ \E v \in Version \ {Current(p)} : Commit("update", p, v)
DeletePost(p) == Current(p) # None /\ Commit("delete", p, None)

\* The owner follows or unfollows authors outside Core.
Retarget(F) ==
  /\ retargets < MaxRetarget /\ F # follows /\ Core \subseteq F
  /\ follows' = F /\ retargets' = retargets + 1
  /\ UNCHANGED <<log, syncer, live, signal, store, channel, relay, faults>>

-----------------------------------------------------------------------------
(***************************************************************************)
(* Enqueue transactions of the store (module Outbox).                      *)
(***************************************************************************)

\* nostrmap.PostEvent: the identity of the event is that of the record.
PostEvent(p, v) ==
  [id |-> <<p, v>>, pubkey |-> AuthorOf[p], class |-> "regular", targets |-> {}]

DeletionOf(p, v) ==
  [id |-> <<p, v, "deleted">>, pubkey |-> AuthorOf[p], class |-> "deletion",
   targets |-> {<<p, v>>}]

\* What the outbox has room for; the authors share it.
Room == Limit - FoldFunction(LAMBDA es, n : Len(es) + n, 0, channel)

Send(p, es) ==
  /\ Len(es) <= Room
  /\ channel' = [channel EXCEPT ![AuthorOf[p]] = @ \o es]

\* EnqueueEvent through enqueueMappedEvent; a backfilled post has no cursor.
EnqueueEvent(p, v, cursor) ==
  /\ Send(p, <<PostEvent(p, v)>>)
  /\ store' = [store EXCEPT !.mapping[p] = v, !.cursor = cursor]

\* Faulty: the replaced event is not deleted.
EnqueueUpdateOnly(p, v, cursor) ==
  /\ Send(p, <<PostEvent(p, v)>>)
  /\ store' = [store EXCEPT !.mapping[p] = v, !.operation[p] = v, !.cursor = cursor]

\* EnqueueUpdate: the old event is deleted before the new one is published.
EnqueueUpdate(p, v, cursor) ==
  /\ Send(p, <<DeletionOf(p, store.mapping[p]), PostEvent(p, v)>>)
  /\ store' = [store EXCEPT !.mapping[p] = v, !.operation[p] = v, !.cursor = cursor]

\* EnqueueDelete forgets the mapping and the operation.
EnqueueDelete(p, cursor) ==
  /\ Send(p, <<DeletionOf(p, store.mapping[p])>>)
  /\ store' = [store EXCEPT !.mapping[p] = None, !.operation[p] = None,
                            !.cursor = cursor]

SaveCursor(cursor) ==
  /\ store' = [store EXCEPT !.cursor = cursor]
  /\ UNCHANGED channel

-----------------------------------------------------------------------------
(***************************************************************************)
(* Starting: reconciliation, live targets, backfill.                       *)
(***************************************************************************)

\* The followed accounts and the members of the configured lists, read page
\* after page (Follows and List).
Actors == follows

\* Reconcile, or the persisted targets when the source cannot be read
\* (resolveInitialTargets).
Reconciled == {Actors, store.targets}

\* One timeline page: any of the current posts, as the backfill limit cuts it.
Timeline == SUBSET {<<p, Current(p)>> : p \in {q \in Post : Current(q) # None}}

\* newLiveTargets: the token of the first Set is drained.
NewLiveTargets(T) == live' = T /\ signal' = FALSE

\* One round of runBluesky: the targets are persisted and become the live
\* ones, and Run begins with the backfill.  With no target there is nothing to
\* run.
Start ==
  /\ syncer.phase = "waiting"
  /\ \E T \in Reconciled :
       /\ T # {}
       /\ store' = [store EXCEPT !.targets = T]
       /\ NewLiveTargets(T)
  /\ \E page \in Timeline :
       syncer' = [Waiting EXCEPT !.phase = "backfill", !.page = page]
  /\ UNCHANGED <<channel, relay, sourceVars>>

\* Faulty: a backfilled post moves the stream cursor to the present.
BackfillWithCursor(p, v) ==
  /\ syncer.phase = "backfill" /\ <<p, v>> \in syncer.page
  /\ syncer' = [syncer EXCEPT !.page = @ \ {<<p, v>>}]
  /\ IF AuthorOf[p] \in live /\ store.mapping[p] = None
     THEN EnqueueEvent(p, v, Len(log))
     ELSE UNCHANGED <<store, channel>>
  /\ UNCHANGED <<live, signal, relay, sourceVars>>

\* publishPost for one post of the page: skipped when its author is no
\* target or it is mapped already.
Backfill(p, v) ==
  /\ syncer.phase = "backfill" /\ <<p, v>> \in syncer.page
  /\ syncer' = [syncer EXCEPT !.page = @ \ {<<p, v>>}]
  /\ IF AuthorOf[p] \in live /\ store.mapping[p] = None
     THEN EnqueueEvent(p, v, store.cursor)
     ELSE UNCHANGED <<store, channel>>
  /\ UNCHANGED <<live, signal, relay, sourceVars>>

BackfillDone ==
  /\ syncer.phase = "backfill" /\ syncer.page = {}
  /\ syncer' = [syncer EXCEPT !.phase = "connect"]
  /\ UNCHANGED <<live, signal, store, channel, relay, sourceVars>>

-----------------------------------------------------------------------------
(***************************************************************************)
(* The stream.                                                             *)
(***************************************************************************)

\* The first commit of a subscription at a cursor: those less than the rewind
\* before it are repeated.
Rewound(cursor) ==
  LET close == {i \in 1..cursor : \A j \in (i + 1)..cursor : ~log[j].far} IN
  IF close = {} THEN 1 ELSE CHOOSE i \in close : \A j \in close : i <= j

\* Subscription and Connect; without targets Run returns an error.
Subscribe ==
  /\ syncer.phase = "connect"
  /\ IF live = {}
     THEN syncer' = Waiting
     ELSE syncer' = [syncer EXCEPT !.phase = "stream", !.wanted = live,
                                   !.next = Rewound(store.cursor)]
  /\ UNCHANGED <<live, signal, store, channel, relay, sourceVars>>

Create(i, p, v) ==
  IF store.mapping[p] # None THEN SaveCursor(i) ELSE EnqueueEvent(p, v, i)

\* The recorded operation makes an update idempotent; one without a mapping
\* fails (enqueueReplacement).
Update(i, p, v) ==
  IF store.operation[p] = v THEN SaveCursor(i)
  ELSE store.mapping[p] # None /\ EnqueueUpdate(p, v, i)

Delete(i, p) ==
  IF store.mapping[p] = None THEN SaveCursor(i) ELSE EnqueueDelete(p, i)

\* Handle for the next commit.  The server sends commits of the authors that
\* the subscription names; Handle ignores those that are no target any more.
Handle ==
  LET i == syncer.next
      p == log[i].post
  IN
  /\ syncer.phase = "stream" /\ i <= Len(log)
  /\ IF AuthorOf[p] \notin syncer.wanted \cap live
     THEN UNCHANGED <<store, channel>>
     ELSE CASE log[i].op = "create" -> Create(i, p, log[i].version)
            [] log[i].op = "update" -> Update(i, p, log[i].version)
            [] log[i].op = "delete" -> Delete(i, p)
  /\ syncer' = [syncer EXCEPT !.next = i + 1]
  /\ UNCHANGED <<live, signal, relay, sourceVars>>

\* The next commit has no transaction: an update without a mapping, or no
\* room in the outbox.
Refused ==
  LET i == syncer.next
      p == log[i].post
  IN
  /\ syncer.phase = "stream" /\ i <= Len(log)
  /\ AuthorOf[p] \in syncer.wanted \cap live
  /\ CASE log[i].op = "create" -> store.mapping[p] = None /\ Room < 1
       [] log[i].op = "update" ->
            store.operation[p] # log[i].version /\ (store.mapping[p] = None \/ Room < 2)
       [] log[i].op = "delete" -> store.mapping[p] # None /\ Room < 1

\* Handle fails, and Run reconnects from the cursor.
HandleFails ==
  /\ Refused
  /\ syncer' = [syncer EXCEPT !.phase = "connect"]
  /\ UNCHANGED <<live, signal, store, channel, relay, sourceVars>>

\* A backfill without room in the outbox ends Run.
BackfillFails ==
  /\ syncer.phase = "backfill"
  /\ \E pv \in syncer.page :
       AuthorOf[pv[1]] \in live /\ store.mapping[pv[1]] = None /\ Room < 1
  /\ syncer' = Waiting
  /\ UNCHANGED <<live, signal, store, channel, relay, sourceVars>>

\* Faulty: a changed target set is stored without telling the stream.
SetSilently(T) == live' = T /\ UNCHANGED signal

\* liveTargets.Set: the token is dropped when one is waiting already.
SetTargets(T) ==
  /\ live' = T
  /\ signal' = (signal \/ live # T)

\* reconcilePeriodically with applyPeriodicTargets.
ReconcilePeriodically ==
  /\ syncer.phase # "waiting"
  /\ store' = [store EXCEPT !.targets = Actors]
  /\ SetTargets(Actors)
  /\ UNCHANGED <<syncer, channel, relay, sourceVars>>

\* Faulty: the token stays after it ended a subscription.
TargetUpdateKeepingToken ==
  /\ syncer.phase = "stream" /\ signal
  /\ syncer' = [syncer EXCEPT !.phase = "connect"]
  /\ UNCHANGED <<live, signal, store, channel, relay, sourceVars>>

\* consumeUntilTargetUpdate: the token ends the subscription.
TargetUpdate ==
  /\ syncer.phase = "stream" /\ signal
  /\ signal' = FALSE
  /\ syncer' = [syncer EXCEPT !.phase = "connect"]
  /\ UNCHANGED <<live, store, channel, relay, sourceVars>>

Disconnect ==
  /\ faults < MaxFaults /\ faults' = faults + 1
  /\ syncer.phase = "stream"
  /\ syncer' = [syncer EXCEPT !.phase = "connect"]
  /\ UNCHANGED <<log, follows, retargets, live, signal, store, channel, relay>>

Crash ==
  /\ faults < MaxFaults /\ faults' = faults + 1
  /\ syncer.phase # "waiting"
  /\ syncer' = Waiting /\ live' = {} /\ signal' = FALSE
  /\ UNCHANGED <<log, follows, retargets, store, channel, relay>>

-----------------------------------------------------------------------------
(***************************************************************************)
(* Delivery.                                                               *)
(***************************************************************************)

\* The relay stores the head of a channel; the outbox may repeat it.
Deliver(a, done) ==
  LET e == Head(channel[a]) IN
  /\ channel[a] # << >>
  /\ relay' = [events |-> DeleteOwnedEvents(Saved(relay.events, relay.tombstones, e), e),
               tombstones |-> InsertDeletionTombstones(relay.tombstones, e)]
  /\ channel' = IF done THEN [channel EXCEPT ![a] = Tail(@)] ELSE channel
  /\ UNCHANGED <<syncer, live, signal, store, sourceVars>>

SyncerStep ==
  \/ Start
  \/ \E pv \in syncer.page : Backfill(pv[1], pv[2])
  \/ BackfillDone
  \/ BackfillFails
  \/ Subscribe
  \/ Handle
  \/ HandleFails
  \/ TargetUpdate

Next ==
  \/ \E p \in Post : CreatePost(p) \/ UpdatePost(p) \/ DeletePost(p)
  \/ \E F \in SUBSET Author : Retarget(F)
  \/ SyncerStep
  \/ ReconcilePeriodically
  \/ Disconnect
  \/ Crash
  \/ \E a \in Author, done \in BOOLEAN : Deliver(a, done)

\* The runtime loop keeps running, its ticker keeps firing, and deliveries
\* are eventually completed (ChannelLive of Outbox).
Fairness ==
  /\ WF_vars(SyncerStep)
  /\ WF_vars(ReconcilePeriodically)
  /\ \A a \in Author : WF_vars(Deliver(a, TRUE))

Spec == Init /\ [][Next]_vars /\ Fairness

-----------------------------------------------------------------------------
(***************************************************************************)
(* Properties.                                                             *)
(***************************************************************************)

\* The stream has been read to its end and everything sent has arrived.
CaughtUp ==
  /\ syncer.phase = "stream" /\ syncer.next > Len(log)
  /\ \A a \in Author : channel[a] = << >>

Shown(p) == {v \in Version : PostEvent(p, v) \in relay.events}
Edited(p) == \E i \in Commits(p) : log[i].op = "update"

\* Once caught up, a post of an author who stayed a target is on the relay
\* exactly when it exists at the source, whatever was repeated after lost
\* connections, crashes, rewinds and backfills, if it was never edited.
UneditedMirrored ==
  CaughtUp => \A p \in Post :
    (AuthorOf[p] \in Core /\ ~Edited(p)) =>
       Shown(p) = IF Current(p) = None THEN {} ELSE {Current(p)}

\* Once caught up, the relay shows no deleted post and no superseded version
\* of an author who stayed a target, edited posts included.
NothingStale ==
  CaughtUp => \A p \in Post : AuthorOf[p] \in Core => Shown(p) \subseteq {Current(p)}

\* A subscription for an outdated target set is always about to be ended: the
\* one-slot channel never loses the last change (liveTargets.Set against
\* Subscription and consumeUntilTargetUpdate).
SubscriptionFresh ==
  (syncer.phase = "stream" /\ syncer.wanted # live) => signal

\* Faults end, so the syncer catches up with the source for good, unless
\* Handle fails again and again: on an update that has no mapping, or because
\* what each reconnection replays fills the outbox anew.
CatchesUp == <>[]CaughtUp \/ []<>Refused

\* Recovery and replay leave the relay with what the source shows.
Mirrored ==
  CaughtUp => \A p \in Post : AuthorOf[p] \in Core =>
    Shown(p) = IF Current(p) = None THEN {} ELSE {Current(p)}
=============================================================================
