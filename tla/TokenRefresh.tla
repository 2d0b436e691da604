---------------------------- MODULE TokenRefresh ---------------------------
(***************************************************************************)
(* The OAuth tokens of the bridge: cmd/nostr-bridge/oauth (Bluesky) and    *)
(* mastodon/oauth.go, with the health state that runtime.go derives.       *)
(*                                                                         *)
(* Requests of the sync workers (Caller), the maintenance loop and the     *)
(* callbacks of user authorizations read, refresh and replace one row of   *)
(* the database.  The authorization server accepts a refresh token once    *)
(* and answers with its successor.  The Bluesky client holds tokenMu from  *)
(* reading the row to writing it; the Mastodon client has no lock, no      *)
(* maintenance loop and records no failure.  A behaviour is about a client *)
(* of one kind; the health state is that of the Bluesky provider.          *)
(*                                                                         *)
(* Tokens are numbered as the server issues them; an access token and its  *)
(* refresh token are one.                                                  *)
(***************************************************************************)
EXTENDS Integers, FiniteSets, Sequences

CONSTANTS
  Caller,       \* workers that ask for a token
  Callback,     \* authorizations that the user completes
  Lifetime,     \* seconds until an access token expires
  Period,       \* OAuthRefreshPeriod
  MaxTime,      \* bound: clock
  MaxFaults,    \* bound: lost messages, failed writes, revocations, crashes
  None, Maintenance

ASSUME TokenBounds ==
  Lifetime \in Nat /\ Period \in Nat /\ MaxTime \in Nat /\ MaxFaults \in Nat

Worker == Caller \cup {Maintenance}
Process == Worker \cup Callback

ASSUME ProcessAssumption == Worker \cap Callback = {} /\ None \notin Process

VARIABLES
  kind,       \* "bluesky" or "mastodon"
  now,        \* clock
  server,     \* [grants : Seq(Nat), live : set of tokens]: issued tokens
  row,        \* oauth_tokens: [token, expiry, last, reauth]
  lock,       \* holder of tokenMu
  proc,       \* [Process -> local variables]
  health,     \* [available, reauth] of the Bluesky provider
  authorized, \* history: grant of the last completed authorization
  history,    \* history: [presented, again, lost, refused]: sets of tokens
  faults

vars == <<kind, now, server, row, lock, proc, health, authorized, history, faults>>

Bluesky == kind = "bluesky"
Idle == [pc |-> "idle", cur |-> 0, new |-> 0, at |-> 0, outcome |-> "none",
         status |-> [available |-> FALSE, reauth |-> FALSE]]
Reporting == [Idle EXCEPT !.pc = "report"]

\* AuthorizationStatus: what the row says.
Status(r) == [available |-> r.token # 0 /\ ~r.reauth, reauth |-> r.reauth]

NoRow == [token |-> 0, expiry |-> 0, last |-> 0, reauth |-> FALSE]
SavedRow(t, at) == [token |-> t, expiry |-> at + Lifetime, last |-> at, reauth |-> FALSE]

\* The bridge starts without an authorization or with an earlier one.
Init ==
  /\ kind \in {"bluesky", "mastodon"}
  /\ now = 0
  /\ \/ row = NoRow /\ authorized = 0 /\ server = [grants |-> << >>, live |-> {}]
     \/ row = SavedRow(1, 0) /\ authorized = 1 /\ server = [grants |-> <<1>>, live |-> {1}]
  /\ lock = None
  /\ proc = [p \in Process |-> Idle]
  /\ health = Status(row)
  /\ history = [presented |-> {}, again |-> {}, lost |-> {}, refused |-> {}]
  /\ faults = 0

Fault == faults < MaxFaults /\ faults' = faults + 1
NoFault == UNCHANGED faults

Issue(s) == Len(s.grants) + 1

-----------------------------------------------------------------------------
(***************************************************************************)
(* Workers.                                                                *)
(***************************************************************************)

\* The age of the row for the maintenance loop, the expiry for a caller; a row
\* that needs a new authorization is left alone.
Due(p) ==
  /\ row.token # 0 /\ ~row.reauth
  /\ IF p = Maintenance THEN row.last + Period <= now ELSE row.expiry <= now

\* Faulty: the row is read before the lock is taken.
BeginUnlocked(p) ==
  /\ Bluesky /\ proc[p].pc = "idle"
  /\ proc' = [proc EXCEPT ![p] = IF Due(p)
                                 THEN [Idle EXCEPT !.pc = "request", !.cur = row.token]
                                 ELSE Reporting]
  /\ UNCHANGED <<kind, now, server, row, lock, health, authorized, history, faults>>

\* TokenByAccountDID or RefreshIfDue up to the request.
Begin(p) ==
  /\ Bluesky /\ proc[p].pc = "idle" /\ lock = None
  /\ proc' = [proc EXCEPT ![p] = IF Due(p)
                                 THEN [Idle EXCEPT !.pc = "request", !.cur = row.token]
                                 ELSE Reporting]
  /\ lock' = IF Due(p) THEN p ELSE lock
  /\ UNCHANGED <<kind, now, server, row, health, authorized, history, faults>>

\* The Mastodon client's Token up to the request.
MastodonBegin(p) ==
  /\ ~Bluesky /\ p # Maintenance /\ proc[p].pc = "idle" /\ Due(p)
  /\ proc' = [proc EXCEPT ![p] = [Idle EXCEPT !.pc = "request", !.cur = row.token]]
  /\ UNCHANGED <<kind, now, server, row, lock, health, authorized, history, faults>>

\* The token endpoint receives the request: a live token is replaced by its
\* successor.  The answer may be lost.
Answer(p) ==
  LET t == proc[p].cur
      s == Issue(server)
      ok == t \in server.live
  IN
  /\ proc[p].pc = "request"
  /\ history' = [history EXCEPT !.presented = @ \cup {t},
                                !.again = @ \cup ({t} \cap history.presented)]
  /\ server' = IF ok THEN [grants |-> Append(server.grants, server.grants[t]),
                           live |-> (server.live \ {t}) \cup {s}]
               ELSE server
  /\ proc' = [proc EXCEPT ![p].pc = "answered", ![p].new = IF ok THEN s ELSE 0,
                          ![p].at = now, ![p].outcome = IF ok THEN "ok" ELSE "invalid_grant"]
  /\ NoFault
  /\ UNCHANGED <<kind, now, row, lock, health, authorized>>

\* No answer, before or after the server acted on the request (classes
\* timeout, connection, server and rate limit), or one that makes no sense
\* (protocol).
Unanswered(p) ==
  /\ proc[p].pc \in {"request", "answered"} /\ Fault
  /\ \E o \in {"transient", "protocol"} :
       /\ proc' = [proc EXCEPT ![p].pc = "answered", ![p].outcome = o, ![p].new = 0]
       /\ history' = [history EXCEPT
            !.lost = IF proc[p].outcome = "ok" THEN @ \cup {proc[p].cur} ELSE @,
            !.refused = IF o = "protocol" THEN @ \cup {proc[p].cur} ELSE @]
  /\ UNCHANGED <<kind, now, server, row, lock, health, authorized>>

\* Faulty: the successor of the refresh token is not kept.
PersistWithoutSuccessor(p) ==
  /\ Bluesky /\ proc[p].pc = "answered"
  /\ row' = IF proc[p].outcome = "ok" THEN SavedRow(proc[p].cur, proc[p].at)
            ELSE [row EXCEPT !.reauth = proc[p].outcome # "transient"]
  /\ lock' = None
  /\ proc' = [proc EXCEPT ![p] = Reporting]
  /\ NoFault
  /\ UNCHANGED <<kind, now, server, health, authorized, history>>

\* SaveOAuthToken, or UpdateOAuthTokenRefreshFailure with the classified
\* failure.  The lock is released.
Persist(p) ==
  /\ Bluesky /\ proc[p].pc = "answered"
  /\ row' = IF proc[p].outcome = "ok" THEN SavedRow(proc[p].new, proc[p].at)
            ELSE [row EXCEPT !.reauth = proc[p].outcome # "transient"]
  /\ lock' = None
  /\ proc' = [proc EXCEPT ![p] = Reporting]
  /\ NoFault
  /\ UNCHANGED <<kind, now, server, health, authorized, history>>

\* The Mastodon client's Token after the answer.
MastodonPersist(p) ==
  /\ ~Bluesky /\ proc[p].pc = "answered"
  /\ row' = IF proc[p].outcome = "ok" THEN SavedRow(proc[p].new, proc[p].at) ELSE row
  /\ proc' = [proc EXCEPT ![p] = Idle]
  /\ UNCHANGED <<kind, now, server, lock, health, authorized, history, faults>>

\* The write fails, as it does when the context has ended.
PersistFails(p) ==
  /\ proc[p].pc = "answered" /\ Fault
  /\ history' = [history EXCEPT
       !.lost = IF proc[p].outcome = "ok" THEN @ \cup {proc[p].cur} ELSE @]
  /\ lock' = None
  /\ proc' = [proc EXCEPT ![p] = IF Bluesky THEN Reporting ELSE Idle]
  /\ UNCHANGED <<kind, now, server, row, health, authorized>>

-----------------------------------------------------------------------------
(***************************************************************************)
(* Authorizations, status and environment.                                 *)
(***************************************************************************)

\* HandleCallback exchanges the code of a new grant without the lock.
Exchange(k) ==
  LET t == Issue(server) IN
  /\ proc[k].pc = "idle"
  /\ server' = [grants |-> Append(server.grants, t), live |-> server.live \cup {t}]
  /\ proc' = [proc EXCEPT ![k].pc = "save", ![k].new = t, ![k].at = now]
  /\ UNCHANGED <<kind, now, row, lock, health, authorized, history, faults>>

Done == [Idle EXCEPT !.pc = "done"]

\* Faulty: the callback does not wait for a refresh in progress.
SaveUnlocked(k) ==
  /\ Bluesky /\ proc[k].pc = "save"
  /\ row' = SavedRow(proc[k].new, proc[k].at)
  /\ authorized' = proc[k].new
  /\ proc' = [proc EXCEPT ![k] = Reporting]
  /\ UNCHANGED <<kind, now, server, lock, health, history, faults>>

\* HandleCallback saves the token under the lock.
Save(k) ==
  /\ Bluesky /\ proc[k].pc = "save" /\ lock = None
  /\ row' = SavedRow(proc[k].new, proc[k].at)
  /\ authorized' = proc[k].new
  /\ proc' = [proc EXCEPT ![k] = Reporting]
  /\ UNCHANGED <<kind, now, server, lock, health, history, faults>>

\* HandleCallback of the Mastodon client saves the token without a lock.
MastodonSave(k) ==
  /\ ~Bluesky /\ proc[k].pc = "save"
  /\ row' = SavedRow(proc[k].new, proc[k].at)
  /\ authorized' = proc[k].new
  /\ proc' = [proc EXCEPT ![k] = Done]
  /\ UNCHANGED <<kind, now, server, lock, health, history, faults>>

\* The callback ends with an error: its token could not be saved, or it was
\* saved and the session could not be deleted.  Nothing is reported.
CallbackFails(k) ==
  /\ proc[k].pc = "save" /\ lock = None /\ Fault
  /\ \/ UNCHANGED <<row, authorized>>
     \/ row' = SavedRow(proc[k].new, proc[k].at) /\ authorized' = proc[k].new
  /\ proc' = [proc EXCEPT ![k] = Done]
  /\ UNCHANGED <<kind, now, server, lock, health, history>>

\* AuthorizationStatus reads the row under the lock ...
Report(p) ==
  /\ proc[p].pc = "report" /\ lock = None
  /\ proc' = [proc EXCEPT ![p].pc = "apply", ![p].status = Status(row)]
  /\ UNCHANGED <<kind, now, server, row, lock, health, authorized, history, faults>>

\* Faulty: the maintenance loop does not report what it found.
ApplyUnlessMaintenance(p) ==
  /\ proc[p].pc = "apply"
  /\ health' = IF p = Maintenance THEN health ELSE proc[p].status
  /\ proc' = [proc EXCEPT ![p] = IF p \in Callback THEN Done ELSE Idle]
  /\ UNCHANGED <<kind, now, server, row, lock, authorized, history, faults>>

\* ... and the observer applies it to the health state afterwards.
Apply(p) ==
  /\ proc[p].pc = "apply"
  /\ health' = proc[p].status
  /\ proc' = [proc EXCEPT ![p] = IF p \in Callback THEN Done ELSE Idle]
  /\ UNCHANGED <<kind, now, server, row, lock, authorized, history, faults>>

\* The row could not be read, so there is nothing to apply.
ReportFails(p) ==
  /\ proc[p].pc = "report" /\ lock = None /\ Fault
  /\ proc' = [proc EXCEPT ![p] = IF p \in Callback THEN Done ELSE Idle]
  /\ UNCHANGED <<kind, now, server, row, lock, health, authorized, history>>

\* The bridge is restarted; startBlueskyOAuthMaintenance reports the row.
Restart ==
  /\ Fault
  /\ proc' = [p \in Process |->
       IF p \in Callback /\ proc[p].pc # "idle" THEN Done ELSE Idle]
  /\ lock' = None
  /\ health' = IF Bluesky THEN Status(row) ELSE health
  /\ history' = [history EXCEPT !.lost = @ \cup
       {proc[p].cur : p \in {q \in Worker : /\ proc[q].pc = "answered"
                                            /\ proc[q].outcome = "ok"}}]
  /\ UNCHANGED <<kind, now, server, row, authorized>>

\* The user revokes a grant at the server.
Revoke(g) ==
  /\ Fault
  /\ server' = [server EXCEPT !.live = {t \in @ : server.grants[t] # g}]
  /\ history' = [history EXCEPT
       !.lost = @ \cup {t \in server.live : server.grants[t] = g}]
  /\ UNCHANGED <<kind, now, row, lock, proc, health, authorized>>

Tick ==
  /\ now < MaxTime /\ now' = now + 1
  /\ UNCHANGED <<kind, server, row, lock, proc, health, authorized, history, faults>>

WorkerStep(p) ==
  \/ Begin(p) \/ Answer(p) \/ Persist(p) \/ Report(p) \/ Apply(p)
  \/ MastodonBegin(p) \/ MastodonPersist(p)
CallbackStep(k) ==
  Exchange(k) \/ Save(k) \/ MastodonSave(k) \/ Report(k) \/ Apply(k)

Next ==
  \/ \E p \in Worker : WorkerStep(p) \/ Unanswered(p) \/ PersistFails(p)
  \/ \E p \in Process : ReportFails(p)
  \/ \E k \in Callback : CallbackStep(k) \/ CallbackFails(k)
  \/ Restart \/ Tick
  \/ \E t \in server.live : Revoke(server.grants[t])

\* The maintenance loop always comes back after its interval or a retry
\* delay, and what was begun goes on; Go's mutex lets every waiter in.
Spec ==
  /\ Init /\ [][Next]_vars
  /\ SF_vars(WorkerStep(Maintenance))
  /\ \A c \in Caller : SF_vars(proc[c].pc # "idle" /\ WorkerStep(c))
  /\ \A k \in Callback : SF_vars(proc[k].pc # "idle" /\ CallbackStep(k))

-----------------------------------------------------------------------------
(***************************************************************************)
(* Properties.                                                             *)
(***************************************************************************)

\* "The row is reloaded while refreshes are serialized so concurrent callers
\* cannot rotate the same refresh token" (RefreshIfDue): the Bluesky client
\* presents a token again only after its successor was lost.
SingleUse == Bluesky => history.again \subseteq history.lost \cup history.refused

\* A refresh that was under way never replaces the token of an authorization
\* that the user has completed since, nor marks it as failed: the Bluesky row
\* belongs to the last grant, and it asks for another authorization only when
\* its own token is dead or was refused.
AuthorizationKept ==
  (Bluesky /\ row.token # 0) =>
    /\ server.grants[row.token] = authorized
    /\ row.reauth => row.token \notin server.live \/ row.token \in history.refused

Saving == \E p \in Worker : proc[p].pc = "answered" /\ proc[p].outcome = "ok"

\* The stored token of either client can be used, unless its successor was
\* lost, it was revoked, or its successor is about to be saved: racing
\* refreshes and authorizations leave no dead token behind.
StoredUsable ==
  (row.token # 0 /\ ~Saving) => row.token \in server.live \cup history.lost

\* When nothing more happens to it, the Bluesky row is fresh or marked, and
\* the health state says what the row says, whatever order the reports of
\* callers, callbacks and maintenance were applied in.
Settles ==
  Bluesky => <>[](health = Status(row) /\ ~Due(Maintenance))
=============================================================================
