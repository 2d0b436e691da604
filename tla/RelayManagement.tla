-------------------------- MODULE RelayManagement --------------------------
(***************************************************************************)
(* The NIP-86 management API of nostr-relay on top of the event store: the *)
(* NIP-98 authorization of a request, its replay table and the change of   *)
(* the allow-list.                                                         *)
(*                                                                         *)
(* The clock counts half seconds, so that the whole seconds of timestamps  *)
(* and of the replay table lose something.  A request reads the clock once *)
(* (Validate), consumes its authorization in a transaction (Consume) and   *)
(* changes the allow-list in another (Dispatch).                           *)
(***************************************************************************)
EXTENDS RelayStore

CONSTANTS
  Auth,      \* signed authorization events of the administrator
  Worker,    \* concurrent management requests
  NoAuth,
  MaxSkew,   \* seconds, NIP98Validator.MaxSkew
  MaxStall,  \* ticks between a request's clock reading and its transaction
  MaxClock   \* bound: last tick

\* An authorization names one request through the hash of its payload.
ASSUME AuthAssumption ==
  /\ Auth \subseteq [id : Nat, created : Nat, pubkey : Pubkey,
                     method : {"allowpubkey", "unallowpubkey"}]
  /\ \A a, b \in Auth : a.id = b.id => a = b
ASSUME NoAuthAssumption == NoAuth \notin Auth
ASSUME TimeAssumption ==
  MaxSkew \in Nat \ {0} /\ MaxStall \in Nat /\ MaxClock \in Nat

VARIABLES
  clock,    \* wall clock of the relay, in half seconds; it never goes back
  seen,     \* table nip98_seen_events: pairs <<authorization, seen_at>>
  request,  \* [phase, auth, at]: where each management request is
  applied   \* history: how often an authorization was consumed

managementVars == <<clock, seen, request, applied>>
vars == <<events, tombstones, allowlist, inflight, handled,
          clock, seen, request, applied>>

Idle == [phase |-> "idle", auth |-> NoAuth, at |-> 0]

Init ==
  /\ StoreInit
  /\ clock = 0 /\ seen = {}
  /\ request = [w \in Worker |-> Idle]
  /\ applied = [a \in Auth |-> 0]

Unix(t) == t \div 2
Ticks(seconds) == 2 * seconds

\* The timestamp test of Validate; every other test of it is about the
\* request's form, which Auth satisfies.
InWindow(a, t) ==
  t - Ticks(a.created) <= Ticks(MaxSkew) /\ Ticks(a.created) - t <= Ticks(MaxSkew)

Validate(w, a) ==
  /\ request[w].phase = "idle"
  /\ InWindow(a, clock)
  /\ request' = [request EXCEPT ![w] = [phase |-> "valid", auth |-> a, at |-> clock]]
  /\ UNCHANGED <<clock, seen, applied, allowlist, storeVars>>

\* Faulty: one side of the acceptance interval only.
OneSided == Ticks(MaxSkew)

Retention == Ticks(2 * MaxSkew)

\* DeleteExpiredNIP98Events
Unexpired(t) == {s \in seen : s[2] >= Unix(t - Retention)}

\* The insert of ConsumeNIP98Event affects a row.
Inserts(a, t) == \A s \in Unexpired(t) : s[1] # a

\* ConsumeNIP98Event: an authorization already in the table fails the
\* transaction, which then deletes nothing either.
Consume(w) ==
  LET r == request[w] IN
  /\ r.phase = "valid"
  /\ \/ /\ ~Inserts(r.auth, r.at)
        /\ request' = [request EXCEPT ![w] = Idle]
        /\ UNCHANGED <<seen, applied>>
     \/ /\ Inserts(r.auth, r.at)
        /\ seen' = Unexpired(r.at) \cup {<<r.auth, Unix(r.at)>>}
        /\ applied' = [applied EXCEPT ![r.auth] = @ + 1]
        /\ request' = [request EXCEPT ![w].phase = "consumed"]
  /\ UNCHANGED <<clock, allowlist, storeVars>>

AllowPublisher(pubkey) == allowlist \cup {pubkey}
UnallowPublisher(pubkey) == allowlist \ {pubkey}

\* dispatchManagement
Dispatch(w) ==
  LET a == request[w].auth IN
  /\ request[w].phase = "consumed"
  /\ allowlist' = IF a.method = "allowpubkey" THEN AllowPublisher(a.pubkey)
                  ELSE UnallowPublisher(a.pubkey)
  /\ request' = [request EXCEPT ![w] = Idle]
  /\ UNCHANGED <<clock, seen, applied, storeVars>>

\* The handler fails at its transaction or the client goes away.
RequestFails(w) ==
  /\ request[w].phase # "idle"
  /\ request' = [request EXCEPT ![w] = Idle]
  /\ UNCHANGED <<clock, seen, applied, allowlist, storeVars>>

\* The process ends: handlers are lost, the tables stay.
Restart ==
  /\ request' = [w \in Worker |-> Idle]
  /\ inflight' = [h \in Handler |-> NoEvent]
  /\ UNCHANGED <<events, tombstones, allowlist, handled, clock, seen, applied>>

Tick ==
  /\ clock < MaxClock
  /\ \A w \in Worker : request[w].phase = "valid" => clock < request[w].at + MaxStall
  /\ clock' = clock + 1
  /\ UNCHANGED <<seen, request, applied, allowlist, storeVars>>

ManagementStep ==
  \/ \E w \in Worker :
       \/ \E a \in Auth : Validate(w, a)
       \/ Consume(w)
       \/ Dispatch(w)
       \/ RequestFails(w)
  \/ Tick

Next ==
  \/ StoreNext /\ UNCHANGED managementVars
  \/ ManagementStep
  \/ Restart

Spec == Init /\ [][Next]_vars

-----------------------------------------------------------------------------
(***************************************************************************)
(* Properties.                                                             *)
(***************************************************************************)

TypeOK ==
  /\ StoreTypeOK
  /\ clock \in 0..MaxClock
  /\ seen \subseteq Auth \X Int
  /\ request \in [Worker -> [phase : {"idle", "valid", "consumed"},
                             auth : Auth \cup {NoAuth}, at : 0..MaxClock]]
  /\ applied \in [Auth -> Nat]

\* An authorization changes the allow-list at most once, whatever the
\* rounding of seconds, restarts and the expiry of its row, as long as a
\* request's transaction follows its clock reading in less than a second
\* (Validate and ConsumeNIP98Event, retention 2*maxSkew).
AppliedOnce == \A a \in Auth : applied[a] <= 1
=============================================================================
