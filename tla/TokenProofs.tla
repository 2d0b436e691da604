---------------------------- MODULE TokenProofs ----------------------------
(***************************************************************************)
(* The safety properties of TokenRefresh for any number of workers,        *)
(* authorizations and faults.                                              *)
(*                                                                         *)
(* A token is pending when a process has it and has not yet written it.    *)
(* TokenInv says that pending tokens are new: nobody has presented one,    *)
(* it is not in the row, and no two processes have the same.  The row      *)
(* holds a token that can be used, or one whose successor is pending.  For *)
(* the Bluesky client it adds what the lock is for: who holds it presents  *)
(* the token that the row holds until it is written.                       *)
(***************************************************************************)
EXTENDS TokenRefresh, TLAPS

Local ==
  [pc : {"idle", "request", "answered", "save", "report", "apply", "done"},
   cur : Nat, new : Nat, at : Nat,
   outcome : {"none", "ok", "transient", "protocol", "invalid_grant"},
   status : [available : BOOLEAN, reauth : BOOLEAN]]

Issued == 1 .. Len(server.grants)

ServerOK ==
  /\ server.grants \in Seq(Nat) /\ server.live \subseteq Issued
  /\ history.presented \subseteq Issued

RowOK ==
  /\ row \in [token : Nat, expiry : Nat, last : Nat, reauth : BOOLEAN]
  /\ row.token <= Len(server.grants)

ProcOK ==
  /\ proc \in [Process -> Local]
  /\ \A p \in Process : /\ proc[p].cur <= Len(server.grants)
                        /\ proc[p].new <= Len(server.grants)

\* The records whose fields the actions change.
Records ==
  /\ now \in Nat
  /\ server = [grants |-> server.grants, live |-> server.live]
  /\ history = [presented |-> history.presented, again |-> history.again,
                lost |-> history.lost, refused |-> history.refused]

\* The server has answered p with a successor.
Answered(p) == proc[p].pc = "answered" /\ proc[p].outcome = "ok"

Pending(p) ==
  \/ p \in Callback /\ proc[p].pc = "save"
  \/ p \in Worker /\ Answered(p)

Refreshing(p) == p \in Worker /\ proc[p].pc \in {"request", "answered"}

\* Nobody but its process knows a pending token.
Fresh ==
  \A p \in Process : Pending(p) =>
    /\ proc[p].new # 0 /\ proc[p].new \in server.live \cup history.lost
    /\ proc[p].new \notin history.presented /\ proc[p].new # row.token
    /\ \A q \in Process : q # p /\ Pending(q) => proc[q].new # proc[p].new
    /\ \A q \in Process : Refreshing(q) => proc[q].cur # proc[p].new

\* What the control state of a process says about the token it presents.
Control ==
  \A p \in Process :
    /\ Refreshing(p) => proc[p].cur # 0
    /\ proc[p].pc \in {"request", "answered"} => p \in Worker
    /\ proc[p].pc = "request" => proc[p].outcome = "none"
    /\ proc[p].pc = "answered" => proc[p].outcome # "none"
    /\ proc[p].pc = "save" =>
         p \in Callback /\ server.grants[proc[p].new] = proc[p].new
    /\ proc[p].pc = "answered" /\ proc[p].outcome = "invalid_grant" =>
         proc[p].cur \notin server.live
    /\ proc[p].pc = "answered" /\ proc[p].outcome = "protocol" =>
         proc[p].cur \in history.refused

Usable ==
  row.token # 0 =>
    \/ row.token \in server.live \cup history.lost
    \/ \E p \in Worker : Answered(p) /\ proc[p].cur = row.token

\* What tokenMu protects.
Locked ==
  Bluesky =>
    /\ \A p \in Process : Refreshing(p) => lock = p /\ proc[p].cur = row.token
    /\ \A p \in Worker :
         Answered(p) => server.grants[proc[p].new] = server.grants[proc[p].cur]
    /\ row.token \in history.presented =>
         \/ row.token \in history.lost \cup history.refused
         \/ \E p \in Worker : Answered(p)

TokenInv ==
  /\ Records /\ ServerOK /\ RowOK /\ ProcOK
  /\ Fresh /\ Control /\ Usable /\ Locked
  /\ AuthorizationKept /\ SingleUse

\* A step that stores no token: what it drops is recorded as lost, and the
\* row is marked only for a reason.
LEMMA DropKeeps ==
  ASSUME TokenInv, UNCHANGED <<kind, server, authorized>>,
         Records', proc' \in [Process -> Local],
         row' \in [token : Nat, expiry : Nat, last : Nat, reauth : BOOLEAN],
         row'.token = row.token,
         row'.reauth => row.reauth \/ row.token \notin server.live
                                   \/ row.token \in history.refused,
         history'.presented = history.presented, history'.again = history.again,
         history.lost \subseteq history'.lost, history.refused \subseteq history'.refused,
         \A q \in Process :
           \/ proc'[q] = proc[q]
           \/ /\ proc'[q].cur <= Len(server.grants) /\ proc'[q].new <= Len(server.grants)
              /\ proc'[q].pc \notin {"request", "save"}
              /\ proc'[q].pc = "answered" =>
                   /\ proc[q].pc \in {"request", "answered"} /\ proc'[q].cur = proc[q].cur
                   /\ proc'[q].outcome \in {"transient", "protocol"}
                   /\ proc'[q].outcome = "protocol" => proc[q].cur \in history'.refused,
         \A q \in Worker : Answered(q) => proc'[q] = proc[q] \/ proc[q].cur \in history'.lost,
         Bluesky => \A q \in Process : Refreshing(q)' => lock' = lock
  PROVE  TokenInv'
<1>1. Worker \subseteq Process /\ Callback \subseteq Process
  BY Zenon DEF Process
<1>2. \A q \in Process :
        /\ Pending(q)' => Pending(q) /\ proc'[q] = proc[q]
        /\ Refreshing(q)' => Refreshing(q) /\ proc'[q].cur = proc[q].cur
  BY Zenon DEF Pending, Refreshing, Answered
<1>3. \A q \in Worker : /\ Answered(q)' => Answered(q) /\ proc'[q] = proc[q]
                        /\ Answered(q) => \/ Answered(q)' /\ proc'[q] = proc[q]
                                          \/ proc[q].cur \in history'.lost
  BY <1>1, Zenon DEF Answered
<1>4. (ServerOK /\ RowOK /\ ProcOK)'
  BY Zenon DEF TokenInv, ServerOK, RowOK, ProcOK, Issued
<1>5. Fresh'
  BY <1>2 DEF TokenInv, Fresh
<1>6. Control'
  BY <1>2 DEF TokenInv, Control
<1>7. Usable'
  BY <1>1, <1>3 DEF TokenInv, Usable
<1>8. Locked'
  <2>1. \A q \in Worker : Answered(q) => Refreshing(q)
    BY Zenon DEF Answered, Refreshing
  <2> QED BY <1>1, <1>2, <1>3, <2>1 DEF TokenInv, Locked, Bluesky
<1>9. (AuthorizationKept /\ SingleUse)'
  BY Zenon DEF TokenInv, AuthorizationKept, SingleUse, Bluesky
<1> QED BY <1>4, <1>5, <1>6, <1>7, <1>8, <1>9, Zenon DEF TokenInv

\* A pending token is written.
LEMMA StoreKeeps ==
  ASSUME TokenInv, NEW p \in Process, Pending(p),
         UNCHANGED <<kind, now, server, history>>,
         row' = SavedRow(proc[p].new, proc[p].at),
         Bluesky => authorized' = server.grants[proc[p].new],
         Bluesky => \A q \in Process : Refreshing(q) => q = p,
         proc' \in [Process -> Local],
         proc'[p].pc \notin {"request", "answered", "save"},
         proc'[p].cur = 0, proc'[p].new = 0,
         \A q \in Process : q # p => proc'[q] = proc[q]
  PROVE  TokenInv'
<1>1. Worker \subseteq Process /\ Callback \subseteq Process
  BY Zenon DEF Process
<1>2. \A q \in Process :
        /\ Pending(q)' => q # p /\ Pending(q) /\ proc'[q] = proc[q]
        /\ Refreshing(q)' => q # p /\ Refreshing(q) /\ proc'[q] = proc[q]
  BY Zenon DEF Pending, Refreshing, Answered
<1>3. /\ proc[p].new # 0 /\ proc[p].new \in server.live \cup history.lost
      /\ proc[p].new \notin history.presented
      /\ \A q \in Process : q # p /\ Pending(q) => proc[q].new # proc[p].new
  BY Zenon DEF TokenInv, Fresh
<1>4. row'.token = proc[p].new /\ row'.reauth = FALSE /\ RowOK'
  BY TokenBounds DEF TokenInv, RowOK, ProcOK, Local, SavedRow
<1>5. (Records /\ ServerOK)'
  BY Zenon DEF TokenInv, Records, ServerOK, Issued
<1>6. ProcOK'
  BY DEF TokenInv, ProcOK, ServerOK
<1>7. Fresh'
  BY <1>2, <1>3, <1>4 DEF TokenInv, Fresh
<1>8. Control'
  BY <1>2 DEF TokenInv, Control
<1>9. Usable'
  BY <1>3, <1>4, Zenon DEF Usable
<1>10. Locked'
  <2>1. Bluesky => \A q \in Process : ~Refreshing(q)'
    BY <1>2, Zenon
  <2>2. \A q \in Worker : Answered(q)' => Refreshing(q)'
    BY Zenon DEF Answered, Refreshing
  <2> QED BY <1>1, <1>3, <1>4, <2>1, <2>2, Zenon DEF Locked, Bluesky
<1>11. (AuthorizationKept /\ SingleUse)'
  BY <1>4, Zenon DEF TokenInv, AuthorizationKept, SingleUse, Bluesky
<1> QED BY <1>4, <1>5, <1>6, <1>7, <1>8, <1>9, <1>10, <1>11, Zenon DEF TokenInv

\* A worker reads the row and makes a request.
LEMMA StartKeeps ==
  ASSUME TokenInv, NEW p \in Worker, proc[p].pc = "idle", row.token # 0,
         proc' = [proc EXCEPT ![p] = [Idle EXCEPT !.pc = "request", !.cur = row.token]],
         UNCHANGED <<kind, now, server, row, authorized, history>>,
         Bluesky => lock = None /\ lock' = p
  PROVE  TokenInv'
<1>1. Worker \subseteq Process /\ Callback \subseteq Process /\ p \in Process
      /\ None \notin Process
  BY ProcessAssumption, Zenon DEF Process
<1>2. /\ proc'[p] \in Local /\ proc'[p].pc = "request" /\ proc'[p].cur = row.token
      /\ proc'[p].new = 0 /\ proc'[p].outcome = "none"
      /\ \A q \in Process : q # p => proc'[q] = proc[q]
      /\ proc' \in [Process -> Local]
  BY <1>1, Zenon DEF TokenInv, ProcOK, RowOK, Local, Idle
<1>3. \A q \in Process : /\ Pending(q)' <=> Pending(q)
                         /\ Pending(q) => q # p /\ proc'[q] = proc[q]
                         /\ Refreshing(q)' => q = p \/ Refreshing(q)
  BY <1>1, <1>2, ProcessAssumption DEF Pending, Refreshing, Answered
<1>4. \A q \in Worker : /\ Answered(q)' <=> Answered(q)
                        /\ Answered(q) => q # p /\ proc'[q] = proc[q]
  BY <1>1, <1>2, Zenon DEF Answered
<1>5. Bluesky => \A q \in Process : ~Refreshing(q)
  BY <1>1, Zenon DEF TokenInv, Locked
<1>6. (Records /\ ServerOK /\ RowOK)'
  BY Zenon DEF TokenInv, Records, ServerOK, RowOK, Issued
<1>7. ProcOK'
  BY <1>2 DEF TokenInv, ProcOK, ServerOK, RowOK
<1>8. Fresh'
  BY <1>2, <1>3 DEF TokenInv, Fresh
<1>9. Control'
  BY <1>1, <1>2, <1>3 DEF TokenInv, Control
<1>10. Usable'
  BY <1>1, <1>2, <1>4, Zenon DEF TokenInv, Usable
<1>11. Locked'
  <2>1. Bluesky => \A q \in Worker : ~Answered(q)
    BY <1>1, <1>5, Zenon DEF Answered, Refreshing
  <2> QED BY <1>2, <1>3, <1>4, <1>5, <2>1, Zenon DEF TokenInv, Locked, Bluesky
<1>12. (AuthorizationKept /\ SingleUse)'
  BY Zenon DEF TokenInv, AuthorizationKept, SingleUse, Bluesky
<1> QED BY <1>6, <1>7, <1>8, <1>9, <1>10, <1>11, <1>12, Zenon DEF TokenInv

\* What a step does to the local variables of its process.
LEMMA Put ==
  ASSUME NEW p \in Process, proc \in [Process -> Local], NEW r \in Local,
         proc' = [proc EXCEPT ![p] = r]
  PROVE  /\ proc' \in [Process -> Local] /\ proc'[p] = r
         /\ \A q \in Process : q # p => proc'[q] = proc[q]
BY Zenon

LEMMA AnswerMoves ==
  ASSUME NEW p \in Process, proc \in [Process -> Local], now \in Nat,
         Len(server.grants) \in Nat, Answer(p)
  PROVE  LET ok == proc[p].cur \in server.live IN
         /\ proc'[p] \in Local /\ proc'[p].pc = "answered" /\ proc'[p].cur = proc[p].cur
         /\ proc'[p].new = (IF ok THEN Len(server.grants) + 1 ELSE 0)
         /\ proc'[p].outcome = (IF ok THEN "ok" ELSE "invalid_grant")
         /\ \A q \in Process : q # p => proc'[q] = proc[q]
         /\ proc' \in [Process -> Local]
<1> DEFINE ok == proc[p].cur \in server.live
           n == IF ok THEN Len(server.grants) + 1 ELSE 0
           o == IF ok THEN "ok" ELSE "invalid_grant"
           r == [proc[p] EXCEPT !.pc = "answered", !.new = n, !.at = now, !.outcome = o]
<1>1. proc' = [proc EXCEPT ![p] = r]
  BY Zenon DEF Answer, Issue
<1>2. n \in Nat /\ o \in {"ok", "invalid_grant"} /\ proc[p] \in Local
  OBVIOUS
<1> HIDE DEF n, o
<1>3. r \in Local /\ r.pc = "answered" /\ r.cur = proc[p].cur /\ r.new = n /\ r.outcome = o
  BY <1>2, Zenon DEF Local
<1> HIDE DEF r
<1>4. /\ proc' \in [Process -> Local] /\ proc'[p] = r
      /\ \A q \in Process : q # p => proc'[q] = proc[q]
  BY <1>1, <1>3, Put, Zenon
<1> QED BY <1>3, <1>4, Zenon DEF n, o

\* The server answers a request: it presents no pending token, and a
\* successor is a token that nobody had before.
LEMMA AnswerKeeps ==
  ASSUME TokenInv, NEW p \in Worker, Answer(p)
  PROVE  TokenInv'
<1> DEFINE t == proc[p].cur
           s == Len(server.grants) + 1
           ok == t \in server.live
<1>1. Worker \subseteq Process /\ Callback \subseteq Process /\ p \in Process
      /\ Worker \cap Callback = {}
  BY ProcessAssumption, Zenon DEF Process
<1>2. proc[p].pc = "request" /\ UNCHANGED <<kind, now, row, lock, authorized>>
  BY Zenon DEF Answer
<1>3. /\ t \in Nat /\ t # 0 /\ t <= Len(server.grants) /\ t \in Issued
      /\ Len(server.grants) \in Nat /\ s \in Nat /\ s \notin Issued
      /\ server.grants \in Seq(Nat) /\ server.grants[t] \in Nat
  <2>1. Refreshing(p)
    BY <1>2, Zenon DEF Refreshing
  <2> QED BY <1>1, <2>1 DEF TokenInv, ProcOK, ServerOK, Control, Issued, Local
<1>4. /\ server' = IF ok THEN [grants |-> Append(server.grants, server.grants[t]),
                               live |-> (server.live \ {t}) \cup {s}]
                   ELSE server
  BY Zenon DEF Answer, Issue
<1>5. /\ history' = [history EXCEPT !.presented = @ \cup {t},
                                    !.again = @ \cup ({t} \cap history.presented)]
  BY Zenon DEF Answer
<1>6. /\ history'.presented = history.presented \cup {t}
      /\ history'.again = history.again \cup ({t} \cap history.presented)
      /\ history'.lost = history.lost /\ history'.refused = history.refused
      /\ Records'
  <2>1. now \in Nat /\ now' \in Nat
    BY <1>2, Zenon DEF TokenInv, Records
  <2>2. server' = [grants |-> server'.grants, live |-> server'.live]
    BY <1>4, Zenon DEF TokenInv, Records
  <2> QED BY <1>5, <2>1, <2>2, Zenon DEF TokenInv, Records
<1>7. /\ proc'[p] \in Local /\ proc'[p].pc = "answered" /\ proc'[p].cur = t
      /\ proc'[p].new = (IF ok THEN s ELSE 0)
      /\ proc'[p].outcome = (IF ok THEN "ok" ELSE "invalid_grant")
      /\ \A q \in Process : q # p => proc'[q] = proc[q]
      /\ proc' \in [Process -> Local]
  <2>1. now \in Nat /\ proc \in [Process -> Local] /\ Len(server.grants) \in Nat
    BY <1>3, Zenon DEF TokenInv, Records, ProcOK
  <2> QED BY <1>1, <2>1, AnswerMoves, Zenon
<1>8. /\ server'.grants \in Seq(Nat) /\ Len(server.grants) <= Len(server'.grants)
      /\ Len(server'.grants) \in Nat
      /\ \A i \in Issued : server'.grants[i] = server.grants[i]
      /\ ok => Len(server'.grants) = s /\ server'.grants[s] = server.grants[t]
      /\ ok => server'.live = (server.live \ {t}) \cup {s}
      /\ ~ok => server' = server
  <2>1. CASE ok
    BY <1>3, <1>4, <2>1 DEF Issued
  <2>2. CASE ~ok
    BY <1>3, <1>4, <2>2
  <2> QED BY <2>1, <2>2, Zenon
<1> HIDE DEF ok, s, t
<1>9. Issued \subseteq Issued' /\ (ok => s \in Issued') /\ (~ok => Issued' = Issued)
  <2>1. Len(server'.grants) \in Nat /\ Len(server.grants) <= Len(server'.grants)
    BY <1>8, Zenon
  <2>2. ok => Len(server'.grants) = Len(server.grants) + 1
    BY <1>8, Zenon DEF s
  <2>3. ~ok => server' = server
    BY <1>8, Zenon
  <2> QED BY <1>3, <2>1, <2>2, <2>3 DEF Issued, s
<1>10. ServerOK'
  BY <1>3, <1>6, <1>8, <1>9, Zenon DEF TokenInv, ServerOK
<1>11. RowOK'
  BY <1>2, <1>3, <1>8 DEF TokenInv, RowOK
<1>12. ProcOK'
  <2>1. \A q \in Process : /\ proc[q].cur \in Nat /\ proc[q].cur <= Len(server.grants)
                           /\ proc[q].new \in Nat /\ proc[q].new <= Len(server.grants)
    BY Zenon DEF TokenInv, ProcOK, Local
  <2>2. Len(server.grants) \in Nat /\ Len(server'.grants) \in Nat
        /\ Len(server.grants) <= Len(server'.grants)
        /\ t \in Nat /\ t <= Len(server.grants) /\ (ok => Len(server'.grants) = s)
    BY <1>3, <1>8, Zenon
  <2>3. \A q \in Process : /\ proc'[q].cur <= Len(server'.grants)
                           /\ proc'[q].new <= Len(server'.grants)
    <3> TAKE q \in Process
    <3>1. CASE q = p
      BY <1>7, <2>2, <3>1 DEF s
    <3>2. CASE q # p
      BY <1>7, <2>1, <2>2, <3>2
    <3> QED BY <3>1, <3>2, Zenon
  <2> QED BY <1>7, <2>3, Zenon DEF ProcOK
<1>13. /\ ~Pending(p) /\ Refreshing(p) /\ (Pending(p)' <=> ok)
       /\ \A q \in Process : q # p => (Pending(q)' <=> Pending(q))
       /\ \A q \in Process : Refreshing(q)' => Refreshing(q) /\ proc'[q].cur = proc[q].cur
       /\ \A q \in Worker : q # p => (Answered(q)' <=> Answered(q))
       /\ ~Answered(p) /\ (Answered(p)' <=> ok)
  BY <1>1, <1>2, <1>7, Zenon DEF Pending, Refreshing, Answered, t
<1>14. \A q \in Process : /\ proc[q].cur # s /\ proc[q].new # s
                          /\ proc[q].new # 0 => proc[q].new \in Issued
                          /\ proc[q].cur # 0 => proc[q].cur \in Issued
  BY <1>3 DEF TokenInv, ProcOK, Local, Issued, s
<1>15. row.token # s /\ (row.token # 0 => row.token \in Issued)
  BY <1>3 DEF TokenInv, RowOK, Issued, s
<1>16. \A i \in Issued : i # t => (i \in server'.live <=> i \in server.live)
  BY <1>3, <1>8, Zenon
<1>17. Fresh'
  <2> SUFFICES ASSUME NEW q \in Process, Pending(q)'
               PROVE  /\ proc'[q].new # 0 /\ proc'[q].new \in server'.live \cup history'.lost
                      /\ proc'[q].new \notin history'.presented /\ proc'[q].new # row'.token
                      /\ \A r \in Process : r # q /\ Pending(r)' => proc'[r].new # proc'[q].new
                      /\ \A r \in Process : Refreshing(r)' => proc'[r].cur # proc'[q].new
    BY Zenon DEF Fresh
  <2>1. CASE q = p
    <3>1. proc'[p].new = s /\ s # 0 /\ s \in server'.live
      BY <1>3, <1>7, <1>8, <1>13, <2>1 DEF s
    <3>2. s \notin history'.presented
      BY <1>3, <1>6, Zenon DEF TokenInv, ServerOK
    <3> QED BY <1>2, <1>7, <1>13, <1>14, <1>15, <2>1, <3>1, <3>2
  <2>2. CASE q # p
    <3>1. Pending(q) /\ proc'[q] = proc[q]
      BY <1>7, <1>13, <2>2, Zenon
    <3>2. /\ proc[q].new # 0 /\ proc[q].new \in server.live \cup history.lost
          /\ proc[q].new \notin history.presented /\ proc[q].new # row.token
          /\ \A r \in Process : r # q /\ Pending(r) => proc[r].new # proc[q].new
          /\ \A r \in Process : Refreshing(r) => proc[r].cur # proc[q].new
      BY <3>1, Zenon DEF TokenInv, Fresh
    <3>3. proc[q].new # t /\ proc[q].new \in Issued /\ proc[q].new # s
      BY <1>1, <1>13, <1>14, <3>2, Zenon DEF t
    <3> QED BY <1>2, <1>6, <1>7, <1>13, <1>14, <1>16, <3>1, <3>2, <3>3
  <2> QED BY <2>1, <2>2, Zenon
<1>18. Control'
  <2> SUFFICES ASSUME NEW q \in Process
               PROVE  /\ Refreshing(q)' => proc'[q].cur # 0
                      /\ proc'[q].pc \in {"request", "answered"} => q \in Worker
                      /\ proc'[q].pc = "request" => proc'[q].outcome = "none"
                      /\ proc'[q].pc = "answered" => proc'[q].outcome # "none"
                      /\ proc'[q].pc = "save" =>
                           q \in Callback /\ server'.grants[proc'[q].new] = proc'[q].new
                      /\ proc'[q].pc = "answered" /\ proc'[q].outcome = "invalid_grant" =>
                           proc'[q].cur \notin server'.live
                      /\ proc'[q].pc = "answered" /\ proc'[q].outcome = "protocol" =>
                           proc'[q].cur \in history'.refused
    BY Zenon DEF Control
  <2>1. CASE q = p
    <3>1. ~ok => t \notin server'.live
      BY <1>8, Zenon DEF ok
    <3> QED BY <1>3, <1>7, <2>1, <3>1, Zenon
  <2>2. CASE q # p
    <3>1. proc'[q] = proc[q]
      BY <1>7, <2>2, Zenon
    <3>2. proc[q].pc = "save" => proc[q].new \in Issued
      BY <1>14, <3>1, Zenon DEF TokenInv, Fresh, Pending, Control
    <3>3. proc[q].cur \notin server.live => proc[q].cur \notin server'.live
      BY <1>8, <1>14, Zenon
    <3> QED BY <1>6, <1>8, <1>13, <3>1, <3>2, <3>3 DEF TokenInv, Control
  <2> QED BY <2>1, <2>2, Zenon
<1>19. Usable'
  BY <1>1, <1>2, <1>6, <1>7, <1>8, <1>13, <1>15, <1>16 DEF TokenInv, Usable, t
<1>20. Bluesky => /\ t = row.token /\ lock = p
                  /\ \A q \in Process : Refreshing(q) => q = p
                  /\ \A q \in Worker : ~Answered(q)
  BY <1>1, <1>13 DEF TokenInv, Locked, t, Answered, Refreshing
<1>21. Locked'
  <2>1. ASSUME Bluesky
        PROVE  \A q \in Worker :
                 Answered(q)' => server'.grants[proc'[q].new] = server'.grants[proc'[q].cur]
    <3>1. \A q \in Worker : Answered(q)' => q = p /\ ok
      BY <1>13, <1>20, <2>1, Zenon
    <3>2. ok => server'.grants[s] = server'.grants[t] /\ proc'[p].new = s /\ proc'[p].cur = t
      BY <1>3, <1>7, <1>8, Zenon
    <3> QED BY <3>1, <3>2, Zenon
  <2>2. ASSUME Bluesky, ~ok
        PROVE  row.token \in history.lost
    BY <1>3, <1>20, <2>2, Zenon DEF TokenInv, Usable, ok
  <2> QED BY <1>1, <1>2, <1>6, <1>7, <1>13, <1>20, <2>1, <2>2, Zenon DEF Locked, Bluesky, t
<1>22. AuthorizationKept'
  BY <1>2, <1>6, <1>8, <1>15, Zenon DEF TokenInv, AuthorizationKept, Bluesky
<1>23. SingleUse'
  BY <1>2, <1>6, <1>20 DEF TokenInv, Locked, SingleUse, Bluesky
<1> QED BY <1>6, <1>10, <1>11, <1>12, <1>17, <1>18, <1>19, <1>21, <1>22, <1>23, Zenon DEF TokenInv

\* The server issues the first token of a new grant.
LEMMA ExchangeKeeps ==
  ASSUME TokenInv, NEW k \in Callback, Exchange(k)
  PROVE  TokenInv'
<1> DEFINE s == Len(server.grants) + 1
           r == [proc[k] EXCEPT !.pc = "save", !.new = s, !.at = now]
<1>1. Worker \subseteq Process /\ Callback \subseteq Process /\ k \in Process
      /\ Worker \cap Callback = {}
  BY ProcessAssumption, Zenon DEF Process
<1>2. /\ proc[k].pc = "idle" /\ UNCHANGED <<kind, now, row, lock, authorized, history>>
      /\ server' = [grants |-> Append(server.grants, s), live |-> server.live \cup {s}]
      /\ proc' = [proc EXCEPT ![k] = r]
  BY Zenon DEF Exchange, Issue
<1>3. /\ server.grants \in Seq(Nat) /\ Len(server.grants) \in Nat /\ s \in Nat /\ s \notin Issued
      /\ s # 0 /\ now \in Nat /\ proc \in [Process -> Local] /\ proc[k] \in Local
  BY <1>1 DEF TokenInv, ServerOK, ProcOK, Records, Issued
<1>4. /\ server'.grants \in Seq(Nat) /\ Len(server'.grants) = s
      /\ \A i \in Issued : server'.grants[i] = server.grants[i]
      /\ server'.grants[s] = s /\ server'.live = server.live \cup {s}
      /\ server' = [grants |-> server'.grants, live |-> server'.live]
  BY <1>2, <1>3 DEF Issued
<1>5. Issued \subseteq Issued' /\ s \in Issued'
  BY <1>3, <1>4 DEF Issued
<1> HIDE DEF s
<1>6. /\ r \in Local /\ r.pc = "save" /\ r.cur = proc[k].cur /\ r.new = s
  BY <1>3, Zenon DEF Local
<1> HIDE DEF r
<1>7. /\ proc' \in [Process -> Local] /\ proc'[k] = r
      /\ \A q \in Process : q # k => proc'[q] = proc[q]
  BY <1>1, <1>2, <1>3, <1>6, Put, Zenon
<1>8. /\ ~Pending(k)
      /\ \A q \in Process : q # k => (Pending(q)' <=> Pending(q))
      /\ \A q \in Process : Refreshing(q)' <=> Refreshing(q)
      /\ \A q \in Process : Refreshing(q) => q # k
      /\ \A q \in Worker : q # k /\ (Answered(q)' <=> Answered(q))
  BY <1>1, <1>2, <1>6, <1>7 DEF Pending, Refreshing, Answered
<1>9. \A q \in Process : /\ proc[q].cur \in Nat /\ proc[q].cur <= Len(server.grants)
                         /\ proc[q].new \in Nat /\ proc[q].new <= Len(server.grants)
  BY Zenon DEF TokenInv, ProcOK, Local
<1>10. \A q \in Process : /\ proc[q].cur # s /\ proc[q].new # s
                          /\ proc[q].new # 0 => proc[q].new \in Issued
                          /\ proc[q].cur # 0 => proc[q].cur \in Issued
  BY <1>3, <1>9 DEF Issued, s
<1>11. row.token # s /\ (row.token # 0 => row.token \in Issued)
  BY <1>3 DEF TokenInv, RowOK, Issued, s
<1>12. (Records /\ ServerOK)'
  BY <1>2, <1>4, <1>5, Zenon DEF TokenInv, Records, ServerOK
<1>13. RowOK'
  BY <1>2, <1>3, <1>4 DEF TokenInv, RowOK, s
<1>14. ProcOK'
  <2>1. \A q \in Process : proc'[q].cur <= s /\ proc'[q].new <= s
    <3> TAKE q \in Process
    <3>1. CASE q = k
      BY <1>1, <1>3, <1>6, <1>7, <1>9, <3>1 DEF s
    <3>2. CASE q # k
      BY <1>3, <1>7, <1>9, <3>2 DEF s
    <3> QED BY <3>1, <3>2, Zenon
  <2> QED BY <1>4, <1>7, <2>1, Zenon DEF ProcOK
<1>15. Fresh'
  <2> SUFFICES ASSUME NEW q \in Process, Pending(q)'
               PROVE  /\ proc'[q].new # 0 /\ proc'[q].new \in server'.live \cup history'.lost
                      /\ proc'[q].new \notin history'.presented /\ proc'[q].new # row'.token
                      /\ \A i \in Process : i # q /\ Pending(i)' => proc'[i].new # proc'[q].new
                      /\ \A i \in Process : Refreshing(i)' => proc'[i].cur # proc'[q].new
    BY Zenon DEF Fresh
  <2>1. CASE q = k
    <3>1. s \notin history'.presented
      BY <1>2, <1>3, Zenon DEF TokenInv, ServerOK
    <3> QED BY <1>2, <1>3, <1>4, <1>6, <1>7, <1>8, <1>10, <1>11, <2>1, <3>1
  <2>2. CASE q # k
    <3>1. Pending(q) /\ proc'[q] = proc[q]
      BY <1>7, <1>8, <2>2, Zenon
    <3>2. /\ proc[q].new # 0 /\ proc[q].new \in server.live \cup history.lost
          /\ proc[q].new \notin history.presented /\ proc[q].new # row.token
          /\ \A i \in Process : i # q /\ Pending(i) => proc[i].new # proc[q].new
          /\ \A i \in Process : Refreshing(i) => proc[i].cur # proc[q].new
      BY <3>1, Zenon DEF TokenInv, Fresh
    <3> QED BY <1>2, <1>4, <1>6, <1>7, <1>8, <1>10, <3>1, <3>2
  <2> QED BY <2>1, <2>2, Zenon
<1>16. Control'
  <2> SUFFICES ASSUME NEW q \in Process
               PROVE  /\ Refreshing(q)' => proc'[q].cur # 0
                      /\ proc'[q].pc \in {"request", "answered"} => q \in Worker
                      /\ proc'[q].pc = "request" => proc'[q].outcome = "none"
                      /\ proc'[q].pc = "answered" => proc'[q].outcome # "none"
                      /\ proc'[q].pc = "save" =>
                           q \in Callback /\ server'.grants[proc'[q].new] = proc'[q].new
                      /\ proc'[q].pc = "answered" /\ proc'[q].outcome = "invalid_grant" =>
                           proc'[q].cur \notin server'.live
                      /\ proc'[q].pc = "answered" /\ proc'[q].outcome = "protocol" =>
                           proc'[q].cur \in history'.refused
    BY Zenon DEF Control
  <2>1. CASE q = k
    BY <1>1, <1>4, <1>6, <1>7, <1>8, <2>1
  <2>2. CASE q # k
    <3>1. proc'[q] = proc[q]
      BY <1>7, <2>2, Zenon
    <3>2. proc[q].pc = "save" => proc[q].new \in Issued
      BY <1>10, <3>1, Zenon DEF TokenInv, Fresh, Pending, Control
    <3>3. proc[q].cur \notin server.live => proc[q].cur \notin server'.live
      BY <1>4, <1>10, Zenon
    <3>4. history' = history /\ \A i \in Issued : server'.grants[i] = server.grants[i]
      BY <1>2, <1>4, Zenon
    <3> QED BY <1>8, <3>1, <3>2, <3>3, <3>4 DEF TokenInv, Control
  <2> QED BY <2>1, <2>2, Zenon
<1>17. Usable'
  BY <1>1, <1>2, <1>4, <1>7, <1>8 DEF TokenInv, Usable
<1>18. Locked'
  <2>1. \A q \in Worker : Answered(q) =>
          Refreshing(q) /\ proc'[q] = proc[q] /\ proc[q].new \in Issued /\ proc[q].cur \in Issued
    BY <1>1, <1>7, <1>8, <1>10 DEF TokenInv, Fresh, Control, Pending, Refreshing, Answered
  <2>2. /\ UNCHANGED <<kind, row, lock, history>>
        /\ \A i \in Issued : server'.grants[i] = server.grants[i]
    BY <1>2, <1>4, Zenon
  <2>3. \A q \in Process : Refreshing(q)' => Refreshing(q) /\ proc'[q] = proc[q]
    BY <1>7, <1>8, Zenon
  <2> QED BY <1>1, <1>8, <2>1, <2>2, <2>3 DEF TokenInv, Locked, Bluesky
<1>19. (AuthorizationKept /\ SingleUse)'
  BY <1>2, <1>4, <1>11, Zenon DEF TokenInv, AuthorizationKept, SingleUse, Bluesky
<1> QED BY <1>12, <1>13, <1>14, <1>15, <1>16, <1>17, <1>18, <1>19, Zenon DEF TokenInv

\* A revocation kills tokens and records them as lost.
LEMMA RevokeKeeps ==
  ASSUME TokenInv, NEW g, Revoke(g)
  PROVE  TokenInv'
<1>1. /\ server' = [server EXCEPT !.live = {t \in @ : server.grants[t] # g}]
      /\ history' = [history EXCEPT
           !.lost = @ \cup {t \in server.live : server.grants[t] = g}]
      /\ UNCHANGED <<kind, now, row, lock, proc, authorized>>
  BY Zenon DEF Revoke
<1>2. /\ server'.grants = server.grants /\ Records'
      /\ server'.live = {t \in server.live : server.grants[t] # g}
  BY <1>1, Zenon DEF TokenInv, Records
<1>3. /\ history'.lost = history.lost \cup {t \in server.live : server.grants[t] = g}
      /\ history'.presented = history.presented /\ history'.again = history.again
      /\ history'.refused = history.refused
  BY <1>1, Zenon DEF TokenInv, Records
<1>4. server'.live \subseteq server.live /\ history.lost \subseteq history'.lost
      /\ server.live \subseteq server'.live \cup history'.lost
  BY <1>2, <1>3, Zenon
<1>5. \A p \in Process : (Pending(p)' <=> Pending(p)) /\ (Refreshing(p)' <=> Refreshing(p))
                         /\ (Answered(p)' <=> Answered(p))
  BY <1>1, Zenon DEF Pending, Refreshing, Answered
<1>6. (ServerOK /\ RowOK /\ ProcOK)'
  BY <1>1, <1>2, <1>3, <1>4 DEF TokenInv, ServerOK, RowOK, ProcOK, Issued
<1>7. Fresh'
  BY <1>1, <1>3, <1>4, <1>5 DEF TokenInv, Fresh
<1>8. Control'
  BY <1>1, <1>2, <1>3, <1>4, <1>5 DEF TokenInv, Control
<1>9. Usable'
  BY <1>1, <1>4, <1>5, Zenon DEF TokenInv, Usable, Process
<1>10. Locked'
  BY <1>1, <1>2, <1>3, <1>4, <1>5 DEF TokenInv, Locked, Bluesky, Process
<1>11. (AuthorizationKept /\ SingleUse)'
  BY <1>1, <1>2, <1>3, <1>4, Zenon DEF TokenInv, AuthorizationKept, SingleUse, Bluesky
<1> QED BY <1>2, <1>6, <1>7, <1>8, <1>9, <1>10, <1>11 DEF TokenInv

\* The records that actions put in the place of a process's variables.
LEMMA Rests ==
  /\ Idle \in Local /\ Idle.pc = "idle" /\ Idle.cur = 0 /\ Idle.new = 0
  /\ Reporting \in Local /\ Reporting.pc = "report" /\ Reporting.cur = 0 /\ Reporting.new = 0
  /\ Done \in Local /\ Done.pc = "done" /\ Done.cur = 0 /\ Done.new = 0
BY Zenon DEF Idle, Reporting, Done, Local

\* A step that touches only a process that has nothing in flight.
LEMMA QuietKeeps ==
  ASSUME TokenInv, UNCHANGED <<kind, server, row, lock, authorized, history>>, now' \in Nat,
         NEW p \in Process, NEW r \in Local, proc' = [proc EXCEPT ![p] = r],
         ~Answered(p), r.pc \notin {"request", "answered", "save"},
         r.cur <= Len(server.grants), r.new <= Len(server.grants)
  PROVE  TokenInv'
<1>1. /\ proc' \in [Process -> Local] /\ proc'[p] = r
      /\ \A q \in Process : q # p => proc'[q] = proc[q]
  BY Put, Zenon DEF TokenInv, ProcOK
<1>2. /\ Records' /\ row' = row /\ history' = history
      /\ row' \in [token : Nat, expiry : Nat, last : Nat, reauth : BOOLEAN]
  BY Zenon DEF TokenInv, Records, RowOK
<1>3. \A q \in Worker : Answered(q) => proc'[q] = proc[q] \/ proc[q].cur \in history'.lost
  BY <1>1, Zenon DEF Process
<1> QED BY <1>1, <1>2, <1>3, DropKeeps

LEMMA BeginKeeps ==
  ASSUME TokenInv, NEW p \in Worker, Begin(p)
  PROVE  TokenInv'
<1>1. p \in Process /\ proc[p].pc = "idle" /\ lock = None
      /\ UNCHANGED <<kind, now, server, row, authorized, history>>
  BY Zenon DEF Begin, Process
<1>2. CASE Due(p)
  <2>1. /\ proc' = [proc EXCEPT ![p] = [Idle EXCEPT !.pc = "request", !.cur = row.token]]
        /\ lock' = p /\ row.token # 0
    BY <1>2, Zenon DEF Begin, Due
  <2> QED BY <1>1, <2>1, StartKeeps, Zenon
<1>3. CASE ~Due(p)
  <2>1. proc' = [proc EXCEPT ![p] = Reporting] /\ lock' = lock
    BY <1>3, Zenon DEF Begin
  <2>2. now' \in Nat /\ Len(server.grants) \in Nat /\ ~Answered(p)
    BY <1>1 DEF TokenInv, Records, ServerOK, Answered
  <2>3. /\ Reporting \in Local /\ Reporting.pc \notin {"request", "answered", "save"}
        /\ Reporting.cur <= Len(server.grants) /\ Reporting.new <= Len(server.grants)
    BY <2>2, Rests
  <2> QED BY <1>1, <2>1, <2>2, <2>3, QuietKeeps, Zenon
<1> QED BY <1>2, <1>3, Zenon

LEMMA MastodonBeginKeeps ==
  ASSUME TokenInv, NEW p \in Worker, MastodonBegin(p)
  PROVE  TokenInv'
BY StartKeeps, Zenon DEF MastodonBegin, Due

LEMMA UnansweredKeeps ==
  ASSUME TokenInv, NEW p \in Worker, Unanswered(p)
  PROVE  TokenInv'
<1>1. /\ proc[p].pc \in {"request", "answered"}
      /\ UNCHANGED <<kind, now, server, row, lock, authorized>> /\ p \in Process
  BY Zenon DEF Unanswered, Process
<1>2. PICK o \in {"transient", "protocol"} :
        /\ proc' = [proc EXCEPT ![p].pc = "answered", ![p].outcome = o, ![p].new = 0]
        /\ history' = [history EXCEPT
             !.lost = IF proc[p].outcome = "ok" THEN @ \cup {proc[p].cur} ELSE @,
             !.refused = IF o = "protocol" THEN @ \cup {proc[p].cur} ELSE @]
  BY Zenon DEF Unanswered
<1> DEFINE r == [proc[p] EXCEPT !.pc = "answered", !.outcome = o, !.new = 0]
<1>3. proc \in [Process -> Local] /\ proc[p] \in Local /\ proc' = [proc EXCEPT ![p] = r]
      /\ proc[p].cur <= Len(server.grants) /\ Len(server.grants) \in Nat
  <2>1. proc' = [proc EXCEPT ![p] = r]
    BY <1>2, Zenon
  <2> QED BY <1>1, <2>1 DEF TokenInv, ProcOK, ServerOK
<1>4. r \in Local /\ r.pc = "answered" /\ r.cur = proc[p].cur /\ r.outcome = o /\ r.new = 0
  BY <1>3, Zenon DEF Local
<1> HIDE DEF r
<1>5. /\ proc' \in [Process -> Local] /\ proc'[p] = r
      /\ \A q \in Process : q # p => proc'[q] = proc[q]
  BY <1>1, <1>3, <1>4, Put, Zenon
<1>6. history = [presented |-> history.presented, again |-> history.again,
                 lost |-> history.lost, refused |-> history.refused]
  BY Zenon DEF TokenInv, Records
<1>7. /\ history'.lost = IF proc[p].outcome = "ok" THEN history.lost \cup {proc[p].cur}
                         ELSE history.lost
      /\ history'.refused = IF o = "protocol" THEN history.refused \cup {proc[p].cur}
                            ELSE history.refused
      /\ history'.presented = history.presented /\ history'.again = history.again
      /\ history' = [presented |-> history'.presented, again |-> history'.again,
                     lost |-> history'.lost, refused |-> history'.refused]
  BY <1>2, <1>6, Zenon
<1>8. /\ Records' /\ row' = row
      /\ row' \in [token : Nat, expiry : Nat, last : Nat, reauth : BOOLEAN]
  BY <1>1, <1>7, Zenon DEF TokenInv, Records, RowOK
<1>9. \A q \in Worker : Answered(q) => proc'[q] = proc[q] \/ proc[q].cur \in history'.lost
  BY <1>5, <1>7, Zenon DEF Answered, Process
<1>10. history.lost \subseteq history'.lost /\ history.refused \subseteq history'.refused
       /\ (o = "protocol" => proc[p].cur \in history'.refused)
  BY <1>7, Zenon
<1>11. \A q \in Process :
         \/ proc'[q] = proc[q]
         \/ /\ proc'[q].cur <= Len(server.grants) /\ proc'[q].new <= Len(server.grants)
            /\ proc'[q].pc \notin {"request", "save"}
            /\ proc'[q].pc = "answered" =>
                 /\ proc[q].pc \in {"request", "answered"} /\ proc'[q].cur = proc[q].cur
                 /\ proc'[q].outcome \in {"transient", "protocol"}
                 /\ proc'[q].outcome = "protocol" => proc[q].cur \in history'.refused
  BY <1>1, <1>3, <1>4, <1>5, <1>10
<1> QED BY <1>1, <1>5, <1>7, <1>8, <1>9, <1>10, <1>11, DropKeeps

\* A worker ends a refresh that has no successor to store, or fails to store
\* it: the row may be marked, and nothing else happens to it.
LEMMA EndKeeps ==
  ASSUME TokenInv, NEW p \in Worker, proc[p].pc = "answered",
         NEW r \in {Idle, Reporting}, proc' = [proc EXCEPT ![p] = r],
         UNCHANGED <<kind, now, server, authorized>>, Records',
         row' \in [token : Nat, expiry : Nat, last : Nat, reauth : BOOLEAN],
         row'.token = row.token,
         row'.reauth => row.reauth \/ row.token \notin server.live
                                   \/ row.token \in history.refused,
         history'.presented = history.presented, history'.again = history.again,
         history'.refused = history.refused, history.lost \subseteq history'.lost,
         proc[p].outcome = "ok" => proc[p].cur \in history'.lost
  PROVE  TokenInv'
<1>1. p \in Process /\ r \in Local /\ r.pc \in {"idle", "report"} /\ r.cur = 0 /\ r.new = 0
      /\ Len(server.grants) \in Nat
  BY Rests DEF Process, TokenInv, ServerOK
<1>2. /\ proc' \in [Process -> Local] /\ proc'[p] = r
      /\ \A q \in Process : q # p => proc'[q] = proc[q]
  BY <1>1, Put, Zenon DEF TokenInv, ProcOK
<1>3. Bluesky => \A q \in Process : ~Refreshing(q)'
  <2>1. Refreshing(p)
    BY Zenon DEF Refreshing
  <2>2. Bluesky => \A q \in Process : Refreshing(q) => q = p
    BY <1>1, <2>1, Zenon DEF TokenInv, Locked
  <2> QED BY <1>1, <1>2, <2>2, Zenon DEF Refreshing
<1>4. \A q \in Worker : Answered(q) => proc'[q] = proc[q] \/ proc[q].cur \in history'.lost
  BY <1>2, Zenon DEF Answered, Process
<1>5. \A q \in Process :
        \/ proc'[q] = proc[q]
        \/ /\ proc'[q].cur <= Len(server.grants) /\ proc'[q].new <= Len(server.grants)
           /\ proc'[q].pc \notin {"request", "save", "answered"}
  BY <1>1, <1>2
<1> QED BY <1>2, <1>3, <1>4, <1>5, DropKeeps

\* A worker stores the successor.
LEMMA SuccessorKeeps ==
  ASSUME TokenInv, NEW p \in Worker, Answered(p),
         NEW r \in {Idle, Reporting}, proc' = [proc EXCEPT ![p] = r],
         row' = SavedRow(proc[p].new, proc[p].at),
         UNCHANGED <<kind, now, server, authorized, history>>
  PROVE  TokenInv'
<1>1. p \in Process /\ r \in Local /\ r.pc \in {"idle", "report"} /\ r.cur = 0 /\ r.new = 0
  BY Rests, Zenon DEF Process
<1>2. /\ proc' \in [Process -> Local] /\ proc'[p] = r
      /\ \A q \in Process : q # p => proc'[q] = proc[q]
  BY <1>1, Put, Zenon DEF TokenInv, ProcOK
<1>3. Pending(p) /\ Refreshing(p)
  BY Zenon DEF Pending, Refreshing, Answered
<1>4. Bluesky => /\ \A q \in Process : Refreshing(q) => q = p
                 /\ proc[p].cur = row.token /\ row.token # 0
                 /\ server.grants[proc[p].new] = server.grants[row.token]
  BY <1>1, <1>3 DEF TokenInv, Locked, Control
<1>5. Bluesky => authorized' = server.grants[proc[p].new]
  BY <1>4, Zenon DEF TokenInv, AuthorizationKept
<1> QED BY <1>1, <1>2, <1>3, <1>4, <1>5, StoreKeeps, Zenon

LEMMA PersistKeeps ==
  ASSUME TokenInv, NEW p \in Worker, Persist(p) \/ MastodonPersist(p)
  PROVE  TokenInv'
<1>1. PICK r \in {Idle, Reporting} : proc' = [proc EXCEPT ![p] = r]
  BY Zenon DEF Persist, MastodonPersist
<1>2. /\ UNCHANGED <<kind, now, server, authorized, history>> /\ proc[p].pc = "answered"
      /\ p \in Process
  BY Zenon DEF Persist, MastodonPersist, Process
<1>3. CASE proc[p].outcome = "ok"
  <2>1. row' = SavedRow(proc[p].new, proc[p].at)
    BY <1>3, Zenon DEF Persist, MastodonPersist
  <2> QED BY <1>1, <1>2, <1>3, <2>1, SuccessorKeeps, Zenon DEF Answered
<1>4. CASE proc[p].outcome # "ok"
  <2>1. /\ row \in [token : Nat, expiry : Nat, last : Nat, reauth : BOOLEAN] /\ Records'
    BY <1>2, Zenon DEF TokenInv, RowOK, Records
  <2>2. /\ row' \in [token : Nat, expiry : Nat, last : Nat, reauth : BOOLEAN]
        /\ row'.token = row.token
        /\ row'.reauth => row.reauth \/ (Bluesky /\ proc[p].outcome # "transient")
    <3> DEFINE b == proc[p].outcome # "transient"
    <3>1. row' = row \/ (Bluesky /\ row' = [row EXCEPT !.reauth = b])
      <4>1. CASE Persist(p)
        BY <1>4, <4>1, Zenon DEF Persist
      <4>2. CASE MastodonPersist(p)
        BY <1>4, <4>2, Zenon DEF MastodonPersist
      <4> QED BY <4>1, <4>2, Zenon
    <3>2. b \in BOOLEAN
      BY Zenon
    <3> HIDE DEF b
    <3>3. CASE row' = row
      BY <2>1, <3>3, Zenon
    <3>4. CASE Bluesky /\ row' = [row EXCEPT !.reauth = b]
      <4>1. /\ row' \in [token : Nat, expiry : Nat, last : Nat, reauth : BOOLEAN]
            /\ row'.token = row.token /\ row'.reauth = b
        BY <2>1, <3>2, <3>4
      <4> QED BY <3>4, <4>1, Zenon DEF b
    <3> QED BY <3>1, <3>3, <3>4, Zenon
  <2>3. Bluesky /\ proc[p].outcome # "transient" =>
          row.token \notin server.live \/ row.token \in history.refused
    <3>1. Bluesky => proc[p].cur = row.token
      BY <1>2, Zenon DEF TokenInv, Locked, Refreshing
    <3>2. proc[p].outcome \in {"transient", "protocol", "invalid_grant"}
      BY <1>2, <1>4, Zenon DEF TokenInv, ProcOK, Control, Local
    <3> QED BY <1>2, <3>1, <3>2 DEF TokenInv, Control
  <2>4. history' = history
    BY <1>2, Zenon
  <2> QED BY <1>1, <1>2, <1>4, <2>1, <2>2, <2>3, <2>4, EndKeeps, Zenon
<1> QED BY <1>3, <1>4, Zenon

LEMMA PersistFailsKeeps ==
  ASSUME TokenInv, NEW p \in Worker, PersistFails(p)
  PROVE  TokenInv'
<1>1. PICK r \in {Idle, Reporting} : proc' = [proc EXCEPT ![p] = r]
  BY Zenon DEF PersistFails
<1>2. /\ UNCHANGED <<kind, now, server, row, authorized>> /\ proc[p].pc = "answered"
      /\ history' = [history EXCEPT
           !.lost = IF proc[p].outcome = "ok" THEN @ \cup {proc[p].cur} ELSE @]
  BY Zenon DEF PersistFails
<1>3. history = [presented |-> history.presented, again |-> history.again,
                 lost |-> history.lost, refused |-> history.refused]
  BY Zenon DEF TokenInv, Records
<1>4. /\ history'.lost = IF proc[p].outcome = "ok" THEN history.lost \cup {proc[p].cur}
                         ELSE history.lost
      /\ history'.refused = history.refused
      /\ history'.presented = history.presented /\ history'.again = history.again
      /\ history' = [presented |-> history'.presented, again |-> history'.again,
                     lost |-> history'.lost, refused |-> history'.refused]
  BY <1>2, <1>3, Zenon
<1>5. /\ Records' /\ row' = row
      /\ row' \in [token : Nat, expiry : Nat, last : Nat, reauth : BOOLEAN]
  BY <1>2, <1>4, Zenon DEF TokenInv, Records, RowOK
<1>6. /\ history.lost \subseteq history'.lost
      /\ proc[p].outcome = "ok" => proc[p].cur \in history'.lost
  BY <1>4, Zenon
<1> QED BY <1>1, <1>2, <1>4, <1>5, <1>6, EndKeeps, Zenon

\* A callback stores the token of its grant.
LEMMA GrantKeeps ==
  ASSUME TokenInv, NEW k \in Callback, proc[k].pc = "save", Bluesky => lock = None,
         NEW r \in {Done, Reporting}, proc' = [proc EXCEPT ![k] = r],
         row' = SavedRow(proc[k].new, proc[k].at), authorized' = proc[k].new,
         UNCHANGED <<kind, now, server, history>>
  PROVE  TokenInv'
<1>1. k \in Process /\ r \in Local /\ r.pc \in {"done", "report"} /\ r.cur = 0 /\ r.new = 0
  BY Rests, Zenon DEF Process
<1>2. /\ proc' \in [Process -> Local] /\ proc'[k] = r
      /\ \A q \in Process : q # k => proc'[q] = proc[q]
  BY <1>1, Put, Zenon DEF TokenInv, ProcOK
<1>3. Pending(k) /\ server.grants[proc[k].new] = proc[k].new
  BY <1>1, Zenon DEF TokenInv, Control, Pending
<1>4. Bluesky => \A q \in Process : ~Refreshing(q)
  BY ProcessAssumption, Zenon DEF TokenInv, Locked
<1> QED BY <1>1, <1>2, <1>3, <1>4, StoreKeeps

LEMMA CallbackKeeps ==
  ASSUME TokenInv, NEW k \in Callback, Save(k) \/ MastodonSave(k) \/ CallbackFails(k)
  PROVE  TokenInv'
<1>1. PICK r \in {Done, Reporting} : proc' = [proc EXCEPT ![k] = r]
  BY Zenon DEF Save, MastodonSave, CallbackFails
<1>2. UNCHANGED <<kind, now, server, lock, history>> /\ proc[k].pc = "save"
      /\ (Bluesky => lock = None)
  BY Zenon DEF Save, MastodonSave, CallbackFails
<1>3. CASE row' = SavedRow(proc[k].new, proc[k].at) /\ authorized' = proc[k].new
  BY <1>1, <1>2, <1>3, GrantKeeps, Zenon
<1>4. CASE UNCHANGED <<row, authorized>>
  <2>1. now' \in Nat /\ Len(server.grants) \in Nat /\ ~Answered(k) /\ k \in Process
    BY <1>2 DEF TokenInv, Records, ServerOK, Answered, Process
  <2>2. /\ r \in Local /\ r.pc \notin {"request", "answered", "save"}
        /\ r.cur <= Len(server.grants) /\ r.new <= Len(server.grants)
    BY <2>1, Rests
  <2> QED BY <1>1, <1>2, <1>4, <2>1, <2>2, QuietKeeps, Zenon
<1> QED BY <1>3, <1>4, Zenon DEF Save, MastodonSave, CallbackFails

LEMMA ReportKeeps ==
  ASSUME TokenInv, NEW p \in Process, Report(p) \/ Apply(p) \/ ReportFails(p)
  PROVE  TokenInv'
<1>1. /\ UNCHANGED <<kind, now, server, row, lock, authorized, history>>
      /\ proc[p].pc \in {"report", "apply"}
  BY Zenon DEF Report, Apply, ReportFails
<1>2. now' \in Nat /\ Len(server.grants) \in Nat /\ ~Answered(p) /\ proc[p] \in Local
      /\ proc[p].cur <= Len(server.grants) /\ proc[p].new <= Len(server.grants)
  BY <1>1 DEF TokenInv, Records, ServerOK, Answered, ProcOK
<1>3. CASE Report(p)
  <2> DEFINE r == [proc[p] EXCEPT !.pc = "apply", !.status = Status(row)]
  <2>1. proc' = [proc EXCEPT ![p] = r]
    BY <1>3, Zenon DEF Report
  <2>2. Status(row) \in [available : BOOLEAN, reauth : BOOLEAN]
    BY Zenon DEF TokenInv, RowOK, Status
  <2>3. r \in Local /\ r.pc = "apply" /\ r.cur = proc[p].cur /\ r.new = proc[p].new
    BY <1>2, <2>2, Zenon DEF Local
  <2> HIDE DEF r
  <2>4. /\ r.pc \notin {"request", "answered", "save"}
        /\ r.cur <= Len(server.grants) /\ r.new <= Len(server.grants)
    BY <1>2, <2>3, Zenon
  <2> QED BY <1>1, <1>2, <2>1, <2>3, <2>4, QuietKeeps, Zenon
<1>4. CASE Apply(p) \/ ReportFails(p)
  <2>1. PICK r \in {Done, Idle} : proc' = [proc EXCEPT ![p] = r]
    BY <1>4, Zenon DEF Apply, ReportFails
  <2>2. /\ r \in Local /\ r.pc \notin {"request", "answered", "save"}
        /\ r.cur <= Len(server.grants) /\ r.new <= Len(server.grants)
    BY <1>2, Rests
  <2> QED BY <1>1, <1>2, <2>1, <2>2, QuietKeeps, Zenon
<1> QED BY <1>3, <1>4, Zenon

LEMMA RestartKeeps ==
  ASSUME TokenInv, Restart
  PROVE  TokenInv'
<1> DEFINE open == {q \in Worker : proc[q].pc = "answered" /\ proc[q].outcome = "ok"}
<1>1. /\ UNCHANGED <<kind, now, server, row, authorized>>
      /\ proc' = [p \in Process |->
           IF p \in Callback /\ proc[p].pc # "idle" THEN Done ELSE Idle]
      /\ history' = [history EXCEPT !.lost = @ \cup {proc[p].cur : p \in open}]
  BY Zenon DEF Restart
<1>2. history = [presented |-> history.presented, again |-> history.again,
                 lost |-> history.lost, refused |-> history.refused]
  BY Zenon DEF TokenInv, Records
<1>3. /\ history'.lost = history.lost \cup {proc[p].cur : p \in open}
      /\ history'.refused = history.refused
      /\ history'.presented = history.presented /\ history'.again = history.again
      /\ history' = [presented |-> history'.presented, again |-> history'.again,
                     lost |-> history'.lost, refused |-> history'.refused]
  <2> HIDE DEF open
  <2> QED BY <1>1, <1>2, Zenon
<1>4. /\ Records' /\ row' = row
      /\ row' \in [token : Nat, expiry : Nat, last : Nat, reauth : BOOLEAN]
  BY <1>1, <1>3, Zenon DEF TokenInv, Records, RowOK
<1>5. /\ proc' \in [Process -> Local]
      /\ \A q \in Process : proc'[q].pc \in {"idle", "done"} /\ proc'[q].cur = 0
                            /\ proc'[q].new = 0
  BY <1>1, Rests, Zenon
<1>6. Len(server.grants) \in Nat
  BY DEF TokenInv, ServerOK
<1>7. \A q \in Process : /\ proc'[q].cur <= Len(server.grants)
                         /\ proc'[q].new <= Len(server.grants)
                         /\ proc'[q].pc \notin {"request", "save", "answered"}
                         /\ ~Refreshing(q)'
  BY <1>5, <1>6 DEF Refreshing
<1>8. \A q \in Worker : Answered(q) => proc'[q] = proc[q] \/ proc[q].cur \in history'.lost
  BY <1>3, Zenon DEF Answered
<1>9. history.lost \subseteq history'.lost /\ history.refused \subseteq history'.refused
  BY <1>3, Zenon
<1> QED BY <1>1, <1>3, <1>4, <1>5, <1>7, <1>8, <1>9, DropKeeps

LEMMA TickKeeps ==
  ASSUME TokenInv, Tick
  PROVE  TokenInv'
<1>1. /\ UNCHANGED <<kind, server, row, lock, proc, authorized, history>>
      /\ now \in Nat /\ now' = now + 1
  BY Zenon DEF Tick, TokenInv, Records
<1>2. /\ Records' /\ proc' \in [Process -> Local] /\ row' = row /\ history' = history
      /\ row' \in [token : Nat, expiry : Nat, last : Nat, reauth : BOOLEAN]
  BY <1>1 DEF TokenInv, Records, ProcOK, RowOK
<1> QED BY <1>1, <1>2, DropKeeps, Zenon

LEMMA TokenInvInit == Init => TokenInv
<1> SUFFICES ASSUME Init PROVE TokenInv
  BY Zenon
<1>1. /\ proc = [p \in Process |-> Idle] /\ now = 0 /\ lock = None
      /\ history = [presented |-> {}, again |-> {}, lost |-> {}, refused |-> {}]
  BY Zenon DEF Init
<1>2. /\ proc \in [Process -> Local]
      /\ \A p \in Process : proc[p].pc = "idle" /\ proc[p].cur = 0 /\ proc[p].new = 0
  BY <1>1, Rests, Zenon
<1>3. \A p \in Process : ~Pending(p) /\ ~Refreshing(p) /\ ~Answered(p)
  BY <1>2, Zenon DEF Pending, Refreshing, Answered
<1>4. /\ row \in [token : Nat, expiry : Nat, last : Nat, reauth : BOOLEAN]
      /\ row.token \in {0, 1} /\ row.reauth = FALSE
      /\ server.grants \in Seq(Nat) /\ Len(server.grants) = row.token
      /\ server.live \subseteq 1 .. Len(server.grants)
      /\ row.token # 0 => row.token \in server.live /\ server.grants[row.token] = authorized
      /\ server = [grants |-> server.grants, live |-> server.live]
  <2>1. CASE row = NoRow /\ authorized = 0 /\ server = [grants |-> << >>, live |-> {}]
    BY <2>1 DEF NoRow
  <2>2. CASE row = SavedRow(1, 0) /\ authorized = 1
             /\ server = [grants |-> <<1>>, live |-> {1}]
    BY <2>2, TokenBounds DEF SavedRow
  <2> QED BY <2>1, <2>2, Zenon DEF Init
<1>5. /\ history.presented = {} /\ history.again = {} /\ Records
  BY <1>1, <1>4, Zenon DEF Records
<1>6. ServerOK /\ RowOK /\ ProcOK
  BY <1>2, <1>4, <1>5 DEF ServerOK, RowOK, ProcOK, Issued
<1>7. Fresh /\ Usable /\ Locked
  BY <1>3, <1>4, <1>5, Zenon DEF Fresh, Usable, Locked, Process
<1>8. Control
  BY <1>2, <1>3, Zenon DEF Control
<1>9. AuthorizationKept /\ SingleUse
  BY <1>4, <1>5, Zenon DEF AuthorizationKept, SingleUse
<1> QED BY <1>5, <1>6, <1>7, <1>8, <1>9, Zenon DEF TokenInv

LEMMA TokenInvNext == TokenInv /\ [Next]_vars => TokenInv'
<1> SUFFICES ASSUME TokenInv, [Next]_vars PROVE TokenInv'
  BY Zenon
<1>1. ASSUME NEW p \in Worker, WorkerStep(p) \/ Unanswered(p) \/ PersistFails(p)
      PROVE  TokenInv'
  <2>1. p \in Process
    BY Zenon DEF Process
  <2> QED BY <1>1, <2>1, BeginKeeps, MastodonBeginKeeps, AnswerKeeps, UnansweredKeeps,
             PersistKeeps, PersistFailsKeeps, ReportKeeps, Zenon DEF WorkerStep
<1>2. ASSUME NEW k \in Callback, CallbackStep(k) \/ CallbackFails(k)
      PROVE  TokenInv'
  <2>1. k \in Process
    BY Zenon DEF Process
  <2> QED BY <1>2, <2>1, ExchangeKeeps, CallbackKeeps, ReportKeeps DEF CallbackStep
<1>3. ASSUME UNCHANGED vars
      PROVE  TokenInv'
  <2>1. UNCHANGED <<kind, now, server, row, lock, proc, authorized, history>>
    BY <1>3, Zenon DEF vars
  <2>2. /\ Records' /\ proc' \in [Process -> Local] /\ row' = row /\ history' = history
        /\ row' \in [token : Nat, expiry : Nat, last : Nat, reauth : BOOLEAN]
    BY <2>1, Zenon DEF TokenInv, Records, ProcOK, RowOK
  <2> QED BY <2>1, <2>2, DropKeeps, Zenon
<1> QED BY <1>1, <1>2, <1>3, ReportKeeps, RestartKeeps, TickKeeps, RevokeKeeps, Zenon DEF Next

LEMMA TokenInvHolds == Spec => []TokenInv
<1>1. Spec => Init /\ [][Next]_vars
  BY PTL DEF Spec
<1> QED BY <1>1, TokenInvInit, TokenInvNext, PTL

\* RefreshIfDue and TokenByAccountDID under tokenMu never present a refresh
\* token twice, unless its successor was lost or the answer made no sense.
THEOREM TokensUsedOnce == Spec => []SingleUse
BY TokenInvHolds, PTL DEF TokenInv

\* No refresh overwrites or marks the row of an authorization that
\* HandleCallback has saved since it began.
THEOREM AuthorizationsKept == Spec => []AuthorizationKept
BY TokenInvHolds, PTL DEF TokenInv

\* Whatever the order in which refreshes and authorizations write it, the row
\* of either client holds no dead token once they are done.
THEOREM StoredTokenUsable == Spec => []StoredUsable
<1>1. TokenInv => StoredUsable
  BY Zenon DEF TokenInv, Usable, StoredUsable, Saving, Answered
<1> QED BY <1>1, TokenInvHolds, PTL
=============================================================================
