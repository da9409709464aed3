------------------------- MODULE AuthSessions_proofs -------------------------
(***************************************************************************)
(* Proofs about AuthSessions for every number of handlers, users and        *)
(* sessions, every TTL and interval, and every bound of the clock and of    *)
(* the password changes, with and without failing calls and restarts.       *)
(***************************************************************************)
EXTENDS AuthSessions, TLAPS

USE SessionAssumption

(* The inductive invariant.                                                 *)
SessionInv == TypeOK /\ RequestsInOrder /\ IssuedInThePast /\ RowsInOrder

HandlerType ==
  [pc : Steps, then : Steps, call : Calls, session : Sessions \cup {None},
   user : Users \cup {None}, copy : Rows \cup {NoRow}, stamp : Times]

Stamps == [at : Times, password : 0 .. MaxRotations]

-----------------------------------------------------------------------------
(* Effects of the building blocks on the handler that takes the step.       *)

LEMMA IdleType == Idle \in HandlerType
  BY DEF Idle, HandlerType, Steps, Calls, Times

LEMMA AnswerEffect ==
  ASSUME TypeOK, NEW h \in Handlers, Answer(h)
  PROVE  /\ handler' \in [Handlers -> HandlerType]
         /\ handler'[h] = Idle
         /\ \A g \in Handlers \ {h} : handler'[g] = handler[g]
  BY IdleType DEF TypeOK, Answer, HandlerType

LEMMA RotateEffect ==
  ASSUME TypeOK, NEW h \in Handlers, NEW u \in Users, Rotate(h, u)
  PROVE  /\ handler' \in [Handlers -> HandlerType]
         /\ handler'[h] = [Idle EXCEPT !.pc = "rotate", !.user = u]
         /\ \A g \in Handlers \ {h} : handler'[g] = handler[g]
  <1>1. [Idle EXCEPT !.pc = "rotate", !.user = u] \in HandlerType
    BY IdleType DEF HandlerType, Steps
  <1> QED BY <1>1 DEF TypeOK, Rotate, HandlerType

LEMMA ProceedEffect ==
  ASSUME TypeOK, NEW h \in Handlers, Proceed(h)
  PROVE  /\ handler' \in [Handlers -> HandlerType]
         /\ handler'[h] = [Idle EXCEPT !.pc = handler[h].call, !.session = handler[h].session]
         /\ \A g \in Handlers \ {h} : handler'[g] = handler[g]
  <1>1. [Idle EXCEPT !.pc = handler[h].call, !.session = handler[h].session] \in HandlerType
    BY IdleType DEF TypeOK, HandlerType, Steps
  <1> QED BY <1>1 DEF TypeOK, Proceed, HandlerType

LEMMA CleanupEffect ==
  ASSUME TypeOK, NEW h \in Handlers, NEW r \in HandlerType, NEW next \in Steps,
         CleanupIfDue(h, r, next)
  PROVE  /\ handler' \in [Handlers -> HandlerType]
         /\ lastCleanup' \in Times \cup {None}
         /\ \/ handler'[h] = [r EXCEPT !.pc = "sweep", !.then = next, !.stamp = now]
            \/ handler'[h] = [r EXCEPT !.pc = next]
         /\ \A g \in Handlers \ {h} : handler'[g] = handler[g]
  <1>1. /\ [r EXCEPT !.pc = "sweep", !.then = next, !.stamp = now] \in HandlerType
        /\ [r EXCEPT !.pc = next] \in HandlerType
    BY DEF TypeOK, HandlerType, Steps
  <1>2. handler \in [Handlers -> HandlerType] /\ now \in Times /\ lastCleanup \in Times \cup {None}
    BY DEF TypeOK, HandlerType
  <1>3. CASE CleanupInterval > 0 /\ (lastCleanup = None \/ now - lastCleanup >= CleanupInterval)
    <2>1. /\ lastCleanup' = now
          /\ handler' = [handler EXCEPT ![h] = [r EXCEPT !.pc = "sweep", !.then = next, !.stamp = now]]
      BY <1>3 DEF CleanupIfDue
    <2> QED BY <1>1, <1>2, <2>1
  <1>4. CASE ~(CleanupInterval > 0 /\ (lastCleanup = None \/ now - lastCleanup >= CleanupInterval))
    <2>1. /\ lastCleanup' = lastCleanup
          /\ handler' = [handler EXCEPT ![h] = [r EXCEPT !.pc = next]]
      BY <1>4 DEF CleanupIfDue
    <2> QED BY <1>1, <1>2, <2>1
  <1> QED BY <1>3, <1>4

(* The histories only grow, except for the fresh session of a login.        *)
Grown ==
  /\ now' >= now
  /\ \A s \in Sessions : issued[s] # None => issued'[s] = issued[s] /\ used'[s] >= used[s]

LEMMA OthersInOrder ==
  ASSUME TypeOK, NEW g \in Handlers, HandlerInOrder(g), Grown,
         handler'[g] = handler[g], now' \in Times, used' \in [Sessions -> Times]
  PROVE  HandlerInOrder(g)'
  <1>1. /\ handler[g] \in HandlerType
        /\ now \in Nat /\ now' \in Nat /\ now <= now'
        /\ handler[g].stamp \in Nat
    BY DEF TypeOK, HandlerType, Times, Grown
  <1>2. handler'[g].stamp <= now'
    BY <1>1, HandlerInOrder(g) DEF HandlerInOrder
  <1>3. ASSUME handler[g].session # None
        PROVE  /\ issued[handler[g].session] # None
               /\ issued'[handler[g].session] = issued[handler[g].session]
               /\ used'[handler[g].session] >= used[handler[g].session]
    BY <1>1, <1>3 DEF HandlerInOrder, Grown, HandlerType
  <1>4. ASSUME handler[g].pc \in {"renew", "touch"}
        PROVE  /\ Bounded(handler[g].session, handler[g].copy)'
               /\ issued'[handler[g].session].at <= handler'[g].stamp
    <2>1. handler[g].session # None
      BY <1>4 DEF HandlerInOrder, WithCookie
    <2>2. handler[g].copy \in Rows /\ handler[g].session \in Sessions
      BY <1>1, <1>4, <2>1 DEF HandlerInOrder, HandlerType
    <2>3. /\ Bounded(handler[g].session, handler[g].copy)
          /\ issued[handler[g].session].at <= handler[g].stamp
      BY <1>4 DEF HandlerInOrder
    <2> QED BY <1>3, <2>1, <2>2, <2>3 DEF Bounded, Rows, Times, TypeOK
  <1> QED BY <1>1, <1>2, <1>3, <1>4 DEF HandlerInOrder

LEMMA IdleInOrder ==
  ASSUME NEW h \in Handlers, handler'[h] = Idle, now' \in Times
  PROVE  HandlerInOrder(h)'
  BY DEF HandlerInOrder, Idle, WithCookie, Times

(* A step of h that leaves clock and histories alone needs a look at h only. *)
LEMMA StepInOrder ==
  ASSUME TypeOK, RequestsInOrder, NEW h \in Handlers, TypeOK', Grown, HandlerInOrder(h)',
         \A g \in Handlers \ {h} : handler'[g] = handler[g]
  PROVE  RequestsInOrder'
  <1>1. ASSUME NEW g \in Handlers \ {h}
        PROVE  HandlerInOrder(g)'
    BY OthersInOrder DEF RequestsInOrder, TypeOK
  <1> QED BY <1>1 DEF RequestsInOrder

(* Rows that are kept or deleted stay in order when their history does.     *)
LEMMA RowsKept ==
  ASSUME TypeOK, RowsInOrder, Grown, TypeOK', UNCHANGED password,
         \A s \in Sessions : rows'[s] = rows[s] \/ rows'[s] = NoRow
  PROVE  RowsInOrder'
  <1> SUFFICES ASSUME NEW s \in Sessions, rows'[s] # NoRow
               PROVE  /\ issued'[s] # None
                      /\ Bounded(s, rows[s])'
                      /\ issued'[s].password = password'[rows'[s].user]
    BY DEF RowsInOrder
  <1>1. rows'[s] = rows[s] /\ rows[s] \in Rows
    BY DEF TypeOK
  <1>2. issued[s] # None /\ Bounded(s, rows[s]) /\ issued[s].password = password[rows[s].user]
    BY <1>1 DEF RowsInOrder
  <1>3. issued'[s] = issued[s] /\ used'[s] >= used[s] /\ used[s] \in Nat /\ used'[s] \in Nat
    BY <1>2 DEF Grown, TypeOK, Times
  <1> QED BY <1>1, <1>2, <1>3 DEF Bounded, Rows, Times

-----------------------------------------------------------------------------
(* The statements on the table.                                             *)

LEMMA DeleteOneEffect ==
  ASSUME TypeOK, NEW s \in Sessions, DeleteSessionByTokenHash(s) \/ Failed
  PROVE  /\ rows' \in [Sessions -> Rows \cup {NoRow}]
         /\ \A r \in Sessions : rows'[r] = rows[r] \/ rows'[r] = NoRow
  BY DEF TypeOK, DeleteSessionByTokenHash, Failed

LEMMA SweepEffect ==
  ASSUME TypeOK, NEW before \in Times, DeleteExpiredSessions(before) \/ Failed
  PROVE  /\ rows' \in [Sessions -> Rows \cup {NoRow}]
         /\ \A r \in Sessions : rows'[r] = rows[r] \/ rows'[r] = NoRow
  BY DEF TypeOK, DeleteExpiredSessions, Failed

LEMMA RevokeEffect ==
  ASSUME TypeOK, NEW u \in Users, DeleteSessionsByUserID(u)
  PROVE  /\ rows' \in [Sessions -> Rows \cup {NoRow}]
         /\ \A r \in Sessions : rows'[r] = rows[r] \/ rows'[r] = NoRow
         /\ \A r \in Sessions : rows'[r] # NoRow => rows'[r].user # u
  BY DEF TypeOK, DeleteSessionsByUserID

LEMMA TouchEffect ==
  ASSUME TypeOK, NEW s \in Sessions, NEW row \in Rows, TouchSession(s, row) \/ Failed
  PROVE  /\ rows' \in [Sessions -> Rows \cup {NoRow}]
         /\ \A r \in Sessions \ {s} : rows'[r] = rows[r]
         /\ rows[s] = NoRow => rows'[s] = NoRow
         /\ rows[s] # NoRow =>
              \/ rows'[s] = rows[s]
              \/ rows'[s] = [user |-> rows[s].user, seen |-> row.seen, expires |-> row.expires]
  <1>1. rows \in [Sessions -> Rows \cup {NoRow}]
    BY DEF TypeOK
  <1>2. CASE TouchSession(s, row)
    <2>1. CASE rows[s] = NoRow
      BY <1>1, <1>2, <2>1 DEF TouchSession
    <2>2. CASE rows[s] # NoRow
      <3>1. [user |-> rows[s].user, seen |-> row.seen, expires |-> row.expires] \in Rows
        BY <1>1, <2>2 DEF Rows
      <3>2. rows' = [rows EXCEPT ![s] = [user |-> rows[s].user, seen |-> row.seen,
                                         expires |-> row.expires]]
        BY <1>2, <2>2 DEF TouchSession
      <3> QED BY <1>1, <2>2, <3>1, <3>2
    <2> QED BY <2>1, <2>2
  <1>3. CASE Failed
    BY <1>1, <1>3 DEF Failed
  <1> QED BY <1>2, <1>3

(* A touch within the bounds of its session keeps the table in order.       *)
LEMMA TouchInOrder ==
  ASSUME TypeOK, RowsInOrder, Grown, TypeOK', UNCHANGED password,
         NEW s \in Sessions, NEW row \in Rows, TouchSession(s, row) \/ Failed,
         issued[s] # None, Bounded(s, row)'
  PROVE  RowsInOrder'
  <1> SUFFICES ASSUME NEW r \in Sessions, rows'[r] # NoRow
               PROVE  /\ issued'[r] # None
                      /\ Bounded(r, rows[r])'
                      /\ issued'[r].password = password'[rows'[r].user]
    BY DEF RowsInOrder
  <1>1. rows[r] # NoRow /\ rows[r] \in Rows /\ rows'[r] \in Rows
    BY TouchEffect DEF TypeOK
  <1>2. issued[r] # None /\ Bounded(r, rows[r]) /\ issued[r].password = password[rows[r].user]
    BY <1>1 DEF RowsInOrder
  <1>3. issued'[r] = issued[r] /\ used'[r] >= used[r] /\ used[r] \in Nat /\ used'[r] \in Nat
    BY <1>2 DEF Grown, TypeOK, Times
  <1>4. CASE rows'[r] = rows[r]
    BY <1>1, <1>2, <1>3, <1>4 DEF Bounded, Rows, Times
  <1>5. CASE r = s /\ rows'[s] = [user |-> rows[s].user, seen |-> row.seen, expires |-> row.expires]
    BY <1>1, <1>2, <1>3, <1>5 DEF Bounded
  <1> QED BY <1>1, <1>4, <1>5, TouchEffect

-----------------------------------------------------------------------------
(* Every step keeps the invariant.                                          *)

LEMMA InitInv == Init => SessionInv
  BY IdleType DEF Init, SessionInv, TypeOK, RequestsInOrder, HandlerInOrder, IssuedInThePast, RowsInOrder,
     HandlerType, Idle, WithCookie, Times

(* Steps that leave table, passwords, clock and histories alone.            *)
LEMMA ReadInv ==
  ASSUME SessionInv, NEW h \in Handlers, UNCHANGED <<now, password, rows, issued, used>>,
         lastCleanup' \in Times \cup {None}, handler' \in [Handlers -> HandlerType],
         \A g \in Handlers \ {h} : handler'[g] = handler[g], HandlerInOrder(h)'
  PROVE  SessionInv'
  <1>1. TypeOK'
    BY DEF SessionInv, TypeOK, HandlerType
  <1>2. Grown
    BY DEF SessionInv, TypeOK, Grown, Times
  <1>3. RequestsInOrder'
    BY <1>1, <1>2, StepInOrder DEF SessionInv
  <1>4. RowsInOrder'
    BY DEF SessionInv, RowsInOrder, Bounded
  <1>5. IssuedInThePast'
    BY DEF SessionInv, IssuedInThePast
  <1> QED BY <1>1, <1>3, <1>4, <1>5 DEF SessionInv

(* Steps that delete sessions, or only use them.                            *)
LEMMA DeleteInv ==
  ASSUME SessionInv, NEW h \in Handlers, UNCHANGED <<now, password, lastCleanup, issued>>,
         used' \in [Sessions -> Times], \A r \in Sessions : used'[r] >= used[r],
         rows' \in [Sessions -> Rows \cup {NoRow}],
         \A r \in Sessions : rows'[r] = rows[r] \/ rows'[r] = NoRow,
         handler' \in [Handlers -> HandlerType],
         \A g \in Handlers \ {h} : handler'[g] = handler[g], HandlerInOrder(h)'
  PROVE  SessionInv'
  <1>1. TypeOK'
    BY DEF SessionInv, TypeOK, HandlerType
  <1>2. Grown
    BY DEF SessionInv, TypeOK, Grown, Times
  <1>3. RequestsInOrder'
    BY <1>1, <1>2, StepInOrder DEF SessionInv
  <1>4. RowsInOrder'
    BY <1>1, <1>2, RowsKept DEF SessionInv
  <1>5. IssuedInThePast'
    BY DEF SessionInv, IssuedInThePast
  <1> QED BY <1>1, <1>3, <1>4, <1>5 DEF SessionInv

(* Steps that touch one session.                                            *)
LEMMA TouchInv ==
  ASSUME SessionInv, NEW h \in Handlers, UNCHANGED <<now, password, lastCleanup, issued>>,
         NEW s \in Sessions, NEW row \in Rows, TouchSession(s, row) \/ Failed,
         issued[s] # None, Bounded(s, row)',
         used' \in [Sessions -> Times], \A r \in Sessions : used'[r] >= used[r],
         handler' \in [Handlers -> HandlerType],
         \A g \in Handlers \ {h} : handler'[g] = handler[g], HandlerInOrder(h)'
  PROVE  SessionInv'
  <1>1. TypeOK'
    BY TouchEffect DEF SessionInv, TypeOK, HandlerType
  <1>2. Grown
    BY DEF SessionInv, TypeOK, Grown, Times
  <1>3. RequestsInOrder'
    BY <1>1, <1>2, StepInOrder DEF SessionInv
  <1>4. RowsInOrder'
    BY <1>1, <1>2, TouchInOrder DEF SessionInv
  <1>5. IssuedInThePast'
    BY DEF SessionInv, IssuedInThePast
  <1> QED BY <1>1, <1>3, <1>4, <1>5 DEF SessionInv

LEMMA MarkEffect ==
  ASSUME TypeOK, NEW s \in Sessions, NEW t \in Times, MarkUsed(s, t)
  PROVE  /\ used' \in [Sessions -> Times]
         /\ \A r \in Sessions : used'[r] >= used[r]
         /\ used'[s] >= t
  BY DEF TypeOK, MarkUsed, Times

(* What a handler knows of itself.                                          *)
LEMMA OwnState ==
  ASSUME SessionInv, NEW h \in Handlers
  PROVE  /\ handler \in [Handlers -> HandlerType] /\ handler[h] \in HandlerType
         /\ HandlerInOrder(h)
         /\ {handler[h].pc, handler[h].then} \cap WithCookie # {} =>
              /\ handler[h].session \in Sessions
              /\ issued[handler[h].session] # None
         /\ handler[h].pc \in {"renew", "touch"} => handler[h].copy \in Rows
         /\ handler[h].pc \in {"rotate", "insert"} => handler[h].user \in Users
         /\ \A t \in Captured(h) : t \in Times /\ t <= now
  <1>1. handler \in [Handlers -> HandlerType] /\ handler[h] \in HandlerType /\ now \in Times
    BY DEF SessionInv, TypeOK, HandlerType
  <1>2. HandlerInOrder(h)
    BY DEF SessionInv, RequestsInOrder
  <1> QED BY <1>1, <1>2 DEF HandlerInOrder, HandlerType, Captured, Times

LEMMA AnswerInOrder ==
  ASSUME SessionInv, NEW h \in Handlers, Answer(h), now' \in Times
  PROVE  HandlerInOrder(h)'
  BY AnswerEffect, IdleInOrder DEF SessionInv

LEMMA RotateInOrder ==
  ASSUME SessionInv, NEW h \in Handlers, NEW u \in Users, Rotate(h, u), now' \in Times
  PROVE  HandlerInOrder(h)'
  <1>1. handler'[h] = [Idle EXCEPT !.pc = "rotate", !.user = u]
    BY RotateEffect DEF SessionInv
  <1> QED BY <1>1 DEF HandlerInOrder, Idle, WithCookie, Times

LEMMA ProceedInOrder ==
  ASSUME SessionInv, NEW h \in Handlers, handler[h].pc \in {"refresh", "renew"}, Proceed(h),
         now' \in Times, UNCHANGED issued
  PROVE  HandlerInOrder(h)'
  <1>1. handler'[h] = [Idle EXCEPT !.pc = handler[h].call, !.session = handler[h].session]
    BY ProceedEffect DEF SessionInv
  <1>2. /\ handler[h].session \in Sessions /\ issued[handler[h].session] # None
        /\ handler[h].call \in Calls
    BY OwnState DEF WithCookie, HandlerType
  <1> QED BY <1>1, <1>2 DEF HandlerInOrder, Idle, WithCookie, Times, Calls

LEMMA TickInv == SessionInv /\ Tick => SessionInv'
  <1> SUFFICES ASSUME SessionInv, Tick
               PROVE  SessionInv'
    OBVIOUS
  <1>1. TypeOK'
    BY DEF SessionInv, Tick, TypeOK, Times
  <1>2. Grown
    BY DEF SessionInv, Tick, TypeOK, Grown, Times
  <1>3. ASSUME NEW g \in Handlers
        PROVE  HandlerInOrder(g)'
    <2>1. TypeOK /\ HandlerInOrder(g) /\ handler'[g] = handler[g]
      BY OwnState DEF SessionInv, Tick
    <2>2. now' \in Times /\ used' \in [Sessions -> Times]
      BY <1>1 DEF TypeOK
    <2> QED BY <1>2, <2>1, <2>2, OthersInOrder
  <1>4. RequestsInOrder'
    BY <1>3 DEF RequestsInOrder
  <1>5. RowsInOrder'
    BY DEF SessionInv, Tick, RowsInOrder, Bounded
  <1>6. IssuedInThePast'
    BY DEF SessionInv, Tick, TypeOK, IssuedInThePast, Times
  <1> QED BY <1>1, <1>4, <1>5, <1>6 DEF SessionInv

LEMMA RestartInv == SessionInv /\ Restart => SessionInv'
  <1> SUFFICES ASSUME SessionInv, Restart
               PROVE  SessionInv'
    OBVIOUS
  <1>1. TypeOK'
    BY IdleType DEF SessionInv, Restart, TypeOK, HandlerType
  <1>2. RequestsInOrder'
    BY <1>1, IdleInOrder DEF Restart, RequestsInOrder, TypeOK
  <1>3. RowsInOrder'
    BY DEF SessionInv, Restart, RowsInOrder, Bounded
  <1>4. IssuedInThePast'
    BY DEF SessionInv, Restart, IssuedInThePast
  <1> QED BY <1>1, <1>2, <1>3, <1>4 DEF SessionInv

-----------------------------------------------------------------------------
LEMMA SweepInv ==
  ASSUME SessionInv, NEW h \in Handlers, Sweep(h)
  PROVE  SessionInv'
  <1> DEFINE r == [handler[h] EXCEPT !.pc = handler[h].then, !.then = "idle", !.stamp = 0]
  <1>1. handler[h] \in HandlerType /\ handler[h].stamp \in Times /\ now \in Times
    BY OwnState DEF HandlerType, SessionInv, TypeOK
  <1>2. r \in HandlerType
    <2>1. 0 \in Times /\ "idle" \in Steps /\ handler[h].then \in Steps
      BY <1>1 DEF HandlerType, Steps, Times
    <2> QED BY <1>1, <2>1 DEF HandlerType
  <1>3. /\ handler' \in [Handlers -> HandlerType] /\ handler'[h] = r
        /\ \A g \in Handlers \ {h} : handler'[g] = handler[g]
    BY <1>1, <1>2, OwnState DEF Sweep, HandlerType
  <1>4. UNCHANGED <<now, password, lastCleanup, issued, used>>
    BY DEF Sweep
  <1>5. HandlerInOrder(h)'
    <2> HIDE DEF r
    <2>1. /\ r.pc = handler[h].then /\ r.then = "idle" /\ r.stamp = 0
          /\ r.session = handler[h].session /\ r.user = handler[h].user /\ r.copy = handler[h].copy
      BY <1>1 DEF r, HandlerType
    <2>2. /\ HandlerInOrder(h) /\ handler[h].pc = "sweep" /\ now \in Nat
          /\ handler[h].then \in WithCookie => handler[h].session # None
          /\ handler[h].session # None => issued[handler[h].session] # None
      BY <1>1, OwnState DEF Sweep, HandlerInOrder, Times
    <2>3. handler[h].then \notin {"rotate", "insert", "renew", "touch"}
      BY OwnState DEF HandlerInOrder
    <2> QED BY <1>3, <1>4, <2>1, <2>2, <2>3 DEF HandlerInOrder, WithCookie
  <1>6. /\ rows' \in [Sessions -> Rows \cup {NoRow}]
        /\ \A q \in Sessions : rows'[q] = rows[q] \/ rows'[q] = NoRow
    BY <1>1, SweepEffect DEF Sweep, SessionInv
  <1>7. used' \in [Sessions -> Times] /\ \A q \in Sessions : used'[q] >= used[q]
    BY <1>4 DEF SessionInv, TypeOK, Times
  <1> QED BY <1>3, <1>4, <1>5, <1>6, <1>7, DeleteInv

LEMMA ArriveInv ==
  ASSUME SessionInv, NEW h \in Handlers, NEW call \in Calls, NEW s \in Sessions \cup {None},
         Arrive(h, call, s)
  PROVE  SessionInv'
  <1> DEFINE r == [Idle EXCEPT !.call = call, !.session = s]
             next == IF call = "login" THEN "login" ELSE "refresh"
  <1>1. r \in HandlerType /\ next \in Steps /\ now \in Times
    BY IdleType DEF HandlerType, SessionInv, TypeOK, Steps, Calls
  <1>2. CleanupIfDue(h, r, next) /\ UNCHANGED <<now, password, rows, issued, used>>
    BY DEF Arrive
  <1>0. /\ r.then = "idle" /\ r.stamp = 0 /\ r.session = s
        /\ next = IF call = "login" THEN "login" ELSE "refresh"
    BY DEF Idle
  <1> HIDE DEF r, next
  <1>3. /\ handler' \in [Handlers -> HandlerType]
        /\ lastCleanup' \in Times \cup {None}
        /\ \/ handler'[h] = [r EXCEPT !.pc = "sweep", !.then = next, !.stamp = now]
           \/ handler'[h] = [r EXCEPT !.pc = next]
        /\ \A g \in Handlers \ {h} : handler'[g] = handler[g]
    BY <1>1, <1>2, CleanupEffect DEF SessionInv
  <1>4. (call # "login" => s \in Sessions /\ issued[s] # None) /\ (call = "login" => s = None)
    BY DEF Arrive
  <1>5. /\ handler'[h].session = s
        /\ handler'[h].pc \in {"sweep", next}
        /\ handler'[h].then \in {next, "idle"}
        /\ handler'[h].stamp \in {now, 0}
    BY <1>1, <1>3, <1>0 DEF HandlerType
  <1>6. HandlerInOrder(h)'
    BY <1>1, <1>2, <1>4, <1>5, <1>0 DEF HandlerInOrder, WithCookie, Times
  <1> QED BY <1>2, <1>3, <1>6, ReadInv

LEMMA StartCallInv ==
  ASSUME SessionInv, NEW h \in Handlers, StartCall(h)
  PROVE  SessionInv'
  <1> DEFINE next == CASE handler[h].pc = "login" -> "lookup"
                       [] handler[h].pc = "password" -> "verify"
                       [] OTHER -> "resolve"
  <1>1. handler[h] \in HandlerType /\ next \in Steps /\ now \in Times
    BY OwnState DEF SessionInv, TypeOK, Steps
  <1>2. /\ CleanupIfDue(h, handler[h], next) /\ UNCHANGED <<now, password, rows, issued, used>>
        /\ handler[h].pc \in {"actor", "password", "login"}
    BY DEF StartCall, Calls
  <1>3. next \in {"resolve", "verify"} => handler[h].pc \in WithCookie
    BY <1>2 DEF WithCookie
  <1>4. next \in {"resolve", "verify", "lookup"}
    OBVIOUS
  <1> HIDE DEF next
  <1>5. /\ handler' \in [Handlers -> HandlerType]
        /\ lastCleanup' \in Times \cup {None}
        /\ \/ handler'[h] = [handler[h] EXCEPT !.pc = "sweep", !.then = next, !.stamp = now]
           \/ handler'[h] = [handler[h] EXCEPT !.pc = next]
        /\ \A g \in Handlers \ {h} : handler'[g] = handler[g]
    BY <1>1, <1>2, CleanupEffect DEF SessionInv
  <1>6. /\ handler'[h].session = handler[h].session
        /\ handler'[h].pc \in {"sweep", next}
        /\ handler'[h].then \in {next, handler[h].then}
        /\ handler'[h].stamp \in {now, handler[h].stamp}
    BY <1>1, <1>5 DEF HandlerType
  <1>7. HandlerInOrder(h)'
    BY <1>1, <1>2, <1>3, <1>4, <1>6, OwnState DEF HandlerInOrder, WithCookie, Times
  <1> QED BY <1>2, <1>5, <1>7, ReadInv

(* A copy just read keeps within the bounds of its row.                     *)
LEMMA CopyInv ==
  ASSUME SessionInv, NEW h \in Handlers, handler[h].pc \in {"refresh", "resolve"},
         NEW pc \in {"renew", "touch"}, rows[handler[h].session] # NoRow,
         handler' = [handler EXCEPT ![h].pc = pc, ![h].copy = rows[handler[h].session],
                                    ![h].stamp = now],
         UNCHANGED <<now, password, rows, lastCleanup, issued, used>>
  PROVE  SessionInv'
  <1> DEFINE s == handler[h].session
             r == [handler[h] EXCEPT !.pc = pc, !.copy = rows[s], !.stamp = now]
  <1>1. /\ handler \in [Handlers -> HandlerType] /\ handler[h] \in HandlerType
        /\ s \in Sessions /\ issued[s] # None
    BY OwnState DEF WithCookie
  <1>2. rows[s] \in Rows /\ now \in Times /\ lastCleanup \in Times \cup {None}
    BY <1>1 DEF SessionInv, TypeOK
  <1>3. r \in HandlerType
    BY <1>1, <1>2 DEF HandlerType, Steps
  <1>4. /\ handler' \in [Handlers -> HandlerType] /\ handler'[h] = r
        /\ \A g \in Handlers \ {h} : handler'[g] = handler[g]
    BY <1>1, <1>3 DEF HandlerType
  <1>5. /\ r.pc = pc /\ r.copy = rows[s] /\ r.stamp = now /\ r.session = s
        /\ r.then = handler[h].then /\ r.user = handler[h].user
    BY <1>1 DEF HandlerType
  <1>6. Bounded(s, rows[s])
    BY <1>1 DEF SessionInv, RowsInOrder
  <1> HIDE DEF r
  <1>7. s # None
    BY <1>1
  <1> HIDE DEF s
  <1>8. rows[s] # NoRow
    BY DEF s
  <1>9. HandlerInOrder(h)'
    <2>1. handler[h].then \in {"idle", "refresh", "resolve", "verify", "login", "lookup"}
      BY OwnState DEF HandlerInOrder
    <2>2. Bounded(handler[h].session, handler[h].copy)'
      BY <1>4, <1>5, <1>6 DEF Bounded
    <2>3. /\ handler'[h].pc = pc /\ handler'[h].then = handler[h].then /\ handler'[h].stamp = now
          /\ handler'[h].session = s /\ handler'[h].copy = rows[s]
      BY <1>4, <1>5
    <2>4. now' = now /\ issued' = issued /\ now \in Nat
      BY <1>2 DEF Times
    <2>5. issued[s].at <= now
      BY <1>1 DEF SessionInv, IssuedInThePast
    <2> QED BY <1>1, <1>7, <1>8, <2>1, <2>2, <2>3, <2>4, <2>5 DEF HandlerInOrder
  <1> QED BY <1>2, <1>4, <1>9, ReadInv

LEMMA ReadForRefreshInv ==
  ASSUME SessionInv, NEW h \in Handlers, ReadForRefresh(h)
  PROVE  SessionInv'
  <1>1. CASE rows[handler[h].session] # NoRow
             /\ handler' = [handler EXCEPT ![h].pc = "renew", ![h].copy = rows[handler[h].session],
                                           ![h].stamp = now]
    BY <1>1, CopyInv DEF ReadForRefresh
  <1>2. CASE Proceed(h)
    <2>1. now' \in Times /\ lastCleanup' \in Times \cup {None}
      BY DEF ReadForRefresh, SessionInv, TypeOK
    <2>2. HandlerInOrder(h)'
      BY <1>2, <2>1, ProceedInOrder DEF ReadForRefresh
    <2> QED BY <1>2, <2>1, <2>2, ProceedEffect, ReadInv DEF ReadForRefresh, SessionInv
  <1> QED BY <1>1, <1>2 DEF ReadForRefresh

LEMMA ReadForActorInv ==
  ASSUME SessionInv, NEW h \in Handlers, ReadForActor(h)
  PROVE  SessionInv'
  <1>1. CASE rows[handler[h].session] # NoRow
             /\ handler' = [handler EXCEPT ![h].pc = "touch", ![h].copy = rows[handler[h].session],
                                           ![h].stamp = now]
    BY <1>1, CopyInv DEF ReadForActor
  <1>2. CASE Answer(h)
    <2>1. now' \in Times /\ lastCleanup' \in Times \cup {None}
      BY DEF ReadForActor, SessionInv, TypeOK
    <2>2. HandlerInOrder(h)'
      BY <1>2, <2>1, AnswerInOrder
    <2> QED BY <1>2, <2>1, <2>2, AnswerEffect, ReadInv DEF ReadForActor, SessionInv
  <1> QED BY <1>1, <1>2 DEF ReadForActor

-----------------------------------------------------------------------------
(* The writes of a request that holds a copy.                               *)

LEMMA RefreshInv ==
  ASSUME SessionInv, NEW h \in Handlers, RefreshSessionIfDue(h)
  PROVE  SessionInv'
  <1>0. PICK s \in Sessions, row \in Rows : s = handler[h].session /\ row = handler[h].copy
    BY OwnState DEF RefreshSessionIfDue, WithCookie
  <1>1. /\ issued[s] # None /\ Bounded(s, row)
        /\ issued[s].at <= handler[h].stamp /\ handler[h].stamp \in Times
        /\ \A t \in Captured(h) : t \in Times /\ t <= now
    BY <1>0, OwnState DEF RefreshSessionIfDue, HandlerInOrder, WithCookie, HandlerType
  <1>2. /\ Proceed(h) /\ UNCHANGED <<now, password, lastCleanup, issued>>
        /\ handler[h].pc = "renew" /\ now \in Times /\ used \in [Sessions -> Times]
        /\ issued[s] \in Stamps
    BY <1>1 DEF RefreshSessionIfDue, SessionInv, TypeOK, Stamps
  <1>3. /\ handler' \in [Handlers -> HandlerType]
        /\ \A g \in Handlers \ {h} : handler'[g] = handler[g]
        /\ HandlerInOrder(h)'
    BY <1>2, ProceedEffect, ProceedInOrder DEF SessionInv
  <1>4. PICK t \in Captured(h) :
          \/ /\ DeleteSessionByTokenHash(s) \/ Failed
             /\ UNCHANGED used
          \/ /\ TouchSession(s, Extended(t, row)) \/ Failed
             /\ MarkUsed(s, t)
          \/ /\ UNCHANGED rows
             /\ MarkUsed(s, t)
    BY <1>0 DEF RefreshSessionIfDue
  <1>5. t \in Times /\ t <= now /\ handler[h].stamp <= t
    BY <1>1 DEF Captured, Times
  <1>6. Extended(t, row) \in Rows /\ Extended(t, row).expires = t + TTL
    <2>1. TTL \in Nat /\ MaxTime \in Nat
      OBVIOUS
    <2>2. t + TTL \in 0 .. MaxTime + TTL
      BY <1>5, <2>1 DEF Times
    <2> QED BY <1>5, <2>2 DEF Extended, Rows
  <1>7. CASE (DeleteSessionByTokenHash(s) \/ Failed) /\ UNCHANGED used
    <2>1. used' \in [Sessions -> Times] /\ \A q \in Sessions : used'[q] >= used[q]
      BY <1>2, <1>7 DEF Times
    <2>2. /\ rows' \in [Sessions -> Rows \cup {NoRow}]
          /\ \A q \in Sessions : rows'[q] = rows[q] \/ rows'[q] = NoRow
      BY <1>1, <1>7, DeleteOneEffect DEF SessionInv
    <2> QED BY <1>2, <1>3, <2>1, <2>2, DeleteInv
  <1>8. ASSUME MarkUsed(s, t)
        PROVE  /\ used' \in [Sessions -> Times] /\ used'[s] >= t
               /\ \A q \in Sessions : used'[q] >= used[q]
    BY <1>1, <1>5, <1>8, MarkEffect DEF SessionInv
  <1>9. CASE UNCHANGED rows /\ MarkUsed(s, t)
    <2>1. /\ rows' \in [Sessions -> Rows \cup {NoRow}]
          /\ \A q \in Sessions : rows'[q] = rows[q] \/ rows'[q] = NoRow
      BY <1>9 DEF SessionInv, TypeOK
    <2> QED BY <1>2, <1>3, <1>8, <1>9, <2>1, DeleteInv
  <1>10. CASE TouchSession(s, Extended(t, row)) /\ MarkUsed(s, t)
    <2>1. issued[s].at <= t /\ issued[s].at \in Nat /\ t \in Nat /\ used'[s] \in Nat /\ TTL \in Nat
      BY <1>1, <1>2, <1>5, <1>8, <1>10 DEF Stamps, Times
    <2>2. Bounded(s, Extended(t, row))'
      BY <1>2, <1>6, <1>8, <1>10, <2>1 DEF Bounded, Extended
    <2> QED BY <1>1, <1>2, <1>3, <1>6, <1>8, <1>10, <2>2, TouchInv
  <1> QED BY <1>4, <1>7, <1>9, <1>10 DEF Failed

LEMMA ResolveInv ==
  ASSUME SessionInv, NEW h \in Handlers, ResolveRequestActor(h)
  PROVE  SessionInv'
  <1>0. PICK s \in Sessions, row \in Rows : s = handler[h].session /\ row = handler[h].copy
    BY OwnState DEF ResolveRequestActor, WithCookie
  <1>1. /\ issued[s] # None /\ Bounded(s, row)
        /\ \A t \in Captured(h) : t \in Times
    BY <1>0, OwnState DEF ResolveRequestActor, HandlerInOrder, WithCookie
  <1>2. /\ UNCHANGED <<now, password, lastCleanup, issued, used>>
        /\ now' \in Times /\ used' \in [Sessions -> Times]
        /\ \A q \in Sessions : used'[q] >= used[q]
    BY DEF ResolveRequestActor, SessionInv, TypeOK, Times
  <1>3. /\ handler' \in [Handlers -> HandlerType]
        /\ \A g \in Handlers \ {h} : handler'[g] = handler[g]
        /\ HandlerInOrder(h)'
    <2>1. Answer(h) \/ \E u \in Users : Rotate(h, u)
      BY DEF ResolveRequestActor
    <2>2. CASE Answer(h)
      BY <1>2, <2>2, AnswerEffect, AnswerInOrder DEF SessionInv
    <2>3. ASSUME NEW u \in Users, Rotate(h, u)
          PROVE  /\ handler' \in [Handlers -> HandlerType]
                 /\ \A g \in Handlers \ {h} : handler'[g] = handler[g]
                 /\ HandlerInOrder(h)'
      BY <1>2, <2>3, RotateEffect, RotateInOrder DEF SessionInv
    <2> QED BY <2>1, <2>2, <2>3
  <1>4. PICK t \in Captured(h) :
          \/ DeleteSessionByTokenHash(s) \/ Failed
          \/ TouchSession(s, [row EXCEPT !.seen = t])
    BY <1>0 DEF ResolveRequestActor
  <1>5. /\ [row EXCEPT !.seen = t] \in Rows
        /\ [row EXCEPT !.seen = t].expires = row.expires
    BY <1>1 DEF Rows
  <1>6. CASE DeleteSessionByTokenHash(s) \/ Failed
    <2>1. /\ rows' \in [Sessions -> Rows \cup {NoRow}]
          /\ \A q \in Sessions : rows'[q] = rows[q] \/ rows'[q] = NoRow
      BY <1>1, <1>6, DeleteOneEffect DEF SessionInv
    <2> QED BY <1>2, <1>3, <2>1, DeleteInv
  <1>7. CASE TouchSession(s, [row EXCEPT !.seen = t])
    <2>1. Bounded(s, [row EXCEPT !.seen = t])'
      BY <1>1, <1>2, <1>5 DEF Bounded
    <2> QED BY <1>1, <1>2, <1>3, <1>5, <1>7, <2>1, TouchInv
  <1> QED BY <1>4, <1>6, <1>7

LEMMA ChangePasswordInv ==
  ASSUME SessionInv, NEW h \in Handlers, ChangePassword(h)
  PROVE  SessionInv'
  <1>1. /\ UNCHANGED <<now, password, rows, lastCleanup, issued, used>>
        /\ now' \in Times /\ lastCleanup' \in Times \cup {None}
    BY DEF ChangePassword, SessionInv, TypeOK
  <1>2. CASE Answer(h)
    BY <1>1, <1>2, AnswerEffect, AnswerInOrder, ReadInv DEF SessionInv
  <1>3. CASE rows[handler[h].session] # NoRow /\ Rotate(h, rows[handler[h].session].user)
    <2>1. handler[h].session \in Sessions
      BY OwnState DEF ChangePassword, WithCookie
    <2>2. rows[handler[h].session].user \in Users
      BY <1>3, <2>1 DEF SessionInv, TypeOK, Rows
    <2> QED BY <1>1, <1>3, <2>2, RotateEffect, RotateInOrder, ReadInv DEF SessionInv
  <1> QED BY <1>2, <1>3 DEF ChangePassword

LEMMA LogoutInv ==
  ASSUME SessionInv, NEW h \in Handlers, Logout(h)
  PROVE  SessionInv'
  <1>1. handler[h].session \in Sessions
    BY OwnState DEF Logout, WithCookie
  <1>2. /\ UNCHANGED <<now, password, lastCleanup, issued, used>>
        /\ now' \in Times /\ used' \in [Sessions -> Times]
        /\ \A q \in Sessions : used'[q] >= used[q]
    BY DEF Logout, SessionInv, TypeOK, Times
  <1>3. /\ handler' \in [Handlers -> HandlerType]
        /\ \A g \in Handlers \ {h} : handler'[g] = handler[g]
        /\ HandlerInOrder(h)'
    BY <1>2, AnswerEffect, AnswerInOrder DEF Logout, SessionInv
  <1>4. /\ rows' \in [Sessions -> Rows \cup {NoRow}]
        /\ \A q \in Sessions : rows'[q] = rows[q] \/ rows'[q] = NoRow
    BY <1>1, DeleteOneEffect DEF Logout, SessionInv
  <1> QED BY <1>2, <1>3, <1>4, DeleteInv

LEMMA LoginInv ==
  ASSUME SessionInv, NEW h \in Handlers, Login(h)
  PROVE  SessionInv'
  <1>1. /\ UNCHANGED <<now, password, rows, lastCleanup, issued, used>>
        /\ now' \in Times /\ lastCleanup' \in Times \cup {None} /\ now \in Times
        /\ handler \in [Handlers -> HandlerType]
    BY DEF Login, SessionInv, TypeOK, HandlerType
  <1>2. CASE Answer(h)
    BY <1>1, <1>2, AnswerEffect, AnswerInOrder, ReadInv DEF SessionInv
  <1>3. ASSUME NEW u \in Users,
               handler' = [handler EXCEPT ![h] = [Idle EXCEPT !.pc = "insert", !.user = u, !.stamp = now]]
        PROVE  SessionInv'
    <2> DEFINE r == [Idle EXCEPT !.pc = "insert", !.user = u, !.stamp = now]
    <2>1. r \in HandlerType
      BY <1>1, IdleType DEF HandlerType, Steps
    <2>2. /\ handler' \in [Handlers -> HandlerType] /\ handler'[h] = r
          /\ \A g \in Handlers \ {h} : handler'[g] = handler[g]
      BY <1>1, <1>3, <2>1
    <2>3. HandlerInOrder(h)'
      BY <1>1, <2>2 DEF HandlerInOrder, Idle, WithCookie, Times
    <2> QED BY <1>1, <2>2, <2>3, ReadInv
  <1> QED BY <1>2, <1>3 DEF Login

-----------------------------------------------------------------------------
(* A rotation leaves no session of its user, a login makes a fresh one.     *)

LEMMA RotateInv ==
  ASSUME SessionInv, NEW h \in Handlers, RotatePassword(h)
  PROVE  SessionInv'
  <1> DEFINE u == handler[h].user
  <1>1. u \in Users
    BY OwnState DEF RotatePassword
  <1>2. /\ UNCHANGED <<now, lastCleanup, issued, used>>
        /\ now' \in Times /\ used' \in [Sessions -> Times]
        /\ \A q \in Sessions : used'[q] >= used[q]
    BY DEF RotatePassword, SessionInv, TypeOK, Times
  <1>3. /\ handler' \in [Handlers -> HandlerType]
        /\ \A g \in Handlers \ {h} : handler'[g] = handler[g]
        /\ HandlerInOrder(h)'
    BY <1>2, AnswerEffect, AnswerInOrder DEF RotatePassword, SessionInv
  <1>4. CASE UNCHANGED <<password, rows>>
    <2>1. /\ rows' \in [Sessions -> Rows \cup {NoRow}]
          /\ \A q \in Sessions : rows'[q] = rows[q] \/ rows'[q] = NoRow
      BY <1>4 DEF SessionInv, TypeOK
    <2> QED BY <1>2, <1>3, <1>4, <2>1, DeleteInv
  <1>5. CASE /\ password[u] < MaxRotations
             /\ password' = [password EXCEPT ![u] = @ + 1]
             /\ DeleteSessionsByUserID(u)
    <2>1. /\ rows' \in [Sessions -> Rows \cup {NoRow}]
          /\ \A q \in Sessions : rows'[q] = rows[q] \/ rows'[q] = NoRow
          /\ \A q \in Sessions : rows'[q] # NoRow => rows'[q].user # u
      BY <1>1, <1>5, RevokeEffect DEF SessionInv
    <2>2. password' \in [Users -> 0 .. MaxRotations]
      BY <1>1, <1>5 DEF SessionInv, TypeOK
    <2>3. TypeOK'
      BY <1>2, <1>3, <2>1, <2>2 DEF SessionInv, TypeOK, HandlerType
    <2>4. Grown
      BY <1>2 DEF SessionInv, TypeOK, Grown, Times
    <2>5. RequestsInOrder'
      BY <1>3, <2>3, <2>4, StepInOrder DEF SessionInv
    <2>6. ASSUME NEW q \in Sessions, rows'[q] # NoRow
          PROVE  /\ issued'[q] # None
                 /\ Bounded(q, rows[q])'
                 /\ issued'[q].password = password'[rows'[q].user]
      <3>1. rows'[q] = rows[q] /\ rows[q] # NoRow /\ rows[q].user # u /\ rows[q].user \in Users
        BY <2>1, <2>6 DEF SessionInv, TypeOK, Rows
      <3>2. password'[rows[q].user] = password[rows[q].user]
        BY <1>5, <3>1 DEF SessionInv, TypeOK
      <3> QED BY <1>2, <3>1, <3>2 DEF SessionInv, RowsInOrder, Bounded
    <2>7. RowsInOrder'
      BY <2>6 DEF RowsInOrder
    <2>8. IssuedInThePast'
      BY <1>2 DEF SessionInv, IssuedInThePast
    <2> QED BY <2>3, <2>5, <2>7, <2>8 DEF SessionInv
  <1> QED BY <1>4, <1>5 DEF RotatePassword

LEMMA CreateInv ==
  ASSUME SessionInv, NEW h \in Handlers, NEW s \in Sessions, CreateSession(h, s)
  PROVE  SessionInv'
  <1>1. PICK u \in Users : u = handler[h].user
    BY OwnState DEF CreateSession
  <1>2. /\ UNCHANGED <<now, password, lastCleanup>> /\ Answer(h)
        /\ now \in Times /\ now' \in Times
    BY DEF CreateSession, SessionInv, TypeOK
  <1>3. /\ handler' \in [Handlers -> HandlerType] /\ handler'[h] = Idle
        /\ \A g \in Handlers \ {h} : handler'[g] = handler[g]
        /\ HandlerInOrder(h)'
    BY <1>2, AnswerEffect, AnswerInOrder DEF SessionInv
  <1>4. CASE UNCHANGED <<rows, issued, used>>
    BY <1>2, <1>3, <1>4, ReadInv DEF SessionInv, TypeOK
  <1>5. ASSUME NEW t \in Captured(h), issued[s] = None,
               rows' = [rows EXCEPT ![s] = [user |-> u, seen |-> t, expires |-> t + TTL]],
               issued' = [issued EXCEPT ![s] = [at |-> t, password |-> password[u]]],
               used' = [used EXCEPT ![s] = t]
        PROVE  SessionInv'
    <2>1. /\ t \in Times /\ t <= now /\ t \in Nat
          /\ t + TTL \in 0 .. MaxTime + TTL
      <3>1. TTL \in Nat /\ MaxTime \in Nat
        OBVIOUS
      <3>2. t \in Times /\ t <= now
        BY OwnState
      <3> QED BY <3>1, <3>2 DEF Times
    <2>2. [user |-> u, seen |-> t, expires |-> t + TTL] \in Rows
      BY <2>1 DEF Rows
    <2>3. [at |-> t, password |-> password[u]] \in Stamps /\ Stamps \subseteq [at : Nat, password : Nat]
      BY <2>1 DEF Stamps, SessionInv, TypeOK, Times
    <2>4. [at |-> t, password |-> password[u]] # None
      BY <2>3
    <2>5. /\ rows' \in [Sessions -> Rows \cup {NoRow}]
          /\ issued' \in [Sessions -> Stamps \cup {None}]
          /\ used' \in [Sessions -> Times]
      BY <1>5, <2>1, <2>2, <2>3 DEF SessionInv, TypeOK, Stamps
    <2>6. TypeOK'
      BY <1>2, <1>3, <2>5 DEF SessionInv, TypeOK, HandlerType, Stamps
    <2>7. /\ rows'[s] = [user |-> u, seen |-> t, expires |-> t + TTL]
          /\ issued'[s] = [at |-> t, password |-> password[u]]
          /\ used'[s] = t
          /\ \A q \in Sessions \ {s} : rows'[q] = rows[q] /\ issued'[q] = issued[q] /\ used'[q] = used[q]
      BY <1>5 DEF SessionInv, TypeOK
    <2>8. Grown
      BY <1>2, <1>5, <2>7 DEF SessionInv, TypeOK, Grown, Times
    <2>9. RequestsInOrder'
      BY <1>3, <2>6, <2>8, StepInOrder DEF SessionInv
    <2>10. ASSUME NEW q \in Sessions, rows'[q] # NoRow
           PROVE  /\ issued'[q] # None
                  /\ Bounded(q, rows[q])'
                  /\ issued'[q].password = password'[rows'[q].user]
      <3>1. CASE q = s
        BY <1>2, <2>1, <2>4, <2>7, <3>1 DEF Bounded
      <3>2. CASE q # s
        BY <1>2, <2>7, <2>10, <3>2 DEF SessionInv, RowsInOrder, Bounded
      <3> QED BY <3>1, <3>2
    <2>11. RowsInOrder'
      BY <2>10 DEF RowsInOrder
    <2>12. IssuedInThePast'
      BY <1>2, <2>1, <2>7 DEF SessionInv, IssuedInThePast
    <2> QED BY <2>6, <2>9, <2>11, <2>12 DEF SessionInv
  <1> QED BY <1>1, <1>4, <1>5 DEF CreateSession

LEMMA NextInv == SessionInv /\ [Next]_vars => SessionInv'
  <1> SUFFICES ASSUME SessionInv, [Next]_vars
               PROVE  SessionInv'
    OBVIOUS
  <1>1. CASE Tick
    BY <1>1, TickInv
  <1>2. CASE Restart
    BY <1>2, RestartInv
  <1>3. ASSUME NEW h \in Handlers, NEW call \in Calls, NEW s \in Sessions \cup {None},
               Arrive(h, call, s)
        PROVE  SessionInv'
    BY <1>3, ArriveInv
  <1>4. ASSUME NEW h \in Handlers,
               Sweep(h) \/ ReadForRefresh(h) \/ RefreshSessionIfDue(h)
        PROVE  SessionInv'
    BY <1>4, SweepInv, ReadForRefreshInv, RefreshInv
  <1>5. ASSUME NEW h \in Handlers,
               StartCall(h) \/ ReadForActor(h) \/ ResolveRequestActor(h)
        PROVE  SessionInv'
    BY <1>5, StartCallInv, ReadForActorInv, ResolveInv
  <1>6. ASSUME NEW h \in Handlers,
               ChangePassword(h) \/ RotatePassword(h) \/ Logout(h) \/ Login(h)
        PROVE  SessionInv'
    BY <1>6, ChangePasswordInv, RotateInv, LogoutInv, LoginInv
  <1>7. ASSUME NEW h \in Handlers, NEW s \in Sessions, CreateSession(h, s)
        PROVE  SessionInv'
    BY <1>7, CreateInv
  <1>8. CASE UNCHANGED vars
    BY <1>8 DEF vars, SessionInv, TypeOK, RequestsInOrder, HandlerInOrder, IssuedInThePast,
               RowsInOrder, Bounded
  <1> QED BY <1>1, <1>2, <1>3, <1>4, <1>5, <1>6, <1>7, <1>8 DEF Next

-----------------------------------------------------------------------------
(* The type invariant, and the invariant the properties below rest on.      *)
THEOREM Invariance == Spec => []SessionInv
  BY InitInv, NextInv, PTL DEF Spec

(* Every reachable state is of the types declared.                          *)
THEOREM TypeCorrect == Spec => []TypeOK
  <1>1. SessionInv => TypeOK
    BY DEF SessionInv
  <1> QED BY <1>1, Invariance, PTL

(* A changed or reset password leaves no session from before.               *)
THEOREM RotationRevokes == Spec => []SessionsOfThisPassword
  <1>1. SessionInv => SessionsOfThisPassword
    BY DEF SessionInv, RowsInOrder, SessionsOfThisPassword
  <1> QED BY <1>1, Invariance, PTL

(* The expiry of a session is never later than the TTL after its last use.  *)
THEOREM IdleExpires == Spec => []IdleSessionEnds
  <1>1. SessionInv => IdleSessionEnds
    BY DEF SessionInv, RowsInOrder, Bounded, IdleSessionEnds
  <1> QED BY <1>1, Invariance, PTL

-----------------------------------------------------------------------------
(* How the row of a session can change in a step.                           *)
RowStep(s) ==
  /\ issued[s] # None /\ rows[s] = NoRow => rows'[s] = NoRow
  /\ rows[s] # NoRow /\ rows'[s] = NoRow =>
       \/ now >= issued[s].at + TTL
       \/ \E h \in Handlers : handler[h].pc = "logout" /\ handler[h].session = s
       \/ password'[rows[s].user] # password[rows[s].user]

LEMMA SweepRow ==
  ASSUME SessionInv, NEW h \in Handlers, Sweep(h), NEW s \in Sessions
  PROVE  RowStep(s)
  <1>1. /\ handler[h].stamp \in Nat /\ handler[h].stamp <= now /\ now \in Nat
    BY OwnState DEF HandlerInOrder, HandlerType, Times, SessionInv, TypeOK
  <1>2. rows[s] # NoRow => rows[s] \in Rows /\ issued[s] \in Stamps /\ issued[s].at + TTL <= rows[s].expires
    BY DEF SessionInv, TypeOK, RowsInOrder, Bounded, Stamps
  <1>3. CASE Failed
    BY <1>3 DEF Failed, RowStep
  <1>4. CASE DeleteExpiredSessions(handler[h].stamp)
    <2>1. rows'[s] = IF rows[s] # NoRow /\ rows[s].expires <= handler[h].stamp
                     THEN NoRow ELSE rows[s]
      BY <1>4 DEF DeleteExpiredSessions
    <2> QED BY <1>1, <1>2, <2>1 DEF RowStep, Rows, Stamps, Times
  <1> QED BY <1>3, <1>4 DEF Sweep

(* A request discards a session only when its copy, and so the TTL from the *)
(* login, had run out.                                                      *)
LEMMA DiscardRow ==
  ASSUME SessionInv, NEW h \in Handlers, handler[h].pc \in {"renew", "touch"},
         NEW t \in Captured(h), t > handler[h].copy.expires,
         DeleteSessionByTokenHash(handler[h].session) \/ Failed, NEW s \in Sessions
  PROVE  RowStep(s)
  <1>1. /\ handler[h].session \in Sessions /\ handler[h].copy \in Rows
        /\ Bounded(handler[h].session, handler[h].copy)
        /\ t \in Times /\ t <= now /\ now \in Times
    BY OwnState DEF HandlerInOrder, WithCookie, SessionInv, TypeOK
  <1>2. CASE rows'[s] = rows[s]
    BY <1>2 DEF RowStep
  <1>3. CASE s = handler[h].session /\ rows'[s] = NoRow
    <2>1. rows[s] # NoRow => issued[s] \in Stamps
      BY DEF SessionInv, RowsInOrder, TypeOK, Stamps
    <2> QED BY <1>1, <1>3, <2>1 DEF RowStep, Bounded, Rows, Stamps, Times
  <1>4. rows'[s] = rows[s] \/ (s = handler[h].session /\ rows'[s] = NoRow)
    BY <1>1 DEF DeleteSessionByTokenHash, Failed, SessionInv, TypeOK
  <1> QED BY <1>2, <1>3, <1>4

LEMMA TouchRow ==
  ASSUME SessionInv, NEW s \in Sessions, NEW r \in Sessions, NEW row \in Rows,
         TouchSession(r, row) \/ Failed
  PROVE  RowStep(s)
  <1>1. None \notin Rows
    BY DEF Rows, Times
  <1>2. rows[s] = NoRow => rows'[s] = NoRow
    BY TouchEffect DEF SessionInv
  <1>3. rows[s] # NoRow => rows'[s] # NoRow
    <2>1. CASE TouchSession(r, row)
      <3>1. CASE s = r
        <4>1. rows[s] # NoRow => [user |-> rows[s].user, seen |-> row.seen, expires |-> row.expires] \in Rows
          BY DEF SessionInv, TypeOK, Rows
        <4> QED BY <1>1, <3>1, <4>1, TouchEffect DEF SessionInv, NoRow
      <3>2. CASE s # r
        BY <3>2, TouchEffect DEF SessionInv
      <3> QED BY <3>1, <3>2
    <2>2. CASE Failed
      BY <2>2 DEF Failed
    <2> QED BY <2>1, <2>2
  <1> QED BY <1>2, <1>3 DEF RowStep

LEMMA RequestRow ==
  ASSUME SessionInv, NEW h \in Handlers, RefreshSessionIfDue(h) \/ ResolveRequestActor(h),
         NEW s \in Sessions
  PROVE  RowStep(s)
  <1>1. /\ handler[h].pc \in {"renew", "touch"}
        /\ handler[h].session \in Sessions /\ handler[h].copy \in Rows
        /\ \A t \in Captured(h) : t \in Times
    BY OwnState DEF RefreshSessionIfDue, ResolveRequestActor, WithCookie
  <1>2. PICK t \in Captured(h) :
          \/ /\ t > handler[h].copy.expires
             /\ DeleteSessionByTokenHash(handler[h].session) \/ Failed
          \/ TouchSession(handler[h].session, Extended(t, handler[h].copy)) \/ Failed
          \/ TouchSession(handler[h].session, [handler[h].copy EXCEPT !.seen = t]) \/ Failed
          \/ UNCHANGED rows
    BY DEF RefreshSessionIfDue, ResolveRequestActor
  <1>3. CASE /\ t > handler[h].copy.expires
             /\ DeleteSessionByTokenHash(handler[h].session) \/ Failed
    BY <1>1, <1>3, DiscardRow
  <1>4. CASE UNCHANGED rows
    BY <1>4 DEF RowStep
  <1>5. CASE TouchSession(handler[h].session, Extended(t, handler[h].copy))
    <2>1. TTL \in Nat /\ MaxTime \in Nat
      OBVIOUS
    <2>2. t \in Times /\ t + TTL \in 0 .. MaxTime + TTL
      BY <1>1, <2>1 DEF Times
    <2>3. Extended(t, handler[h].copy) \in Rows
      BY <1>1, <2>2 DEF Extended, Rows
    <2> QED BY <1>1, <1>5, <2>3, TouchRow
  <1>6. CASE TouchSession(handler[h].session, [handler[h].copy EXCEPT !.seen = t])
    <2>1. [handler[h].copy EXCEPT !.seen = t] \in Rows
      BY <1>1 DEF Rows
    <2> QED BY <1>1, <1>6, <2>1, TouchRow
  <1> QED BY <1>2, <1>3, <1>4, <1>5, <1>6 DEF Failed

LEMMA LogoutRow ==
  ASSUME SessionInv, NEW h \in Handlers, Logout(h), NEW s \in Sessions
  PROVE  RowStep(s)
  <1>1. handler[h].session \in Sessions /\ handler[h].pc = "logout"
    BY OwnState DEF Logout, WithCookie
  <1>2. CASE rows'[s] = rows[s]
    BY <1>2 DEF RowStep
  <1>3. CASE DeleteSessionByTokenHash(handler[h].session)
    <2>1. rows'[s] = IF s = handler[h].session THEN NoRow ELSE rows[s]
      BY <1>1, <1>3 DEF DeleteSessionByTokenHash, SessionInv, TypeOK
    <2>2. CASE s = handler[h].session
      BY <1>1, <2>1, <2>2 DEF RowStep
    <2>3. CASE s # handler[h].session
      BY <1>2, <2>1, <2>3
    <2> QED BY <2>2, <2>3
  <1> QED BY <1>2, <1>3 DEF Logout, Failed

LEMMA RotateRow ==
  ASSUME SessionInv, NEW h \in Handlers, RotatePassword(h), NEW s \in Sessions
  PROVE  RowStep(s)
  <1>1. handler[h].user \in Users
    BY OwnState DEF RotatePassword
  <1>2. CASE rows'[s] = rows[s]
    BY <1>2 DEF RowStep
  <1>3. CASE /\ rows[s] # NoRow /\ rows[s].user = handler[h].user /\ rows'[s] = NoRow
             /\ password' = [password EXCEPT ![handler[h].user] = @ + 1]
    <2>1. password'[rows[s].user] # password[rows[s].user]
      BY <1>1, <1>3 DEF SessionInv, TypeOK
    <2> QED BY <1>3, <2>1 DEF RowStep
  <1> QED BY <1>2, <1>3 DEF RotatePassword, DeleteSessionsByUserID

LEMMA CreateRow ==
  ASSUME SessionInv, NEW h \in Handlers, NEW r \in Sessions, CreateSession(h, r), NEW s \in Sessions
  PROVE  RowStep(s)
  <1>1. CASE UNCHANGED rows
    BY <1>1 DEF RowStep
  <1>2. CASE issued[r] = None /\ (s # r => rows'[s] = rows[s])
    <2>1. rows[r] = NoRow
      BY <1>2 DEF SessionInv, RowsInOrder
    <2> QED BY <1>2, <2>1 DEF RowStep
  <1> QED BY <1>1, <1>2 DEF CreateSession, SessionInv, TypeOK

LEMMA EveryRow ==
  ASSUME SessionInv, [Next]_vars, NEW s \in Sessions
  PROVE  RowStep(s)
  <1>1. CASE UNCHANGED rows
    BY <1>1 DEF RowStep
  <1>2. ASSUME NEW h \in Handlers,
               \/ Sweep(h) \/ RefreshSessionIfDue(h) \/ ResolveRequestActor(h)
               \/ Logout(h) \/ RotatePassword(h)
               \/ \E r \in Sessions : CreateSession(h, r)
        PROVE  RowStep(s)
    BY <1>2, SweepRow, RequestRow, LogoutRow, RotateRow, CreateRow
  <1>3. CASE Tick \/ Restart \/ UNCHANGED vars
    BY <1>1, <1>3 DEF Tick, Restart, vars
  <1>4. ASSUME NEW h \in Handlers,
               \/ \E call \in Calls, r \in Sessions \cup {None} : Arrive(h, call, r)
               \/ ReadForRefresh(h) \/ StartCall(h) \/ ReadForActor(h)
               \/ ChangePassword(h) \/ Login(h)
        PROVE  RowStep(s)
    BY <1>1, <1>4 DEF Arrive, ReadForRefresh, StartCall, ReadForActor, ChangePassword, Login
  <1> QED BY <1>2, <1>3, <1>4 DEF Next

(* A session that was ended never comes back.                               *)
THEOREM EndedForGood == Spec => EndedStaysEnded
  <1>1. SessionInv /\ [Next]_vars =>
          [\A s \in Sessions : issued[s] # None /\ rows[s] = NoRow => rows'[s] = NoRow]_vars
    BY EveryRow DEF RowStep
  <1> QED BY <1>1, Invariance, PTL DEF Spec, EndedStaysEnded

(* A session lives for the TTL unless it is logged out or revoked.          *)
THEOREM LivesForTTL == Spec => KeptForTTL
  <1>1. SessionInv /\ [Next]_vars =>
          [\A s \in Sessions : rows[s] # NoRow /\ rows'[s] = NoRow =>
             \/ now >= issued[s].at + TTL
             \/ \E h \in Handlers : handler[h].pc = "logout" /\ handler[h].session = s
             \/ password'[rows[s].user] # password[rows[s].user]]_vars
    BY EveryRow DEF RowStep
  <1> QED BY <1>1, Invariance, PTL DEF Spec, KeptForTTL

=============================================================================
