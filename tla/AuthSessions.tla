---------------------------- MODULE AuthSessions ----------------------------
(***************************************************************************)
(* Login sessions: rows of auth_sessions shared by all request handlers.    *)
(* Every request passes the refresh middleware first, which reads the row   *)
(* of its cookie and may renew or discard it, and then its own service      *)
(* call.  Reads and writes are separate statements; only the rotation of a  *)
(* password is a transaction.  The clock is captured between a read and the *)
(* write that uses it: each write draws its time from that interval.        *)
(***************************************************************************)
EXTENDS Integers

CONSTANTS
  Handlers,         \* goroutines that serve requests
  Users,            \* accounts; none is created or removed here
  Sessions,         \* fresh session ids, each with its token
  TTL,              \* SESSION_TTL
  RefreshInterval,  \* SESSION_REFRESH_INTERVAL, 0 turns renewal off
  CleanupInterval,  \* SESSION_CLEANUP_INTERVAL, 0 turns the clean-up off
  CallsFail,        \* may database calls fail and the server restart?
  MaxTime,          \* bound of the clock
  MaxRotations,     \* bound of the password changes of a user
  None              \* no session, no user, no row

ASSUME SessionAssumption ==
  /\ TTL \in Nat \ {0}
  /\ {RefreshInterval, CleanupInterval, MaxTime, MaxRotations} \subseteq Nat
  /\ CallsFail \in BOOLEAN
  /\ None \notin Users \cup Sessions
  /\ None \notin [at : Nat, password : Nat] \cup [user : Users, seen : Nat, expires : Nat]

VARIABLES
  now,          \* the clock
  password,     \* users.password_hash, by the number of its changes
  rows,         \* auth_sessions, None where there is no row
  lastCleanup,  \* Service.lastCleanupAt, None when zero
  handler,      \* local state of every handler
  issued,       \* history: when a session was created, under which password
  used          \* history: the last time the middleware found it valid

vars == <<now, password, rows, lastCleanup, handler, issued, used>>

Times == 0 .. MaxTime
Rows == [user : Users, seen : Times, expires : 0 .. MaxTime + TTL]
NoRow == None

(* The service calls of a request: those that need an actor (a reset of     *)
(* another user's password included), the change of one's own, logout,      *)
(* login.                                                                   *)
Calls == {"actor", "password", "logout", "login"}

Steps == Calls \cup {"idle", "sweep", "refresh", "renew", "resolve", "touch",
                     "verify", "rotate", "lookup", "insert"}

Idle == [pc |-> "idle", then |-> "idle", call |-> "login", session |-> None,
         user |-> None, copy |-> NoRow, stamp |-> 0]

TypeOK ==
  /\ now \in Times
  /\ password \in [Users -> 0 .. MaxRotations]
  /\ rows \in [Sessions -> Rows \cup {NoRow}]
  /\ lastCleanup \in Times \cup {None}
  /\ handler \in [Handlers -> [pc : Steps, then : Steps, call : Calls,
                               session : Sessions \cup {None}, user : Users \cup {None},
                               copy : Rows \cup {NoRow}, stamp : Times]]
  /\ issued \in [Sessions -> [at : Times, password : 0 .. MaxRotations] \cup {None}]
  /\ used \in [Sessions -> Times]

Init ==
  /\ now = 0
  /\ password = [u \in Users |-> 0]
  /\ rows = [s \in Sessions |-> NoRow]
  /\ lastCleanup = None
  /\ handler = [h \in Handlers |-> Idle]
  /\ issued = [s \in Sessions |-> None]
  /\ used = [s \in Sessions |-> 0]

-----------------------------------------------------------------------------
Answer(h) == handler' = [handler EXCEPT ![h] = Idle]

Rotate(h, u) == handler' = [handler EXCEPT ![h] = [Idle EXCEPT !.pc = "rotate", !.user = u]]

(* The middleware is done: h turns to the call it is for.                   *)
Proceed(h) ==
  handler' = [handler EXCEPT ![h] = [Idle EXCEPT !.pc = handler[h].call, !.session = handler[h].session]]

(* The times a clock read since the last step of h may have shown.          *)
Captured(h) == handler[h].stamp .. now

(* A statement that failed or whose error the code drops.                   *)
Failed == CallsFail /\ UNCHANGED rows

(* Variant: an upsert, which brings a deleted session back. *)
UpsertSession(s, row) == rows' = [rows EXCEPT ![s] = row]

(* UPDATE ... WHERE id: nothing happens to a deleted session.               *)
TouchSession(s, row) ==
  rows' = [rows EXCEPT ![s] =
             IF @ = NoRow THEN NoRow
             ELSE [user |-> @.user, seen |-> row.seen, expires |-> row.expires]]

DeleteSessionByTokenHash(s) == rows' = [rows EXCEPT ![s] = NoRow]

(* Variant: the clean-up compares the time of the last request. *)
DeleteUnseenSessions(before) ==
  rows' = [s \in Sessions |-> IF rows[s] # NoRow /\ rows[s].seen <= before
                              THEN NoRow ELSE rows[s]]

DeleteExpiredSessions(before) ==
  rows' = [s \in Sessions |-> IF rows[s] # NoRow /\ rows[s].expires <= before
                              THEN NoRow ELSE rows[s]]

(* The test and the update of lastCleanupAt are under cleanupMu, the DELETE *)
(* is not.  State r is what h goes on with.                                 *)
CleanupIfDue(h, r, next) ==
  IF CleanupInterval > 0 /\ (lastCleanup = None \/ now - lastCleanup >= CleanupInterval)
  THEN /\ lastCleanup' = now
       /\ handler' = [handler EXCEPT ![h] = [r EXCEPT !.pc = "sweep", !.then = next, !.stamp = now]]
  ELSE /\ handler' = [handler EXCEPT ![h] = [r EXCEPT !.pc = next]]
       /\ UNCHANGED lastCleanup

Sweep(h) ==
  /\ handler[h].pc = "sweep"
  /\ DeleteExpiredSessions(handler[h].stamp) \/ Failed
  /\ handler' = [handler EXCEPT ![h].pc = handler[h].then, ![h].then = "idle", ![h].stamp = 0]
  /\ UNCHANGED <<now, password, lastCleanup, issued, used>>

-----------------------------------------------------------------------------
(* The refresh middleware.  A request without a cookie, or one that fails   *)
(* the CSRF test, does no more here than the clean-up: that of a login.     *)

Arrive(h, call, s) ==
  /\ handler[h].pc = "idle"
  /\ IF call = "login" THEN s = None ELSE s \in Sessions /\ issued[s] # None
  /\ CleanupIfDue(h, [Idle EXCEPT !.call = call, !.session = s],
                  IF call = "login" THEN "login" ELSE "refresh")
  /\ UNCHANGED <<now, password, rows, issued, used>>

(* GetSessionByTokenHash for the middleware; without a row, or after an     *)
(* error, the request goes on to its own call.                              *)
ReadForRefresh(h) ==
  LET s == handler[h].session IN
  /\ handler[h].pc = "refresh"
  /\ \/ /\ rows[s] # NoRow
        /\ handler' = [handler EXCEPT ![h].pc = "renew", ![h].copy = rows[s], ![h].stamp = now]
     \/ rows[s] = NoRow /\ Proceed(h)
     \/ CallsFail /\ Proceed(h)
  /\ UNCHANGED <<now, password, rows, lastCleanup, issued, used>>

(* Measured from last_seen_at, which every resolved request moves.          *)
ShouldRefresh(t, row) == RefreshInterval > 0 /\ t - row.seen >= RefreshInterval

(* Variant: the TTL is added to the old expiry. *)
ExtendedByTTL(t, row) == [row EXCEPT !.seen = t, !.expires = @ + TTL]

Extended(t, row) == [row EXCEPT !.seen = t, !.expires = t + TTL]

MarkUsed(s, t) == used' = [used EXCEPT ![s] = IF t > @ THEN t ELSE @]

RefreshSessionIfDue(h) ==
  LET s == handler[h].session
      row == handler[h].copy IN
  /\ handler[h].pc = "renew"
  /\ \E t \in Captured(h) :
       \/ /\ t > row.expires
          /\ DeleteSessionByTokenHash(s) \/ Failed
          /\ UNCHANGED used
       \/ /\ t <= row.expires /\ ShouldRefresh(t, row)
          /\ TouchSession(s, Extended(t, row)) \/ Failed
          /\ MarkUsed(s, t)
       \/ /\ t <= row.expires /\ ~ShouldRefresh(t, row)
          /\ UNCHANGED rows
          /\ MarkUsed(s, t)
  /\ Proceed(h)
  /\ UNCHANGED <<now, password, lastCleanup, issued>>

-----------------------------------------------------------------------------
(* Every service call but logout starts with the clean-up.                  *)
StartCall(h) ==
  /\ handler[h].pc \in Calls \ {"logout"}
  /\ CleanupIfDue(h, handler[h], CASE handler[h].pc = "login" -> "lookup"
                                   [] handler[h].pc = "password" -> "verify"
                                   [] OTHER -> "resolve")
  /\ UNCHANGED <<now, password, rows, issued, used>>

ReadForActor(h) ==
  LET s == handler[h].session IN
  /\ handler[h].pc = "resolve"
  /\ \/ /\ rows[s] # NoRow
        /\ handler' = [handler EXCEPT ![h].pc = "touch", ![h].copy = rows[s], ![h].stamp = now]
     \/ rows[s] = NoRow /\ Answer(h)
     \/ CallsFail /\ Answer(h)
  /\ UNCHANGED <<now, password, rows, lastCleanup, issued, used>>

(* Writes the new last_seen_at with the expiry read before; an error of the *)
(* update is dropped.  The request may go on to reset the password of any   *)
(* user: whether the actor is an administrator is left to chance.           *)
ResolveRequestActor(h) ==
  LET s == handler[h].session
      row == handler[h].copy IN
  /\ handler[h].pc = "touch"
  /\ \E t \in Captured(h) :
       \/ /\ t > row.expires
          /\ DeleteSessionByTokenHash(s) \/ Failed
          /\ Answer(h)
       \/ /\ t <= row.expires
          /\ TouchSession(s, [row EXCEPT !.seen = t]) \/ Failed
          /\ Answer(h) \/ \E u \in Users : Rotate(h, u)
  /\ UNCHANGED <<now, password, lastCleanup, issued, used>>

(* ChangePassword reads the session and the hash of its user; the current   *)
(* password was typed right or wrong.  The expiry is not tested here.       *)
ChangePassword(h) ==
  LET s == handler[h].session IN
  /\ handler[h].pc = "verify"
  /\ \/ /\ rows[s] # NoRow
        /\ Rotate(h, rows[s].user)
     \/ Answer(h)
  /\ UNCHANGED <<now, password, rows, lastCleanup, issued, used>>

(* Variant: the sessions of the user stay. *)
KeepSessions(u) == UNCHANGED rows

DeleteSessionsByUserID(u) ==
  rows' = [s \in Sessions |-> IF rows[s] # NoRow /\ rows[s].user = u THEN NoRow ELSE rows[s]]

(* RotatePassword and SetUserPassword: hash and sessions in one             *)
(* transaction, whatever the hash was.                                      *)
RotatePassword(h) ==
  LET u == handler[h].user IN
  /\ handler[h].pc = "rotate"
  /\ \/ /\ password[u] < MaxRotations
        /\ password' = [password EXCEPT ![u] = @ + 1]
        /\ DeleteSessionsByUserID(u)
     \/ (CallsFail \/ password[u] = MaxRotations) /\ UNCHANGED <<password, rows>>
  /\ Answer(h)
  /\ UNCHANGED <<now, lastCleanup, issued, used>>

Logout(h) ==
  /\ handler[h].pc = "logout"
  /\ DeleteSessionByTokenHash(handler[h].session) \/ Failed
  /\ Answer(h)
  /\ UNCHANGED <<now, password, lastCleanup, issued, used>>

-----------------------------------------------------------------------------
(* Login reads the user and compares the password typed with the hash read. *)
Login(h) ==
  /\ handler[h].pc = "lookup"
  /\ \/ \E u \in Users :
          handler' = [handler EXCEPT ![h] = [Idle EXCEPT !.pc = "insert", !.user = u, !.stamp = now]]
     \/ Answer(h)
  /\ UNCHANGED <<now, password, rows, lastCleanup, issued, used>>

CreateSession(h, s) ==
  LET u == handler[h].user IN
  /\ handler[h].pc = "insert"
  /\ \/ \E t \in Captured(h) :
          /\ issued[s] = None
          /\ rows' = [rows EXCEPT ![s] = [user |-> u, seen |-> t, expires |-> t + TTL]]
          /\ issued' = [issued EXCEPT ![s] = [at |-> t, password |-> password[u]]]
          /\ used' = [used EXCEPT ![s] = t]
     \/ (CallsFail \/ \A r \in Sessions : issued[r] # None) /\ UNCHANGED <<rows, issued, used>>
  /\ Answer(h)
  /\ UNCHANGED <<now, password, lastCleanup>>

-----------------------------------------------------------------------------
Tick ==
  /\ now < MaxTime
  /\ now' = now + 1
  /\ UNCHANGED <<password, rows, lastCleanup, handler, issued, used>>

(* The server dies and starts again with the rows it left.                  *)
Restart ==
  /\ CallsFail
  /\ handler' = [h \in Handlers |-> Idle]
  /\ lastCleanup' = None
  /\ UNCHANGED <<now, password, rows, issued, used>>

Next ==
  \/ Tick \/ Restart
  \/ \E h \in Handlers :
       \/ \E call \in Calls, s \in Sessions \cup {None} : Arrive(h, call, s)
       \/ Sweep(h) \/ ReadForRefresh(h) \/ RefreshSessionIfDue(h)
       \/ StartCall(h) \/ ReadForActor(h) \/ ResolveRequestActor(h)
       \/ ChangePassword(h) \/ RotatePassword(h) \/ Logout(h)
       \/ Login(h)
       \/ \E s \in Sessions : CreateSession(h, s)

Spec == Init /\ [][Next]_vars

-----------------------------------------------------------------------------
(* After a password was changed or reset no session from before is left:    *)
(* every session in the table was created under the password of now, even   *)
(* with requests in flight that read it before the rotation and write after.*)
SessionsOfThisPassword ==
  \A s \in Sessions : rows[s] # NoRow => issued[s].password = password[rows[s].user]

(* An idle session ends: the expiry is never later than the TTL after the   *)
(* login or the last request whose session the middleware found valid,      *)
(* whatever order late renewals and touches are written in.                 *)
IdleSessionEnds ==
  \A s \in Sessions : rows[s] # NoRow => rows[s].expires <= used[s] + TTL

(* A session that was logged out, swept or revoked never comes back.        *)
EndedStaysEnded ==
  [][\A s \in Sessions : issued[s] # None /\ rows[s] = NoRow => rows'[s] = NoRow]_vars

(* A session lives for the TTL after its login unless it is logged out or   *)
(* its user's password changes: neither the sweep, nor a discard on a stale *)
(* copy, nor a touch that undoes a renewal ends it sooner.                  *)
KeptForTTL ==
  [][\A s \in Sessions : rows[s] # NoRow /\ rows'[s] = NoRow =>
       \/ now >= issued[s].at + TTL
       \/ \E h \in Handlers : handler[h].pc = "logout" /\ handler[h].session = s
       \/ password'[rows[s].user] # password[rows[s].user]]_vars

(* What the four properties above rest on: a request that carries a session *)
(* carries one that was created, its stamp lies in the past, and the copy   *)
(* it writes from keeps within the bounds of the row it was read from.      *)
WithCookie == {"refresh", "renew", "actor", "password", "logout", "resolve", "touch", "verify"}

(* A row or a copy of one lives for the TTL from its creation at least, and *)
(* from the last use at most.                                               *)
Bounded(s, row) == issued[s].at + TTL <= row.expires /\ row.expires <= used[s] + TTL

HandlerInOrder(h) ==
  /\ handler[h].stamp <= now
  /\ handler[h].then \in {"idle", "refresh", "resolve", "verify", "login", "lookup"}
  /\ {handler[h].pc, handler[h].then} \cap WithCookie # {} => handler[h].session # None
  /\ handler[h].session # None => issued[handler[h].session] # None
  /\ handler[h].pc \in {"rotate", "insert"} => handler[h].user # None
  /\ handler[h].pc \in {"renew", "touch"} =>
       /\ handler[h].copy # NoRow
       /\ Bounded(handler[h].session, handler[h].copy)
       /\ issued[handler[h].session].at <= handler[h].stamp

RequestsInOrder == \A h \in Handlers : HandlerInOrder(h)

IssuedInThePast == \A s \in Sessions : issued[s] # None => issued[s].at <= now

RowsInOrder ==
  \A s \in Sessions : rows[s] # NoRow =>
    /\ issued[s] # None
    /\ Bounded(s, rows[s])
    /\ issued[s].password = password[rows[s].user]

=============================================================================
