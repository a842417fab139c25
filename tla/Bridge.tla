-------------------------------- MODULE Bridge --------------------------------
(***************************************************************************)
(* Who a request of the bridge runs as (bridge/api.py, bridge/websocket.py *)
(* and the request handlers under them).  A handler object is one          *)
(* connection: an HTTP request lives for one call, a socket for many       *)
(* messages, and keeps its key record, its token and their users between   *)
(* messages.  Steps are what runs between two awaits of the event loop: a  *)
(* lookup in the database can be followed by a disconnect, a revoked key   *)
(* or a disabled user before its handler goes on.  Tornado hands a socket  *)
(* its next message only when on_message returned.  It calls on_close once:*)
(* at the await of prepare() or between two messages, and, so that nothing *)
(* depends on the release, here also at the awaits of open() and           *)
(* on_message.  The key's use counters (use_key) are read by `api_keys     *)
(* list` only and are left out.                                            *)
(***************************************************************************)
EXTENDS Naturals, FiniteSets

CONSTANTS
  Conns,         \* handler objects
  Users,
  Tokens,        \* signed access tokens
  Subject,       \* Subject[t]: the user a token names
  Impersonator,  \* Impersonator[t]: the administrator behind it, or None
  Keys,          \* API keys in the table
  Forged,        \* a key that is not
  None,
  MaxChanges,    \* changes by administrators and clocks
  MaxLapses,     \* how often api_key_recheck_seconds go by
  MaxFaults      \* lookups that raise

\* A row of the table of keys.
Records == [id : Keys, disabled : BOOLEAN, user : Users \cup {None}, may : BOOLEAN]

ASSUME BridgeAssumption ==
  /\ Subject \in [Tokens -> Users]
  /\ Impersonator \in [Tokens -> Users \cup {None}]
  /\ None \notin Users \cup Tokens \cup Keys \cup Records /\ Forged \notin Keys
  /\ "unset" \notin Users \cup {None}   \* the attribute the handler does not have yet
  /\ Users \cap Tokens = {} /\ Users \cap Keys = {} /\ Tokens \cap Keys = {}
  /\ MaxChanges \in Nat /\ MaxLapses \in Nat /\ MaxFaults \in Nat

VARIABLES
  h,        \* h[c]: the handler object and what the connection maps hold of it
  active,   \* users that are neither disabled nor deleted
  live,     \* tokens that have not expired
  row,      \* row[k]: the key's record in the table
  lapsed,   \* keys past their expires_at
  old,      \* users and keys that were out of service when the interval last went by
  changes, lapses, faults

vars == <<h, active, live, row, lapsed, old, changes, lapses, faults>>
world == <<active, live, row, lapsed, old, changes, lapses>>

Messages == [needsKey : BOOLEAN, token : Tokens \cup {None}, key : Keys \cup {Forged, None}]
Awaits == {"prepare", "opening", "recheck", "key", "token", "keyuser"}

\* The message being handled; `said` and `old` are history: the token it came with, and what
\* was out of service when it came.
NoMessage == [needsKey |-> FALSE, token |-> None, key |-> None, said |-> None, old |-> {}]

Handler0(k) ==
  [pc |-> "new", kind |-> k, open |-> TRUE,
   uid |-> FALSE,          \* a uid, and an entry in UserConnections.user_connections
   fan |-> {},             \* the users whose fan-out list holds the connection
   token |-> None, user |-> None, cached |-> "unset", exp |-> FALSE, failed |-> FALSE, authFresh |-> FALSE,
   keyValid |-> "unset", key |-> None, keyFresh |-> FALSE, applied |-> FALSE, keyUser |-> "unset", rejected |-> None,
   msg |-> NoMessage,
   moved |-> FALSE,        \* history: the key came back with another user since the fan-out list was set
   cut |-> FALSE]          \* history: disconnected in prepare(), or a lookup of prepare() or open() raised

Init ==
  /\ \E kind \in [Conns -> {"http", "socket"}] : h = [c \in Conns |-> Handler0(kind[c])]
  /\ active = Users /\ live = Tokens
  /\ row \in [Keys -> {r \in Records : ~r.disabled /\ r.may}] /\ \A k \in Keys : row[k].id = k
  /\ lapsed = {} /\ old = {}
  /\ changes = 0 /\ lapses = 0 /\ faults = 0

\* What the service reads as current_user: tornado keeps the first answer.
CurrentUser(r) == IF r.cached = "unset" THEN r.user ELSE r.cached

-----------------------------------------------------------------------------
(* RequestHandlerBase: the token's user.  The operators take the handler   *)
(* object as it is and return it as the code leaves it.                    *)

\* Mutant: the binding of the connection stays.
ClearUserOnly(r) == [r EXCEPT !.user = None]

\* _clear_current_user and unassign_connection.
Clear(r) == [r EXCEPT !.user = None, !.fan = IF r.uid THEN {} ELSE @]

\* Mutant: the uid of before the lookup is used.
AssignAnyway(r, u) == [r EXCEPT !.fan = {u}, !.moved = FALSE]

\* assign_user_id, for a handler that still has a uid.
Assign(r, u) == [r EXCEPT !.fan = IF r.uid THEN {u} ELSE @, !.moved = FALSE]

\* _ensure_current_user up to the lookup: the signature and the dates of the token.
Ensure(r, t) == [r EXCEPT !.token = t, !.cached = "unset", !.exp = FALSE]
Refused(r, t) == [Clear(Ensure(r, t)) EXCEPT !.authFresh = TRUE]

\* Mutant: the administrator behind an impersonation is not looked up.
LooksUpSubject(r, t) ==
  IF Subject[t] \in active
  THEN [Assign(r, Subject[t]) EXCEPT !.user = Subject[t], !.exp = TRUE, !.authFresh = TRUE]
  ELSE [Clear(r) EXCEPT !.authFresh = TRUE]

\* ... and after it.  t is the token it verified, whatever auth_token is by now.  The two
\* lookups, of the subject and of the administrator, and the stamp of their time are one
\* step: the interval counts from the first of them.
LooksUp(r, t) ==
  IF Subject[t] \in active /\ Impersonator[t] \in active \cup {None}
  THEN [Assign(r, Subject[t]) EXCEPT !.user = Subject[t], !.exp = TRUE, !.authFresh = TRUE]
  ELSE [Clear(r) EXCEPT !.authFresh = TRUE]

\* _auth_stale
AuthStale(r) == r.failed \/ (r.exp /\ r.token \notin live) \/ ~r.authFresh

-----------------------------------------------------------------------------
(* RequestHandlerApiKeys *)

\* api_key_refusal, of the record as it is held.
Refusal(rec) == rec.disabled \/ rec.id \in lapsed

\* has_valid_key_db: no such key, or its state forbids its use.
Accepts(k) == k \in Keys /\ ~Refusal(row[k])
HoldKey(r, k) == [r EXCEPT !.key = row[k], !.keyFresh = TRUE, !.keyUser = "unset", !.keyValid = "yes"]

\* The end of a message or call, with or without an error (the finally of on_message).
Reply(r) == [r EXCEPT !.pc = IF r.open /\ r.kind = "socket" THEN "idle" ELSE "gone", !.msg = NoMessage]

\* Mutant: the user of the key is applied beside a token.
ApplyKeyUserAlways(r) ==
  IF r.key = None \/ r.key.user = None THEN [r EXCEPT !.pc = "serve"]
  ELSE IF r.keyUser = "unset" THEN [r EXCEPT !.pc = "keyuser"]
  ELSE IF r.keyUser = None THEN Reply(Clear(r))
  ELSE [Assign(r, r.keyUser) EXCEPT !.user = r.keyUser, !.cached = "unset", !.applied = TRUE, !.pc = "serve"]

\* _apply_api_key_user: any token presented wins.
ApplyKeyUser(r) ==
  IF r.key = None \/ r.key.user = None \/ r.token # None THEN [r EXCEPT !.pc = "serve"]
  ELSE IF r.keyUser = "unset" THEN [r EXCEPT !.pc = "keyuser"]
  ELSE IF r.keyUser = None THEN Reply(Clear(r))
  ELSE [Assign(r, r.keyUser) EXCEPT !.user = r.keyUser, !.cached = "unset", !.applied = TRUE, !.pc = "serve"]

\* enforce_api_key, for a service that requires a key, and then the service.
Enforce(r) ==
  IF ~r.msg.needsKey THEN [r EXCEPT !.pc = "serve"]
  ELSE IF ~r.key.may THEN Reply(r)
  ELSE ApplyKeyUser(r)

-----------------------------------------------------------------------------
(* BaseWebSocketHandler.on_message, after the recheck of the key *)

\* reload_token with the token of the message, or the standing one.
ReloadToken(r) ==
  LET t == IF r.msg.token # None THEN r.msg.token ELSE r.token
  IN  IF t = None \/ (t = r.token /\ ~AuthStale(r)) THEN Enforce(r)
      ELSE IF t \notin live THEN Enforce([Refused(r, t) EXCEPT !.failed = FALSE])
      ELSE [Ensure(r, t) EXCEPT !.pc = "token", !.msg.token = t]

\* The key of the handshake, or else of the message.
CheckKey(r, refused) ==
  IF ~r.msg.needsKey THEN ReloadToken(r)
  ELSE IF refused THEN Reply(r)
  ELSE IF r.keyValid = "unset" /\ r.msg.key \notin {None, r.rejected} THEN [r EXCEPT !.pc = "key"]
  ELSE IF r.keyValid # "yes" THEN Reply(r)
  ELSE ReloadToken(r)

\* Mutant: the record of a refused key is kept.
ForgetValidOnly(r) ==
  LET f == [r EXCEPT !.keyValid = "no"]
  IN  CheckKey(IF r.token = None THEN Clear(f) ELSE f, TRUE)

\* The end of _recheck_api_key when the key was refused.
Forget(r) ==
  LET f == [r EXCEPT !.keyValid = "no", !.key = None]
  IN  CheckKey(IF r.token = None THEN Clear(f) ELSE f, TRUE)

\* Mutant: the user of the key goes, what current_user answered stays.
DropKeyUserOnly(r) == IF r.applied THEN [r EXCEPT !.applied = FALSE, !.user = None] ELSE r

\* _drop_api_key_user
DropKeyUser(r) == IF r.applied THEN [r EXCEPT !.applied = FALSE, !.user = None, !.cached = "unset"] ELSE r

-----------------------------------------------------------------------------
(* A step of a handler sets h[c] and touches nothing else. *)

Becomes(c, r) == h' = [h EXCEPT ![c] = r] /\ UNCHANGED <<world, faults>>

\* What was out of service for the whole interval, or expired, as the message came in.
OutOfService == old \cup lapsed \cup (Tokens \ live)
With(r, m) ==
  [r EXCEPT !.msg = [needsKey |-> m.needsKey, token |-> m.token, key |-> m.key,
                     said |-> IF m.token # None THEN m.token ELSE r.token, old |-> OutOfService]]

\* tornado's prepare(), for both kinds: the token of the Authorization header.
Prepare(c, m) ==
  LET r == With(h[c], m)
      next == IF r.kind = "http" THEN "call" ELSE "accept"
  IN  /\ h[c].pc = "new"
      /\ Becomes(c, IF m.token = None THEN [r EXCEPT !.cached = "unset", !.authFresh = TRUE, !.pc = next]
                    ELSE IF m.token \notin live THEN [Refused(r, m.token) EXCEPT !.pc = next]
                    ELSE [Ensure(r, m.token) EXCEPT !.pc = "prepare"])

Prepared(c) ==
  /\ h[c].pc = "prepare"
  /\ Becomes(c, [LooksUp(h[c], h[c].msg.token) EXCEPT !.pc = IF h[c].kind = "http" THEN "call" ELSE "accept"])

\* ApiHandler.get_v1: the key, if the service wants one.
Call(c) ==
  /\ h[c].pc = "call"
  /\ Becomes(c, IF ~h[c].msg.needsKey THEN Enforce(h[c])
                ELSE IF h[c].msg.key = None THEN Reply(h[c])
                ELSE [h[c] EXCEPT !.pc = "key"])

\* open(): registered first, then the key of the handshake is checked.
Open(c) ==
  /\ h[c].pc = "accept"
  /\ LET r == [h[c] EXCEPT !.uid = TRUE]
     IN  Becomes(c, IF r.msg.key = None THEN Reply(r) ELSE [r EXCEPT !.pc = "opening"])

Opened(c) ==
  LET k == h[c].msg.key
  IN  /\ h[c].pc = "opening"
      /\ Becomes(c, Reply(IF Accepts(k) THEN HoldKey(h[c], k) ELSE [h[c] EXCEPT !.keyValid = "no"]))

\* on_message up to the first await.
Receive(c, m) ==
  LET r == With(DropKeyUser(h[c]), m)
  IN  /\ h[c].pc = "idle"
      /\ Becomes(c, IF r.key = None THEN CheckKey(r, FALSE)
                    ELSE IF ~r.keyFresh THEN [r EXCEPT !.pc = "recheck"]
                    ELSE IF r.key.id \in lapsed THEN Forget(r)
                    ELSE CheckKey(r, FALSE))

\* Mutant: the user that was loaded for the key is kept.
RecheckedKeepsUser(c) ==
  LET f == row[h[c].key.id]
      r == [h[c] EXCEPT !.keyFresh = TRUE, !.key = f, !.moved = @ \/ f.user # h[c].key.user]
  IN  /\ h[c].pc = "recheck"
      /\ Becomes(c, IF Refusal(f) THEN Forget(r) ELSE CheckKey(r, FALSE))

\* _recheck_api_key: the record as it is in the table now.
Rechecked(c) ==
  LET f == row[h[c].key.id]
      r == [h[c] EXCEPT !.keyFresh = TRUE, !.keyUser = "unset", !.key = f,
                        !.moved = @ \/ f.user # h[c].key.user]
  IN  /\ h[c].pc = "recheck"
      /\ Becomes(c, IF Refusal(f) THEN Forget(r) ELSE CheckKey(r, FALSE))

\* has_valid_api_key answered, for the message of a socket or for a call.
KeyAnswered(c) ==
  LET k == h[c].msg.key
      next(r) == IF r.kind = "http" THEN Enforce(r) ELSE ReloadToken(r)
  IN  /\ h[c].pc = "key"
      /\ Becomes(c, IF Accepts(k) THEN next(HoldKey(h[c], k)) ELSE Reply([h[c] EXCEPT !.rejected = k]))

\* reload_token: the lookup answered.
TokenAnswered(c) ==
  /\ h[c].pc = "token"
  /\ Becomes(c, Enforce([LooksUp(h[c], h[c].msg.token) EXCEPT !.failed = FALSE]))

\* load_user_by_id answered.
KeyUserAnswered(c) ==
  LET u == h[c].key.user
      r == [h[c] EXCEPT !.keyUser = IF u \in active THEN u ELSE None]
  IN  /\ h[c].pc = "keyuser"
      /\ Becomes(c, IF r.keyUser = None THEN Reply(Clear(r))
                    ELSE [Assign(r, u) EXCEPT !.user = u, !.cached = "unset", !.applied = TRUE, !.pc = "serve"])

\* The service ran; it may have read current_user.
Served(c) ==
  /\ h[c].pc = "serve"
  /\ \/ Becomes(c, Reply(h[c]))
     \/ Becomes(c, Reply([h[c] EXCEPT !.cached = CurrentUser(h[c])]))

\* A lookup raised: the reply is an error, and a socket lives on.  In prepare() the request
\* ends; in open() tornado drops the connection and never calls on_close.
LookupFails(c) ==
  /\ h[c].pc \in Awaits /\ faults < MaxFaults
  /\ faults' = faults + 1
  /\ h' = [h EXCEPT ![c] = CASE @.pc \in {"prepare", "opening"} ->
                                  [@ EXCEPT !.pc = "gone", !.open = FALSE, !.cut = TRUE]
                            [] @.pc = "token" -> Reply([Clear(@) EXCEPT !.failed = TRUE])
                            [] OTHER -> Reply(@)]
  /\ UNCHANGED world

\* Mutant: the uid goes and its entries stay.
OnCloseUidOnly(c) ==
  /\ h[c].kind = "socket" /\ h[c].open /\ (h[c].uid \/ h[c].pc = "prepare")
  /\ Becomes(c, [h[c] EXCEPT !.open = FALSE, !.uid = FALSE, !.token = None, !.cached = None,
                             !.cut = @ \/ h[c].pc = "prepare", !.pc = IF @ = "idle" THEN "gone" ELSE @])

\* on_close, once.  Called in prepare() it finds no uid, and open() runs all the same.
OnClose(c) ==
  /\ h[c].kind = "socket" /\ h[c].open /\ (h[c].uid \/ h[c].pc = "prepare")
  /\ Becomes(c, [h[c] EXCEPT !.open = FALSE, !.uid = FALSE, !.fan = {}, !.token = None, !.cached = None,
                             !.cut = @ \/ h[c].pc = "prepare", !.pc = IF @ = "idle" THEN "gone" ELSE @])

-----------------------------------------------------------------------------
(* Administrators and clocks *)

Change == changes < MaxChanges /\ changes' = changes + 1 /\ UNCHANGED <<h, lapses, faults>>

\* api_keys revoke
CmdRevoke(k) ==
  /\ ~row[k].disabled /\ Change
  /\ row' = [row EXCEPT ![k].disabled = TRUE]
  /\ UNCHANGED <<active, live, lapsed, old>>

\* api_keys update, of the user and of the abilities.
CmdUpdate(k, u, may) ==
  /\ <<u, may>> # <<row[k].user, row[k].may>> /\ Change
  /\ row' = [row EXCEPT ![k].user = u, ![k].may = may]
  /\ UNCHANGED <<active, live, lapsed, old>>

KeyExpires(k) == k \notin lapsed /\ Change /\ lapsed' = lapsed \cup {k} /\ UNCHANGED <<active, live, row, old>>
TokenExpires(t) == t \in live /\ Change /\ live' = live \ {t} /\ UNCHANGED <<active, row, lapsed, old>>
DisableUser(u) == u \in active /\ Change /\ active' = active \ {u} /\ UNCHANGED <<live, row, lapsed, old>>

\* api_key_recheck_seconds go by.
Lapse ==
  /\ lapses < MaxLapses /\ lapses' = lapses + 1
  /\ h' = [c \in Conns |-> [h[c] EXCEPT !.keyFresh = FALSE, !.authFresh = FALSE]]
  /\ old' = (Users \ active) \cup {k \in Keys : row[k].disabled}
  /\ UNCHANGED <<active, live, row, lapsed, changes, faults>>

Handle(c) ==
  \/ Prepared(c) \/ Call(c) \/ Open(c) \/ Opened(c) \/ Rechecked(c) \/ KeyAnswered(c)
  \/ TokenAnswered(c) \/ KeyUserAnswered(c) \/ Served(c)

Next ==
  \/ \E c \in Conns : Handle(c) \/ LookupFails(c) \/ OnClose(c)
  \/ \E c \in Conns, m \in Messages : Prepare(c, m) \/ Receive(c, m)
  \/ \E k \in Keys : CmdRevoke(k) \/ KeyExpires(k)
  \/ \E k \in Keys, u \in Users \cup {None}, may \in BOOLEAN : CmdUpdate(k, u, may)
  \/ \E t \in Tokens : TokenExpires(t)
  \/ \E u \in Users : DisableUser(u)
  \/ Lapse

Spec == Init /\ [][Next]_vars

-----------------------------------------------------------------------------
(* Properties *)

\* The shape of the state, and that only a socket has a uid.
TypeOK ==
  /\ \A c \in Conns :
       LET r == h[c]
       IN  /\ r.pc \in Awaits \cup {"new", "call", "accept", "idle", "serve", "gone"}
           /\ r.fan \subseteq Users /\ r.token \in Tokens \cup {None} /\ r.user \in Users \cup {None}
           /\ r.cached \in Users \cup {None, "unset"} /\ r.keyUser \in Users \cup {None, "unset"}
           /\ r.key \in Records \cup {None} /\ r.keyValid \in {"unset", "yes", "no"}
           /\ r.keyValid = "yes" <=> r.key # None
           /\ r.uid => r.kind = "socket"
  /\ row \in [Keys -> Records] /\ active \subseteq Users /\ live \subseteq Tokens /\ lapsed \subseteq Keys
  /\ changes <= MaxChanges /\ lapses <= MaxLapses /\ faults <= MaxFaults

\* A closed socket is in no user's fan-out list, even when on_close ran while a message was
\* waiting for the database and went on afterwards; and it has left the map of connections
\* unless it was cut off before open() had returned, which is the one way to stay in there.
NoGhost == \A c \in Conns : ~h[c].open => h[c].fan = {} /\ (h[c].uid => h[c].cut)

\* assign_user_id: "A connection belongs to exactly one user at a time", and between two
\* messages it is the user of the standing token or, without a token, of the key held, or of
\* that key as it was before its record came back with another user.
FanBacked ==
  \A c \in Conns, u \in Users :
    h[c].pc = "idle" /\ u \in h[c].fan =>
      /\ h[c].fan = {u}
      /\ IF h[c].token # None THEN Subject[h[c].token] = u
         ELSE h[c].key # None /\ (h[c].key.user = u \/ h[c].moved)

\* The maps of the connection manager hold a handler while it has a right to be there: while
\* it is open, and under the user that a credential it holds stands for.
MapsBacked == TypeOK /\ NoGhost /\ FanBacked

\* What was revoked or disabled a whole recheck interval before a message came in, or had
\* expired by then, does not serve it: neither the key, nor the token, nor the user either
\* stands for, nor the administrator behind an impersonation.  (checked_at is stamped when
\* the lookups are back, so by the clock the bound is the interval and their duration.)
ServedFresh ==
  \A c \in Conns :
    LET r == h[c]
        u == CurrentUser(r)
    IN  r.pc = "serve" =>
          /\ r.msg.needsKey => r.key.id \notin r.msg.old
          /\ u # None => u \notin r.msg.old
          /\ u # None /\ r.token # None => {r.token, Impersonator[r.token]} \cap r.msg.old = {}

\* _apply_api_key_user: "Any token presented wins, valid or not": a message that comes with
\* a token, its own or the standing one, is served as the user of that token or as nobody.
TokenWins ==
  \A c \in Conns :
    h[c].pc = "serve" /\ h[c].open /\ h[c].msg.said # None =>
      CurrentUser(h[c]) \in {None, Subject[h[c].msg.said]}

\* The service sees the user that this message established, not one that current_user
\* answered earlier in the life of the socket.
SeesCurrent == \A c \in Conns : h[c].pc = "serve" /\ h[c].open => CurrentUser(h[c]) = h[c].user

\* A service runs as the user that this very message stands for.
ServedAsSaid == TokenWins /\ SeesCurrent

\* _ensure_current_user tags the connection "so per-user pushes can reach them": an open
\* socket whose standing token made it a user's is in that user's fan-out list.
TokenUserReachable ==
  \A c \in Conns :
    h[c].pc = "idle" /\ h[c].token # None /\ CurrentUser(h[c]) # None => CurrentUser(h[c]) \in h[c].fan

\* _recheck_api_key: "so revoking or narrowing a key reaches an open socket": a socket whose
\* key no longer stands for a user has left that user's list.
NarrowedKeyReaches ==
  \A c \in Conns, u \in Users :
    h[c].pc = "idle" /\ h[c].token = None /\ h[c].key # None /\ u \in h[c].fan => h[c].key.user = u

\* A socket that ended is not among the connections any more; `WBConnectionManager` takes
\* out of user_connections only what on_close removes.
ClosedLeaves == \A c \in Conns : h[c].pc = "gone" => ~h[c].uid

\* TokenWins for sockets that closed under the message as well.
TokenWinsAlways ==
  \A c \in Conns :
    h[c].pc = "serve" /\ h[c].msg.said # None => CurrentUser(h[c]) \in {None, Subject[h[c].msg.said]}
=============================================================================
