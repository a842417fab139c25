----------------------------- MODULE BridgeProofs -----------------------------
(***************************************************************************)
(* Theorems about Bridge, for every set of connections, users, tokens and  *)
(* keys, and any number of changes and lookups that fail.                  *)
(*                                                                         *)
(* A step of a handler is a function of its record, so the invariant is a  *)
(* predicate of one record (Good): what has been established about the    *)
(* credentials by the time it waits at each await.  The lemmas follow the  *)
(* calls of the code: what a record must satisfy to enter ReloadToken,     *)
(* Enforce and ApplyKeyUser, and that it is Good when they return.  The    *)
(* administrators and the clocks only ever take service away, which is     *)
(* why a message may be judged by what was out of service when it came.    *)
(***************************************************************************)
EXTENDS Bridge, TLAPS

Pcs == Awaits \cup {"new", "call", "accept", "idle", "serve", "gone"}

\* A message in a handler's hands, with its history.
Carried ==
  [needsKey : BOOLEAN, token : Tokens \cup {None}, key : Keys \cup {Forged, None},
   said : Tokens \cup {None}, old : SUBSET (Users \cup Tokens \cup Keys)]

Handlers ==
  [pc : Pcs, kind : {"http", "socket"}, open : BOOLEAN, uid : BOOLEAN, fan : SUBSET Users,
   token : Tokens \cup {None}, user : Users \cup {None}, cached : Users \cup {None, "unset"},
   exp : BOOLEAN, failed : BOOLEAN, authFresh : BOOLEAN,
   keyValid : {"unset", "yes", "no"}, key : Records \cup {None}, keyFresh : BOOLEAN, applied : BOOLEAN,
   keyUser : Users \cup {None, "unset"}, rejected : Keys \cup {Forged, None}, msg : Carried,
   moved : BOOLEAN, cut : BOOLEAN]

-----------------------------------------------------------------------------
(* What is out of service stays out of service. *)

WorldOK ==
  /\ active \subseteq Users /\ live \subseteq Tokens /\ lapsed \subseteq Keys
  /\ row \in [Keys -> Records] /\ \A k \in Keys : row[k].id = k
  /\ old \subseteq Users \cup Keys
  /\ old \cap active = {} /\ \A k \in Keys \cap old : row[k].disabled
  /\ changes \in 0..MaxChanges /\ lapses \in 0..MaxLapses /\ faults \in 0..MaxFaults

-----------------------------------------------------------------------------
(* What holds of a handler wherever it is *)

\* A record in a map is that of an open socket, or of one that was cut off and is in no
\* fan-out list; a record that the cache of current_user does not agree with is closed; the
\* user loaded for a key is the user of the record held.
Shaped(r) ==
  /\ r \in Handlers
  /\ r.keyValid = "yes" <=> r.key # None
  /\ r.uid => (r.open \/ r.cut) /\ r.kind = "socket"
  /\ r.cut => ~r.open
  /\ r.fan # {} => r.uid /\ r.open
  /\ r.keyUser \in Users /\ r.key # None => r.keyUser = r.key.user
  /\ r.cached \in {"unset", None, r.user}
  /\ r.open => r.cached \in {"unset", r.user}
  /\ r.applied => r.token = None

\* A credential that counts as fresh was in service after the interval last went by.
FreshKey(r, out) ==
  r.keyFresh /\ r.key # None => r.key.id \notin out /\ (r.keyUser \in Users => r.keyUser \notin out)
FreshToken(r, out) ==
  r.authFresh /\ r.exp /\ r.token # None => Subject[r.token] \notin out /\ Impersonator[r.token] \notin out
Fresh(r, out) == FreshKey(r, out) /\ FreshToken(r, out)

\* The user is the token's or the key's, and so is the entry in the fan-out lists.
Backed(r) ==
  /\ r.token # None /\ r.user # None => r.exp /\ r.user = Subject[r.token]
  /\ r.open /\ r.token = None /\ ~r.applied => r.user = None
  /\ r.fan # {} => IF r.token # None THEN r.fan = {Subject[r.token]}
                   ELSE r.key # None /\ \E u \in Users : r.fan = {u} /\ (r.key.user = u \/ r.moved)

-----------------------------------------------------------------------------
(* What holds on the way of a message *)

Entered(r) == r.open /\ r.kind = "socket" => r.uid
Registered(r) == Entered(r) /\ (r.uid => r.open)
Keyed(r) == r.msg.needsKey => r.key # None

\* The key and its user, and the user the service would see, were in service.
KeyServes(r) == r.key # None => r.key.id \notin r.msg.old /\ (r.keyUser \in Users => r.keyUser \notin r.msg.old)
UserServes(r) ==
  CurrentUser(r) # None =>
    /\ CurrentUser(r) \notin r.msg.old
    /\ r.token # None => r.token \notin r.msg.old /\ Impersonator[r.token] \notin r.msg.old

\* Up to reload_token the token is still to come; a close forgets the standing one.
Asks(r) ==
  /\ r.kind = "socket" /\ ~r.applied /\ Backed(r) /\ Registered(r)
  /\ r.open => r.msg.said = IF r.msg.token # None THEN r.msg.token ELSE r.token
  /\ ~r.open => r.cached = None /\ r.token = None

\* After it only the user of the key may.
Serves(r) ==
  /\ Backed(r) /\ Registered(r) /\ Keyed(r) /\ KeyServes(r) /\ UserServes(r)
  /\ IF r.open THEN r.msg.said = r.token ELSE r.cached \in {"unset", None}

\* A token is being looked up.
LooksFor(r) ==
  /\ r.msg.token # None /\ r.token \in {None, r.msg.token} /\ r.msg.token \notin r.msg.old
  /\ ~r.exp /\ ~r.applied
  /\ r.open => r.token = r.msg.token /\ r.msg.said = r.token
  /\ r.cached = IF r.token = None THEN None ELSE "unset"

\* Before a socket is registered and after a call was, there is no key yet.
Keyless(r) == r.key = None /\ ~r.applied /\ Backed(r)

Reached(r) ==
  /\ r.pc = "new" => Keyless(r) /\ r.open /\ ~r.uid /\ r.token = None /\ r.cached = "unset"
  /\ r.pc = "prepare" => /\ Keyless(r) /\ LooksFor(r) /\ ~r.uid /\ r.user = None
                         /\ r.open \/ (r.kind = "socket" /\ r.cut)
  /\ r.pc = "call" => Keyless(r) /\ UserServes(r) /\ r.open /\ r.msg.said = r.token /\ r.kind = "http"
  /\ r.pc = "accept" => Keyless(r) /\ (r.open \/ r.cut) /\ ~r.uid /\ r.kind = "socket"
  /\ r.pc = "opening" => Keyless(r) /\ Entered(r) /\ r.kind = "socket" /\ r.fan = {}
  /\ r.pc = "idle" => Backed(r) /\ r.open /\ r.uid
  /\ r.pc = "recheck" => Asks(r) /\ r.key # None
  /\ r.pc = "key" => /\ Keyless(r)
                     /\ IF r.kind = "socket" THEN Asks(r)
                        ELSE UserServes(r) /\ r.open /\ r.msg.said = r.token
  /\ r.pc = "token" => LooksFor(r) /\ Registered(r) /\ Keyed(r) /\ KeyServes(r) /\ r.kind = "socket"
  /\ r.pc = "keyuser" => Serves(r) /\ ~r.applied /\ r.token = None /\ r.key # None /\ r.key.user # None
  /\ r.pc = "serve" => Serves(r)
  /\ r.pc = "gone" => ~(r.uid /\ r.open)

Good(r, out) == Shaped(r) /\ Fresh(r, out) /\ Reached(r)

Fits(r) == Good(r, old) /\ r.msg.old \subseteq OutOfService

BridgeInv == WorldOK /\ h = [c \in Conns |-> h[c]] /\ \A c \in Conns : Fits(h[c])

-----------------------------------------------------------------------------
(* The world *)

LEMMA InServiceIsNotOut ==
  ASSUME WorldOK
  PROVE  /\ \A u \in active : u \notin OutOfService
         /\ \A t \in live : t \notin OutOfService
         /\ \A k \in Keys : Accepts(k) => k \notin OutOfService
         /\ None \notin OutOfService
         /\ OutOfService \subseteq Users \cup Tokens \cup Keys
<1>1. Users \cap Tokens = {} /\ Users \cap Keys = {} /\ Tokens \cap Keys = {}
  BY BridgeAssumption DEF BridgeAssumption
<1>2. None \notin Users \cup Tokens \cup Keys
  BY BridgeAssumption DEF BridgeAssumption
<1>3. \A k \in Keys : Accepts(k) => k \notin old /\ k \notin lapsed
  BY DEF WorldOK, Accepts, Refusal
<1> QED
  BY <1>1, <1>2, <1>3 DEF WorldOK, OutOfService

\* Its converse: what is accepted now was not out when the interval went by.
LEMMA InServiceIsNotOld ==
  ASSUME WorldOK
  PROVE  /\ \A u \in active \cup {None} : u \notin old
         /\ \A k \in Keys : ~row[k].disabled => k \notin old
BY BridgeAssumption DEF BridgeAssumption, WorldOK

-----------------------------------------------------------------------------
(* The operators of a handler, in the order of the calls *)

\* s is r at another place.
Like(s, r) ==
  /\ s \in Handlers
  /\ s.kind = r.kind /\ s.open = r.open /\ s.uid = r.uid /\ s.fan = r.fan /\ s.token = r.token
  /\ s.user = r.user /\ s.cached = r.cached /\ s.exp = r.exp /\ s.authFresh = r.authFresh
  /\ s.keyValid = r.keyValid /\ s.key = r.key /\ s.keyFresh = r.keyFresh /\ s.applied = r.applied
  /\ s.keyUser = r.keyUser /\ s.cut = r.cut /\ s.moved = r.moved

LEMMA MoveIsLike ==
  ASSUME NEW r \in Handlers, NEW p \in Pcs
  PROVE  Like([r EXCEPT !.pc = p], r) /\ [r EXCEPT !.pc = p].pc = p /\ [r EXCEPT !.pc = p].msg = r.msg
BY DEF Like, Handlers

LEMMA LikeKeeps ==
  ASSUME NEW r, NEW s, NEW out, Like(s, r)
  PROVE  /\ Shaped(r) => Shaped(s)
         /\ Fresh(r, out) => Fresh(s, out)
         /\ Backed(r) => Backed(s)
         /\ Entered(r) => Entered(s)
         /\ Registered(r) => Registered(s)
<1>1. Shaped(r) => Shaped(s)
  BY DEF Like, Shaped
<1>2. Fresh(r, out) => Fresh(s, out)
  BY DEF Like, Fresh, FreshKey, FreshToken
<1>3. (Backed(r) => Backed(s)) /\ (Entered(r) => Entered(s)) /\ (Registered(r) => Registered(s))
  BY DEF Like, Backed, Registered, Entered
<1> QED
  BY <1>1, <1>2, <1>3

LEMMA LikeMessageKeeps ==
  ASSUME NEW r, NEW s, Like(s, r), s.msg = r.msg
  PROVE  /\ Serves(r) => Serves(s)
         /\ Asks(r) => Asks(s)
         /\ LooksFor(r) => LooksFor(s)
         /\ UserServes(r) => UserServes(s)
         /\ KeyServes(r) => KeyServes(s)
<1>1. (UserServes(r) => UserServes(s)) /\ (KeyServes(r) => KeyServes(s)) /\ (Keyed(r) => Keyed(s))
  BY DEF Like, UserServes, KeyServes, CurrentUser, Keyed
<1>2. (Backed(r) => Backed(s)) /\ (Registered(r) => Registered(s))
  BY LikeKeeps
<1>3. Serves(r) => Serves(s)
  BY <1>1, <1>2 DEF Like, Serves
<1>4. Asks(r) => Asks(s)
  BY <1>2 DEF Like, Asks
<1>5. LooksFor(r) => LooksFor(s)
  BY DEF Like, LooksFor
<1> QED
  BY <1>1, <1>3, <1>4, <1>5

\* The end of a message.
LEMMA ReplyEntered ==
  ASSUME NEW r, Shaped(r), Fresh(r, old), Entered(r), Backed(r)
  PROVE  Fits(Reply(r))
<1> DEFINE p == IF r.open /\ r.kind = "socket" THEN "idle" ELSE "gone"
           s == Reply(r)
<1>1. NoMessage \in Carried /\ NoMessage.old = {}
  BY DEF NoMessage, Carried
<1>2. p \in Pcs /\ r \in Handlers /\ s = [r EXCEPT !.pc = p, !.msg = NoMessage]
  BY DEF Pcs, Reply, Shaped
<1>3. p \in {"idle", "gone"} /\ (p = "idle" <=> r.open /\ r.kind = "socket")
  OBVIOUS
<1> HIDE DEF p, s
<1>4. Like(s, r) /\ s.pc = p /\ s.msg = NoMessage
  BY <1>1, <1>2 DEF Handlers, Like
<1>5. Shaped(s) /\ Fresh(s, old) /\ Backed(s) /\ Entered(s)
  BY <1>4, LikeKeeps
<1>6. Reached(s)
  BY <1>3, <1>4, <1>5 DEF Reached, Entered, Shaped, Like
<1> QED
  BY <1>1, <1>4, <1>5, <1>6 DEF Good, Fits, s

LEMMA ReplyGood ==
  ASSUME NEW r, Shaped(r), Fresh(r, old), Registered(r), Backed(r)
  PROVE  Fits(Reply(r))
BY ReplyEntered DEF Registered

\* The service is about to run.
LEMMA ServeGood ==
  ASSUME NEW r, Shaped(r), Fresh(r, old), Serves(r), r.msg.old \subseteq OutOfService
  PROVE  Fits([r EXCEPT !.pc = "serve"])
<1>1. PICK s : s = [r EXCEPT !.pc = "serve"]
  OBVIOUS
<1>2. Like(s, r) /\ s.pc = "serve" /\ s.msg = r.msg
  BY <1>1, MoveIsLike DEF Shaped, Pcs
<1>3. Shaped(s) /\ Fresh(s, old) /\ Serves(s)
  BY <1>2, LikeKeeps, LikeMessageKeeps
<1> QED
  BY <1>1, <1>2, <1>3 DEF Fits, Good, Reached

\* _clear_current_user takes the connection out of the lists.
LEMMA ClearKeeps ==
  ASSUME NEW r, Shaped(r), Fresh(r, old), r.cached \in {"unset", None}
  PROVE  /\ Shaped(Clear(r)) /\ Fresh(Clear(r), old) /\ Backed(Clear(r))
         /\ Registered(r) => Registered(Clear(r))
         /\ Clear(r).user = None /\ Clear(r).fan = {}
         /\ Clear(r) = [r EXCEPT !.user = None, !.fan = {}]
<1>1. r \in Handlers /\ (~r.uid => r.fan = {})
  BY DEF Shaped
<1>2. Clear(r) = [r EXCEPT !.user = None, !.fan = {}]
  BY <1>1 DEF Clear, Handlers
<1>3. PICK s : s = [r EXCEPT !.user = None, !.fan = {}]
  OBVIOUS
<1>4. /\ s \in Handlers /\ s.user = None /\ s.fan = {}
      /\ s.kind = r.kind /\ s.open = r.open /\ s.uid = r.uid /\ s.token = r.token
      /\ s.cached = r.cached /\ s.exp = r.exp /\ s.authFresh = r.authFresh
      /\ s.keyValid = r.keyValid /\ s.key = r.key /\ s.keyFresh = r.keyFresh /\ s.applied = r.applied
      /\ s.keyUser = r.keyUser /\ s.cut = r.cut /\ s.moved = r.moved
  BY <1>1, <1>3 DEF Handlers
<1>5. Shaped(s)
  BY <1>4 DEF Shaped
<1>6. Fresh(s, old) /\ Backed(s) /\ (Registered(r) => Registered(s))
  BY <1>4 DEF Fresh, FreshKey, FreshToken, Backed, Registered, Entered
<1> QED
  BY <1>2, <1>3, <1>4, <1>5, <1>6

-----------------------------------------------------------------------------
(* _apply_api_key_user and enforce_api_key *)

\* A record that may be served as the user of its key.
AsksKeyUser(r) == Serves(r) /\ ~r.applied /\ r.token = None /\ r.key # None

\* The handler once u, the user of the key, is known.
AsKeyUser(r, u) ==
  [Assign(r, u) EXCEPT !.user = u, !.cached = "unset", !.applied = TRUE, !.pc = "serve"]

LEMMA ServedAsTyped ==
  ASSUME NEW r \in Handlers, NEW f \in SUBSET Users, NEW u \in Users
  PROVE  [r EXCEPT !.fan = f, !.moved = FALSE, !.user = u, !.cached = "unset", !.applied = TRUE, !.pc = "serve"]
           \in Handlers
<1>1. PICK a : a = [r EXCEPT !.fan = f, !.moved = FALSE, !.user = u]
  OBVIOUS
<1>2. a \in Handlers
  BY <1>1 DEF Handlers
<1>3. "serve" \in Pcs
  BY DEF Pcs
<1>4. PICK b : b = [a EXCEPT !.cached = "unset", !.applied = TRUE]
  OBVIOUS
<1>5. b \in Handlers
  BY <1>2, <1>4 DEF Handlers
<1>6. [b EXCEPT !.pc = "serve"] \in Handlers
  BY <1>3, <1>5 DEF Handlers
<1> QED
  BY <1>1, <1>4, <1>6

LEMMA AsKeyUserGood ==
  ASSUME NEW r, Shaped(r), Fresh(r, old), AsksKeyUser(r), r.msg.old \subseteq OutOfService,
         NEW u \in Users, u \notin r.msg.old, u = r.key.user
  PROVE  Fits(AsKeyUser(r, u))
<1>1. r \in Handlers /\ (~r.uid => r.fan = {})
  BY DEF Shaped
<1>2. PICK f : f = IF r.uid THEN {u} ELSE {}
  OBVIOUS
<1>3. PICK s : s = AsKeyUser(r, u)
  OBVIOUS
<1>4. s = [r EXCEPT !.fan = f, !.moved = FALSE, !.user = u, !.cached = "unset", !.applied = TRUE,
                    !.pc = "serve"]
  BY <1>1, <1>2, <1>3 DEF AsKeyUser, Assign, Handlers
<1>5. f \in SUBSET Users /\ "serve" \in Pcs
  BY <1>2 DEF Pcs
<1>6. /\ s \in Handlers /\ s.pc = "serve" /\ s.fan = f /\ s.user = u /\ s.cached = "unset" /\ s.applied
      /\ s.kind = r.kind /\ s.open = r.open /\ s.uid = r.uid /\ s.token = r.token
      /\ s.exp = r.exp /\ s.authFresh = r.authFresh
      /\ s.keyValid = r.keyValid /\ s.key = r.key /\ s.keyFresh = r.keyFresh
      /\ s.keyUser = r.keyUser /\ s.cut = r.cut /\ s.moved = FALSE /\ s.msg = r.msg
  <2>1. s \in Handlers
    BY <1>1, <1>4, <1>5, ServedAsTyped
  <2>2. s.pc = "serve" /\ s.fan = f /\ s.user = u /\ s.cached = "unset" /\ s.applied /\ s.moved = FALSE
    BY <1>1, <1>4 DEF Handlers
  <2>3. /\ s.kind = r.kind /\ s.open = r.open /\ s.uid = r.uid /\ s.token = r.token
        /\ s.exp = r.exp /\ s.authFresh = r.authFresh
    BY <1>1, <1>4 DEF Handlers
  <2>4. /\ s.keyValid = r.keyValid /\ s.key = r.key /\ s.keyFresh = r.keyFresh
        /\ s.keyUser = r.keyUser /\ s.cut = r.cut /\ s.msg = r.msg
    BY <1>1, <1>4 DEF Handlers
  <2> QED
    BY <2>1, <2>2, <2>3, <2>4
<1>0. r.uid => r.open
  BY DEF AsksKeyUser, Serves, Registered
<1>7. Shaped(s) /\ Fresh(s, old)
  BY <1>0, <1>2, <1>6 DEF Shaped, Fresh, FreshKey, FreshToken, AsksKeyUser
<1>8. Backed(s) /\ Registered(s) /\ Keyed(s) /\ KeyServes(s)
  BY <1>2, <1>6 DEF AsksKeyUser, Serves, Backed, Registered, Entered, Keyed, KeyServes
<1>9. UserServes(s)
  BY <1>6 DEF UserServes, CurrentUser, AsksKeyUser
<1> QED
  BY <1>3, <1>6, <1>7, <1>8, <1>9 DEF Fits, Good, Reached, Serves, AsksKeyUser

\* Without a user of the key the message is refused.
LEMMA NoKeyUserGood ==
  ASSUME NEW r, Shaped(r), Fresh(r, old), AsksKeyUser(r)
  PROVE  Fits(Reply(Clear(r)))
<1>1. r.cached \in {"unset", None}
  BY DEF AsksKeyUser, Serves, Backed, Shaped, UserServes, CurrentUser
<1> QED
  BY <1>1, ClearKeeps, ReplyGood DEF AsksKeyUser, Serves

LEMMA ApplyKeyUserGood ==
  ASSUME NEW r, Shaped(r), Fresh(r, old), Serves(r), ~r.applied, r.msg.old \subseteq OutOfService
  PROVE  Fits(ApplyKeyUser(r))
<1>1. CASE r.key = None \/ r.key.user = None \/ r.token # None
  BY <1>1, ServeGood DEF ApplyKeyUser
<1>2. CASE ~(r.key = None \/ r.key.user = None \/ r.token # None)
  <2>1. AsksKeyUser(r)
    BY <1>2 DEF AsksKeyUser
  <2>2. CASE r.keyUser = "unset"
    <3>1. PICK s : s = [r EXCEPT !.pc = "keyuser"]
      OBVIOUS
    <3>2. Like(s, r) /\ s.pc = "keyuser" /\ s.msg = r.msg
      BY <3>1, MoveIsLike DEF Shaped, Pcs, Awaits
    <3>3. Shaped(s) /\ Fresh(s, old) /\ Serves(s)
      BY <3>2, LikeKeeps, LikeMessageKeeps
    <3>4. Reached(s)
      BY <1>2, <3>2, <3>3 DEF Reached, Like
    <3>5. Fits(s)
      BY <3>2, <3>3, <3>4 DEF Fits, Good
    <3> QED
      BY <1>2, <2>2, <3>1, <3>5 DEF ApplyKeyUser
  <2>3. CASE r.keyUser # "unset" /\ r.keyUser = None
    BY <1>2, <2>1, <2>3, NoKeyUserGood DEF ApplyKeyUser
  <2>4. CASE r.keyUser # "unset" /\ r.keyUser # None
    <3>1. r.keyUser \in Users
      BY <2>4 DEF Shaped, Handlers
    <3>2. r.keyUser \notin r.msg.old
      BY <1>2, <3>1 DEF Serves, KeyServes
    <3>3. r.keyUser = r.key.user
      BY <1>2, <3>1 DEF Shaped
    <3>4. Fits(AsKeyUser(r, r.keyUser))
      BY <2>1, <3>1, <3>2, <3>3, AsKeyUserGood
    <3> QED
      BY <1>2, <2>4, <3>4 DEF ApplyKeyUser, AsKeyUser
  <2> QED
    BY <2>2, <2>3, <2>4
<1> QED
  BY <1>1, <1>2

LEMMA EnforceGood ==
  ASSUME NEW r, Shaped(r), Fresh(r, old), Serves(r), ~r.applied, r.msg.old \subseteq OutOfService
  PROVE  Fits(Enforce(r))
<1>1. CASE ~r.msg.needsKey
  BY <1>1, ServeGood DEF Enforce
<1>2. CASE r.msg.needsKey /\ ~r.key.may
  BY <1>2, ReplyGood DEF Enforce, Serves
<1>3. CASE r.msg.needsKey /\ r.key.may
  BY <1>3, ApplyKeyUserGood DEF Enforce
<1> QED
  BY <1>1, <1>2, <1>3

-----------------------------------------------------------------------------
(* _ensure_current_user and reload_token *)

LEMMA EnsureKeeps ==
  ASSUME NEW r, Shaped(r), Fresh(r, old), ~r.applied, NEW t \in Tokens, NEW s, s = Ensure(r, t)
  PROVE  /\ Shaped(s) /\ Fresh(s, old)
         /\ s.token = t /\ s.cached = "unset" /\ ~s.exp
         /\ s.kind = r.kind /\ s.open = r.open /\ s.uid = r.uid /\ s.user = r.user /\ s.fan = r.fan
         /\ s.authFresh = r.authFresh
         /\ s.key = r.key /\ s.keyUser = r.keyUser /\ s.cut = r.cut /\ s.moved = r.moved /\ ~s.applied /\ s.msg = r.msg /\ s.pc = r.pc
<1>1. /\ s \in Handlers /\ s.token = t /\ s.cached = "unset" /\ s.exp = FALSE
      /\ s.pc = r.pc /\ s.kind = r.kind /\ s.open = r.open /\ s.uid = r.uid /\ s.fan = r.fan
      /\ s.user = r.user /\ s.authFresh = r.authFresh
      /\ s.keyValid = r.keyValid /\ s.key = r.key /\ s.keyFresh = r.keyFresh /\ s.applied = r.applied
      /\ s.keyUser = r.keyUser /\ s.cut = r.cut /\ s.moved = r.moved /\ s.msg = r.msg
  BY DEF Ensure, Shaped, Handlers
<1> QED
  BY <1>1 DEF Shaped, Fresh, FreshKey, FreshToken

\* A token that is refused leaves no user behind.
LEMMA RefusedKeeps ==
  ASSUME NEW r, Shaped(r), Fresh(r, old), ~r.applied, NEW t \in Tokens, NEW s, s = Refused(r, t)
  PROVE  /\ Shaped(s) /\ Fresh(s, old) /\ Backed(s) /\ UserServes(s)
         /\ s.token = t /\ s.user = None /\ s.cached = "unset" /\ s.authFresh
         /\ s.kind = r.kind /\ s.open = r.open /\ s.uid = r.uid
         /\ s.key = r.key /\ s.keyUser = r.keyUser /\ s.cut = r.cut /\ s.moved = r.moved /\ ~s.applied /\ s.msg = r.msg
<1>1. PICK e : e = Ensure(r, t)
  OBVIOUS
<1>2. /\ Shaped(e) /\ Fresh(e, old)
      /\ e.token = t /\ e.cached = "unset" /\ ~e.exp
      /\ e.kind = r.kind /\ e.open = r.open /\ e.uid = r.uid
      /\ e.key = r.key /\ e.keyUser = r.keyUser /\ e.cut = r.cut /\ e.moved = r.moved /\ ~e.applied /\ e.msg = r.msg
  BY <1>1, EnsureKeeps
<1>3. s = [e EXCEPT !.user = None, !.fan = {}, !.authFresh = TRUE]
  <2>1. Clear(e) = [e EXCEPT !.user = None, !.fan = {}]
    BY <1>2, ClearKeeps
  <2> QED
    BY <1>1, <1>2, <2>1 DEF Refused, Shaped, Handlers
<1>4. /\ s \in Handlers /\ s.user = None /\ s.fan = {} /\ s.authFresh = TRUE
      /\ s.token = e.token /\ s.cached = e.cached /\ s.exp = e.exp
      /\ s.kind = e.kind /\ s.open = e.open /\ s.uid = e.uid
      /\ s.keyValid = e.keyValid /\ s.key = e.key /\ s.keyFresh = e.keyFresh /\ s.applied = e.applied
      /\ s.keyUser = e.keyUser /\ s.cut = e.cut /\ s.moved = e.moved /\ s.msg = e.msg
  <2>1. e \in Handlers
    BY <1>2 DEF Shaped
  <2> QED
    BY <1>3, <2>1 DEF Handlers
<1>5. Shaped(s)
  BY <1>2, <1>4 DEF Shaped
<1>6. Fresh(s, old) /\ Backed(s) /\ UserServes(s)
  BY <1>2, <1>4 DEF Fresh, FreshKey, FreshToken, Backed, UserServes, CurrentUser
<1> QED
  BY <1>2, <1>4, <1>5, <1>6

\* The lookup answers for the token that was verified, whatever happened to the socket.
LEMMA LooksUpKeeps ==
  ASSUME WorldOK, NEW r, Shaped(r), Fresh(r, old), LooksFor(r), r.msg.old \subseteq OutOfService,
         r.uid => r.open, NEW s, s = LooksUp(r, r.msg.token)
  PROVE  /\ Shaped(s) /\ Fresh(s, old) /\ Backed(s) /\ UserServes(s)
         /\ s.token = r.token /\ s.cached = r.cached /\ ~s.applied
         /\ s.kind = r.kind /\ s.open = r.open /\ s.uid = r.uid
         /\ s.key = r.key /\ s.keyUser = r.keyUser /\ s.cut = r.cut /\ s.msg = r.msg
<1> DEFINE t == r.msg.token
<1>1. t \in Tokens /\ Subject[t] \in Users /\ Impersonator[t] \in Users \cup {None}
  BY BridgeAssumption DEF BridgeAssumption, LooksFor, Shaped, Handlers, Carried
<1>2. r.cached \in {"unset", None} /\ ~r.applied /\ r.token \in {None, t} /\ t \notin r.msg.old
  BY DEF LooksFor
<1>3. CASE Subject[t] \in active /\ Impersonator[t] \in active \cup {None}
  <2>1. Subject[t] \notin old /\ Impersonator[t] \notin old
    BY <1>3, InServiceIsNotOld
  <2>2. Subject[t] \notin r.msg.old /\ Impersonator[t] \notin r.msg.old
    BY <1>3, InServiceIsNotOut
  <2>3. PICK f : f = IF r.uid THEN {Subject[t]} ELSE {}
    OBVIOUS
  <2>4. s = [r EXCEPT !.fan = f, !.moved = FALSE, !.user = Subject[t], !.exp = TRUE, !.authFresh = TRUE]
    BY <1>3, <2>3 DEF LooksUp, Assign, Shaped, Handlers
  <2>5. f \in SUBSET Users
    BY <1>1, <2>3
  <2>6. /\ s \in Handlers /\ s.fan = f /\ s.user = Subject[t] /\ s.exp = TRUE /\ s.authFresh = TRUE
        /\ s.kind = r.kind /\ s.open = r.open /\ s.uid = r.uid /\ s.token = r.token
        /\ s.cached = r.cached
        /\ s.keyValid = r.keyValid /\ s.key = r.key /\ s.keyFresh = r.keyFresh /\ s.applied = r.applied
        /\ s.keyUser = r.keyUser /\ s.cut = r.cut /\ s.moved = FALSE /\ s.msg = r.msg
    <3>1. r \in Handlers
      BY DEF Shaped
    <3>2. s \in Handlers
      BY <1>1, <2>4, <2>5, <3>1 DEF Handlers
    <3>3. s.fan = f /\ s.user = Subject[t] /\ s.exp = TRUE /\ s.authFresh = TRUE
      BY <2>4, <3>1 DEF Handlers
    <3>4. /\ s.kind = r.kind /\ s.open = r.open /\ s.uid = r.uid /\ s.token = r.token
          /\ s.cached = r.cached
      BY <2>4, <3>1 DEF Handlers
    <3>5. /\ s.keyValid = r.keyValid /\ s.key = r.key /\ s.keyFresh = r.keyFresh
          /\ s.applied = r.applied /\ s.keyUser = r.keyUser /\ s.cut = r.cut /\ s.moved = FALSE /\ s.msg = r.msg
      BY <2>4, <3>1 DEF Handlers
    <3> QED
      BY <3>2, <3>3, <3>4, <3>5
  <2>7. r.open => r.cached = "unset" /\ r.token = t
    BY DEF LooksFor
  <2>8. Shaped(s)
    BY <1>2, <2>3, <2>6, <2>7 DEF Shaped
  <2>9. Fresh(s, old)
    BY <1>2, <2>1, <2>6 DEF Fresh, FreshKey, FreshToken
  <2>10. Backed(s)
    <3>1. t # None /\ (r.uid => r.open)
      BY DEF LooksFor
    <3> QED
      BY <1>1, <1>2, <2>3, <2>6, <2>7, <3>1 DEF Backed
  <2>11. UserServes(s)
    BY <1>2, <2>2, <2>6 DEF UserServes, CurrentUser
  <2> QED
    BY <1>2, <2>6, <2>8, <2>9, <2>10, <2>11
<1>4. CASE ~(Subject[t] \in active /\ Impersonator[t] \in active \cup {None})
  <2>1. s = [r EXCEPT !.user = None, !.fan = {}, !.authFresh = TRUE]
    BY <1>2, <1>4, ClearKeeps DEF LooksUp, Shaped, Handlers
  <2>2. /\ s \in Handlers /\ s.fan = {} /\ s.user = None /\ s.exp = r.exp /\ s.authFresh = TRUE
        /\ s.kind = r.kind /\ s.open = r.open /\ s.uid = r.uid /\ s.token = r.token
        /\ s.cached = r.cached
        /\ s.keyValid = r.keyValid /\ s.key = r.key /\ s.keyFresh = r.keyFresh /\ s.applied = r.applied
        /\ s.keyUser = r.keyUser /\ s.cut = r.cut /\ s.moved = r.moved /\ s.msg = r.msg
    BY <2>1 DEF Shaped, Handlers
  <2>3. Shaped(s)
    BY <1>2, <2>2 DEF Shaped
  <2>4. Fresh(s, old) /\ Backed(s) /\ UserServes(s)
    BY <1>2, <2>2 DEF Fresh, FreshKey, FreshToken, Backed, UserServes, CurrentUser, LooksFor
  <2> QED
    BY <1>2, <2>2, <2>3, <2>4
<1> QED
  BY <1>3, <1>4

\* reload_token is entered with the key settled and the token still to be looked at.
LEMMA ReloadTokenGood ==
  ASSUME WorldOK, NEW r, Shaped(r), Fresh(r, old), Asks(r), Keyed(r), KeyServes(r),
         r.msg.old \subseteq OutOfService
  PROVE  Fits(ReloadToken(r))
<1> DEFINE t == IF r.msg.token # None THEN r.msg.token ELSE r.token
<1>1. t \in Tokens \cup {None} /\ (r.open => r.msg.said = t)
  BY DEF Shaped, Handlers, Carried, Asks
<1>2. ~r.applied /\ Backed(r) /\ Registered(r) /\ r.kind = "socket" /\ (~r.open => r.cached = None /\ r.token = None)
  BY DEF Asks
<1>3. CASE t = None \/ (t = r.token /\ ~AuthStale(r))
  <2>1. r.token = t
    BY <1>3
  <2>2. UserServes(r)
    <3>1. SUFFICES ASSUME CurrentUser(r) # None
                   PROVE  /\ CurrentUser(r) \notin r.msg.old
                          /\ r.token # None => r.token \notin r.msg.old /\ Impersonator[r.token] \notin r.msg.old
      BY DEF UserServes
    <3>2. r.open /\ CurrentUser(r) = r.user
      <4>1. None # "unset"
        BY BridgeAssumption DEF BridgeAssumption
      <4> QED
        BY <1>2, <3>1, <4>1 DEF CurrentUser, Shaped
    <3>3. r.token # None /\ r.exp /\ r.user = Subject[r.token]
      BY <1>2, <3>1, <3>2 DEF Backed
    <3>4. r.authFresh /\ r.token \in live
      BY <1>3, <2>1, <3>3 DEF AuthStale
    <3>5. Subject[r.token] \notin old /\ Impersonator[r.token] \notin old
      BY <3>3, <3>4 DEF Fresh, FreshKey, FreshToken
    <3>6. Subject[r.token] \notin r.msg.old /\ Impersonator[r.token] \notin r.msg.old
      <4>1. Subject[r.token] \in Users /\ Impersonator[r.token] \in Users \cup {None}
        BY <1>1, <2>1, <3>3, BridgeAssumption DEF BridgeAssumption
      <4> QED
        BY <3>5, <4>1, BridgeAssumption DEF BridgeAssumption, OutOfService, WorldOK
    <3>7. r.token \notin r.msg.old
      BY <3>4, InServiceIsNotOut
    <3> QED
      BY <3>2, <3>3, <3>6, <3>7
  <2>3. Serves(r)
    BY <1>1, <1>2, <2>1, <2>2 DEF Serves
  <2> QED
    BY <1>2, <1>3, <2>3, EnforceGood DEF ReloadToken
<1>4. CASE ~(t = None \/ (t = r.token /\ ~AuthStale(r))) /\ t \notin live
  <2>1. PICK f : f = Refused(r, t)
    OBVIOUS
  <2>2. PICK s : s = [f EXCEPT !.failed = FALSE]
    OBVIOUS
  <2>3. /\ Shaped(f) /\ Fresh(f, old) /\ Backed(f) /\ UserServes(f)
        /\ f.token = t /\ f.cached = "unset"
        /\ f.kind = r.kind /\ f.open = r.open /\ f.uid = r.uid
        /\ f.key = r.key /\ f.keyUser = r.keyUser /\ f.cut = r.cut /\ f.moved = r.moved /\ ~f.applied /\ f.msg = r.msg
    BY <1>1, <1>2, <1>4, <2>1, RefusedKeeps
  <2>4. Like(s, f) /\ s.msg = f.msg
    BY <2>2, <2>3 DEF Like, Shaped, Handlers
  <2>5. Shaped(s) /\ Fresh(s, old) /\ Backed(s) /\ UserServes(s)
    BY <2>3, <2>4, LikeKeeps, LikeMessageKeeps
  <2>6. Registered(s) /\ Keyed(s) /\ KeyServes(s)
    BY <1>2, <2>3, <2>4 DEF Like, Registered, Entered, Keyed, KeyServes
  <2>7. Serves(s) /\ ~s.applied /\ s.msg = r.msg
    BY <1>1, <2>3, <2>4, <2>5, <2>6 DEF Like, Serves
  <2>8. Fits(Enforce(s))
    BY <2>5, <2>7, EnforceGood
  <2> QED
    BY <1>4, <2>1, <2>2, <2>8 DEF ReloadToken
<1>5. CASE ~(t = None \/ (t = r.token /\ ~AuthStale(r))) /\ t \in live
  <2>1. PICK e : e = Ensure(r, t)
    OBVIOUS
  <2>2. PICK s : s = [e EXCEPT !.pc = "token", !.msg.token = t]
    OBVIOUS
  <2>3. t \in Tokens /\ t \notin r.msg.old
    BY <1>1, <1>5, InServiceIsNotOut
  <2>4. /\ Shaped(e) /\ Fresh(e, old)
        /\ e.token = t /\ e.cached = "unset" /\ ~e.exp
        /\ e.kind = r.kind /\ e.open = r.open /\ e.uid = r.uid
        /\ e.key = r.key /\ e.keyUser = r.keyUser /\ e.cut = r.cut /\ e.moved = r.moved /\ ~e.applied /\ e.msg = r.msg
    BY <1>2, <2>1, <2>3, EnsureKeeps
  <2>5. PICK m : m = [e.msg EXCEPT !.token = t]
    OBVIOUS
  <2>6. /\ m \in Carried /\ m.token = t /\ m.needsKey = r.msg.needsKey /\ m.said = r.msg.said
        /\ m.old = r.msg.old
    BY <2>3, <2>4, <2>5 DEF Shaped, Handlers, Carried
  <2>7. Like(s, e) /\ s.pc = "token" /\ s.msg = m
    <3>1. "token" \in Pcs /\ e \in Handlers
      BY <2>4 DEF Pcs, Awaits, Shaped
    <3>2. s = [e EXCEPT !.pc = "token", !.msg = m]
      BY <2>2, <2>5, <3>1 DEF Handlers
    <3> QED
      BY <2>6, <3>1, <3>2 DEF Like, Handlers
  <2>8. /\ s.msg.token = t /\ s.msg.needsKey = r.msg.needsKey /\ s.msg.said = r.msg.said
        /\ s.msg.old = r.msg.old
    BY <2>6, <2>7
  <2>9. Shaped(s) /\ Fresh(s, old)
    BY <2>4, <2>7, LikeKeeps
  <2>10. LooksFor(s)
    BY <1>1, <1>5, <2>3, <2>4, <2>7, <2>8 DEF Like, LooksFor
  <2>11. Registered(s) /\ Keyed(s) /\ KeyServes(s)
    BY <1>2, <2>4, <2>7, <2>8 DEF Like, Registered, Entered, Keyed, KeyServes
  <2>12. Fits(s)
    BY <1>2, <2>4, <2>7, <2>8, <2>9, <2>10, <2>11 DEF Fits, Good, Reached, Like
  <2> QED
    BY <1>5, <2>1, <2>2, <2>12 DEF ReloadToken
<1> QED
  BY <1>3, <1>4, <1>5

-----------------------------------------------------------------------------
(* The key: CheckKey, Forget, HoldKey *)

LEMMA CheckKeyGood ==
  ASSUME WorldOK, NEW r, Shaped(r), Fresh(r, old), Asks(r), KeyServes(r), r.msg.old \subseteq OutOfService,
         NEW refused
  PROVE  Fits(CheckKey(r, refused))
<1>1. Fits(Reply(r))
  BY ReplyGood DEF Asks
<1>2. Keyed(r) => Fits(ReloadToken(r))
  BY ReloadTokenGood
<1>3. CASE ~r.msg.needsKey
  BY <1>2, <1>3 DEF CheckKey, Keyed
<1>4. CASE r.msg.needsKey /\ ~refused /\ r.keyValid = "unset" /\ r.msg.key \notin {None, r.rejected}
  <2>1. PICK s : s = [r EXCEPT !.pc = "key"]
    OBVIOUS
  <2>2. Like(s, r) /\ s.pc = "key" /\ s.msg = r.msg
    BY <2>1, MoveIsLike DEF Shaped, Pcs, Awaits
  <2>3. Shaped(s) /\ Fresh(s, old) /\ Asks(s)
    BY <2>2, LikeKeeps, LikeMessageKeeps
  <2>4. s.key = None
    BY <1>4, <2>2 DEF Like, Shaped
  <2>5. Fits(s)
    BY <2>2, <2>3, <2>4 DEF Fits, Good, Reached, Asks, Keyless
  <2> QED
    BY <1>4, <2>1, <2>5 DEF CheckKey
<1>5. CASE r.msg.needsKey /\ ~(~refused /\ r.keyValid = "unset" /\ r.msg.key \notin {None, r.rejected})
  <2>1. CASE refused \/ r.keyValid # "yes"
    BY <1>1, <1>5, <2>1 DEF CheckKey
  <2>2. CASE ~refused /\ r.keyValid = "yes"
    BY <1>2, <1>5, <2>2 DEF CheckKey, Keyed, Shaped
  <2> QED
    BY <2>1, <2>2
<1> QED
  BY <1>3, <1>4, <1>5

\* The record of a refused key goes, and so does its user.
LEMMA ForgetGood ==
  ASSUME WorldOK, NEW r, Shaped(r), FreshToken(r, old), Asks(r), r.msg.old \subseteq OutOfService
  PROVE  Fits(Forget(r))
<1>1. PICK f : f = [r EXCEPT !.keyValid = "no", !.key = None]
  OBVIOUS
<1>2. /\ f \in Handlers /\ f.keyValid = "no" /\ f.key = None
      /\ f.kind = r.kind /\ f.open = r.open /\ f.uid = r.uid /\ f.token = r.token /\ f.fan = r.fan
      /\ f.user = r.user /\ f.cached = r.cached /\ f.exp = r.exp /\ f.authFresh = r.authFresh
      /\ f.keyFresh = r.keyFresh /\ f.applied = r.applied /\ f.keyUser = r.keyUser /\ f.cut = r.cut /\ f.moved = r.moved /\ f.msg = r.msg
  BY <1>1 DEF Shaped, Handlers
<1>3. Shaped(f) /\ Fresh(f, old)
  BY <1>2 DEF Shaped, Fresh, FreshKey, FreshToken
<1>4. CASE r.token # None
  <2>1. Asks(f) /\ KeyServes(f)
    BY <1>2, <1>4 DEF Asks, Backed, Registered, Entered, KeyServes
  <2>2. Fits(CheckKey(f, TRUE))
    BY <1>2, <1>3, <2>1, CheckKeyGood
  <2> QED
    BY <1>1, <1>2, <1>4, <2>2 DEF Forget
<1>5. CASE r.token = None
  <2>1. PICK s : s = Clear(f)
    OBVIOUS
  <2>2. f.cached \in {"unset", None}
    BY <1>2, <1>5 DEF Asks, Backed, Shaped
  <2>3. Shaped(s) /\ Fresh(s, old) /\ Backed(s) /\ s = [f EXCEPT !.user = None, !.fan = {}]
    BY <1>3, <2>1, <2>2, ClearKeeps
  <2>4. /\ s.kind = r.kind /\ s.open = r.open /\ s.uid = r.uid /\ s.token = r.token /\ s.key = None
        /\ s.cached = r.cached /\ s.applied = r.applied /\ s.msg = r.msg
    BY <1>2, <2>3 DEF Handlers
  <2>5. Asks(s) /\ KeyServes(s)
    BY <2>3, <2>4 DEF Asks, Registered, Entered, KeyServes
  <2>6. Fits(CheckKey(s, TRUE))
    BY <2>3, <2>4, <2>5, CheckKeyGood
  <2> QED
    BY <1>1, <1>2, <1>5, <2>1, <2>6 DEF Forget
<1> QED
  BY <1>4, <1>5

\* A handler that is given an API key's record is still a handler.
WithKey(r, f) == [r EXCEPT !.key = f, !.keyFresh = TRUE, !.keyUser = "unset", !.keyValid = "yes"]
LEMMA WithKeyTyped ==
  ASSUME NEW r \in Handlers, NEW f \in Records
  PROVE  WithKey(r, f) \in Handlers
BY DEF Handlers, WithKey

\* A key that was accepted a moment ago.
LEMMA HoldKeyKeeps ==
  ASSUME WorldOK, NEW r, Shaped(r), Fresh(r, old), Backed(r), r.key = None,
         r.msg.old \subseteq OutOfService, NEW k, Accepts(k), NEW s, s = HoldKey(r, k)
  PROVE  /\ Shaped(s) /\ Fresh(s, old) /\ Backed(s) /\ KeyServes(s) /\ s.key # None
         /\ s.kind = r.kind /\ s.open = r.open /\ s.uid = r.uid /\ s.token = r.token /\ s.user = r.user
         /\ s.cached = r.cached /\ s.applied = r.applied /\ s.msg = r.msg
<1>1. k \in Keys /\ row[k] \in Records /\ row[k].id = k /\ k \notin old /\ k \notin r.msg.old
  <2>1. k \in Keys /\ ~row[k].disabled
    BY DEF Accepts, Refusal
  <2> QED
    BY <2>1, InServiceIsNotOld, InServiceIsNotOut DEF WorldOK
<1>2. row[k] # None
  BY <1>1, BridgeAssumption DEF BridgeAssumption
<1>3. /\ s \in Handlers /\ s.key = row[k] /\ s.keyFresh = TRUE /\ s.keyUser = "unset" /\ s.keyValid = "yes"
      /\ s.kind = r.kind /\ s.open = r.open /\ s.uid = r.uid /\ s.token = r.token /\ s.fan = r.fan
      /\ s.user = r.user /\ s.cached = r.cached /\ s.exp = r.exp /\ s.authFresh = r.authFresh
      /\ s.applied = r.applied /\ s.msg = r.msg /\ s.cut = r.cut /\ s.moved = r.moved
  <2>1. r \in Handlers
    BY DEF Shaped
  <2>2. PICK f \in Records : f = row[k] /\ s = WithKey(r, f)
    BY <1>1 DEF HoldKey, WithKey
  <2>3. s \in Handlers
    BY <2>1, <2>2, WithKeyTyped
  <2>4. s.key = row[k] /\ s.keyFresh = TRUE /\ s.keyUser = "unset" /\ s.keyValid = "yes"
    BY <2>1, <2>2 DEF Handlers, WithKey
  <2>5. /\ s.kind = r.kind /\ s.open = r.open /\ s.uid = r.uid /\ s.token = r.token /\ s.fan = r.fan
        /\ s.user = r.user /\ s.cached = r.cached
    BY <2>1, <2>2 DEF Handlers, WithKey
  <2>6. /\ s.exp = r.exp /\ s.authFresh = r.authFresh
        /\ s.applied = r.applied /\ s.msg = r.msg /\ s.cut = r.cut /\ s.moved = r.moved
    BY <2>1, <2>2 DEF Handlers, WithKey
  <2> QED
    BY <2>3, <2>4, <2>5, <2>6
<1>4. "unset" \notin Users
  BY BridgeAssumption DEF BridgeAssumption
<1>5. Shaped(s) /\ Fresh(s, old)
  BY <1>1, <1>2, <1>3, <1>4 DEF Shaped, Fresh, FreshKey, FreshToken
<1>6. Backed(s) /\ KeyServes(s)
  BY <1>1, <1>2, <1>3, <1>4 DEF Backed, KeyServes
<1> QED
  BY <1>2, <1>3, <1>5, <1>6

-----------------------------------------------------------------------------
(* A message comes in *)

LEMMA DropKeyUserKeeps ==
  ASSUME NEW r, Shaped(r), Fresh(r, old), Backed(r), NEW s, s = DropKeyUser(r)
  PROVE  /\ Shaped(s) /\ Fresh(s, old) /\ Backed(s) /\ ~s.applied
         /\ s.kind = r.kind /\ s.open = r.open /\ s.uid = r.uid /\ s.token = r.token /\ s.key = r.key
         /\ s.keyFresh = r.keyFresh /\ s.keyUser = r.keyUser /\ s.cut = r.cut /\ s.moved = r.moved
<1>1. CASE ~r.applied
  BY <1>1 DEF DropKeyUser
<1>2. CASE r.applied
  <2>1. /\ s \in Handlers /\ s.applied = FALSE /\ s.user = None /\ s.cached = "unset"
        /\ s.kind = r.kind /\ s.open = r.open /\ s.uid = r.uid /\ s.token = r.token /\ s.fan = r.fan
        /\ s.exp = r.exp /\ s.authFresh = r.authFresh /\ s.keyValid = r.keyValid
        /\ s.key = r.key /\ s.keyFresh = r.keyFresh /\ s.keyUser = r.keyUser /\ s.cut = r.cut /\ s.moved = r.moved
    BY <1>2 DEF DropKeyUser, Shaped, Handlers
  <2>2. Shaped(s) /\ Fresh(s, old)
    BY <2>1 DEF Shaped, Fresh, FreshKey, FreshToken
  <2>3. Backed(s)
    BY <2>1 DEF Backed
  <2> QED
    BY <2>1, <2>2, <2>3
<1> QED
  BY <1>1, <1>2

\* It carries what is out of service as it comes.
LEMMA WithKeeps ==
  ASSUME WorldOK, NEW r \in Handlers, NEW m \in Messages, NEW s, s = With(r, m)
  PROVE  /\ Like(s, r) /\ s.pc = r.pc
         /\ s.msg.needsKey = m.needsKey /\ s.msg.token = m.token /\ s.msg.key = m.key /\ s.msg.old = OutOfService
         /\ s.msg.said = IF m.token # None THEN m.token ELSE r.token
<1>1. PICK n : n = [needsKey |-> m.needsKey, token |-> m.token, key |-> m.key,
                    said |-> IF m.token # None THEN m.token ELSE r.token, old |-> OutOfService]
  OBVIOUS
<1>2. n \in Carried
  BY <1>1, InServiceIsNotOut DEF Carried, Messages, Handlers
<1>3. s = [r EXCEPT !.msg = n]
  BY <1>1 DEF With
<1>4. Like(s, r) /\ s.pc = r.pc /\ s.msg = n
  BY <1>2, <1>3 DEF Like, Handlers
<1> QED
  BY <1>1, <1>4

LEMMA MessageGood ==
  ASSUME WorldOK, NEW r, Shaped(r), Fresh(r, old), Backed(r), ~r.applied, r.open, r.uid,
         NEW m \in Messages, NEW s, s = With(r, m)
  PROVE  Shaped(s) /\ Fresh(s, old) /\ Asks(s) /\ s.msg.old = OutOfService
<1>1. r \in Handlers /\ r.kind = "socket"
  BY DEF Shaped
<1>2. /\ Like(s, r) /\ s.msg.token = m.token /\ s.msg.old = OutOfService
      /\ s.msg.said = IF m.token # None THEN m.token ELSE r.token
  BY <1>1, WithKeeps
<1>3. Shaped(s) /\ Fresh(s, old) /\ Backed(s)
  BY <1>2, LikeKeeps
<1>4. Asks(s)
  BY <1>1, <1>2, <1>3 DEF Asks, Like, Registered, Entered
<1> QED
  BY <1>2, <1>3, <1>4

-----------------------------------------------------------------------------
(* The steps *)

\* A step of a handler that leaves a fitting record.
LEMMA BecomesInv ==
  ASSUME BridgeInv, NEW c \in Conns, NEW r, Fits(r), h' = [h EXCEPT ![c] = r], UNCHANGED world,
         faults' \in 0..MaxFaults
  PROVE  BridgeInv'
<1>1. WorldOK'
  BY DEF BridgeInv, WorldOK, world
<1>2. \A q : Fits(q) => Fits(q)'
  BY DEF Fits, OutOfService, world
<1>3. \A d \in Conns : Fits(h'[d])
  BY DEF BridgeInv
<1>4. h' = [d \in Conns |-> h'[d]]
  BY DEF BridgeInv
<1> QED
  BY <1>1, <1>2, <1>3, <1>4 DEF BridgeInv

LEMMA HandlerStepInv ==
  ASSUME BridgeInv, NEW c \in Conns, NEW r, Fits(r), Becomes(c, r)
  PROVE  BridgeInv'
<1>1. faults' \in 0..MaxFaults /\ h' = [h EXCEPT ![c] = r] /\ UNCHANGED world
  BY DEF Becomes, BridgeInv, WorldOK
<1> QED
  BY <1>1, BecomesInv

LEMMA ReceiveInv ==
  ASSUME BridgeInv, NEW c \in Conns, NEW m \in Messages, Receive(c, m)
  PROVE  BridgeInv'
<1>1. PICK d : d = DropKeyUser(h[c])
  OBVIOUS
<1>2. PICK r : r = With(d, m)
  OBVIOUS
<1>3. WorldOK /\ Fits(h[c]) /\ h[c].pc = "idle"
  BY DEF BridgeInv, Receive
<1>4. Shaped(h[c]) /\ Fresh(h[c], old) /\ Backed(h[c]) /\ h[c].open /\ h[c].uid
  BY <1>3 DEF Fits, Good, Reached
<1>5. Shaped(d) /\ Fresh(d, old) /\ Backed(d) /\ ~d.applied /\ d.open /\ d.uid
  BY <1>1, <1>4, DropKeyUserKeeps
<1>6. Shaped(r) /\ Fresh(r, old) /\ Asks(r) /\ r.msg.old = OutOfService
  BY <1>2, <1>3, <1>5, MessageGood
<1>7. CASE r.key = None
  <2>1. KeyServes(r)
    BY <1>7 DEF KeyServes
  <2>2. Fits(CheckKey(r, FALSE))
    BY <1>3, <1>6, <2>1, CheckKeyGood
  <2> QED
    BY <1>1, <1>2, <1>7, <2>2, HandlerStepInv DEF Receive
<1>8. CASE r.key # None /\ ~r.keyFresh
  <2>1. PICK s : s = [r EXCEPT !.pc = "recheck"]
    OBVIOUS
  <2>2. Like(s, r) /\ s.pc = "recheck" /\ s.msg = r.msg
    BY <1>6, <2>1, MoveIsLike DEF Shaped, Pcs, Awaits
  <2>3. Shaped(s) /\ Fresh(s, old) /\ Asks(s)
    BY <1>6, <2>2, LikeKeeps, LikeMessageKeeps
  <2>4. Fits(s)
    BY <1>6, <1>8, <2>2, <2>3 DEF Fits, Good, Reached, Like
  <2> QED
    BY <1>1, <1>2, <1>8, <2>1, <2>4, HandlerStepInv DEF Receive
<1>9. CASE r.key # None /\ r.keyFresh /\ r.key.id \in lapsed
  <2>1. Fits(Forget(r))
    BY <1>3, <1>6, ForgetGood DEF Fresh
  <2> QED
    BY <1>1, <1>2, <1>9, <2>1, HandlerStepInv DEF Receive
<1>10. CASE r.key # None /\ r.keyFresh /\ r.key.id \notin lapsed
  <2>1. r.key.id \in Keys /\ r.key.id \notin old /\ (r.keyUser \in Users => r.keyUser \notin old)
    BY <1>6, <1>10 DEF Fresh, FreshKey, FreshToken, Shaped, Handlers, Records
  <2>2. KeyServes(r)
    BY <1>3, <1>6, <1>10, <2>1, BridgeAssumption DEF BridgeAssumption, KeyServes, OutOfService, WorldOK
  <2>3. Fits(CheckKey(r, FALSE))
    BY <1>3, <1>6, <2>2, CheckKeyGood
  <2> QED
    BY <1>1, <1>2, <1>10, <2>3, HandlerStepInv DEF Receive
<1> QED
  BY <1>7, <1>8, <1>9, <1>10

LEMMA PrepareInv ==
  ASSUME BridgeInv, NEW c \in Conns, NEW m \in Messages, Prepare(c, m)
  PROVE  BridgeInv'
<1>1. PICK r : r = With(h[c], m)
  OBVIOUS
<1>2. PICK next : next = IF r.kind = "http" THEN "call" ELSE "accept"
  OBVIOUS
<1>3. WorldOK /\ Fits(h[c]) /\ h[c].pc = "new"
  BY DEF BridgeInv, Prepare
<1>4. /\ Shaped(h[c]) /\ Fresh(h[c], old) /\ Keyless(h[c]) /\ h[c].open /\ ~h[c].uid
      /\ h[c].token = None /\ h[c].cached = "unset" /\ h[c] \in Handlers
  BY <1>3 DEF Fits, Good, Reached, Shaped
<1>5. /\ Like(r, h[c]) /\ r.msg.token = m.token /\ r.msg.old = OutOfService
      /\ r.msg.said = m.token
  BY <1>1, <1>3, <1>4, WithKeeps
<1>6. /\ Shaped(r) /\ Fresh(r, old) /\ r.key = None /\ ~r.applied /\ r.open /\ ~r.uid
      /\ r.token = None /\ r.cached = "unset" /\ r.user = None /\ Backed(r)
  BY <1>4, <1>5, LikeKeeps DEF Like, Keyless, Backed
<1>7. m.token \in Tokens \cup {None} /\ r.kind \in {"http", "socket"}
  BY <1>6 DEF Messages, Shaped, Handlers
<1>8. next \in Pcs /\ next \in {"call", "accept"} /\ (next = "call" <=> r.kind = "http")
  BY <1>2, <1>7 DEF Pcs
<1>9. CASE m.token = None
  <2>1. PICK s : s = [r EXCEPT !.cached = "unset", !.authFresh = TRUE, !.pc = next]
    OBVIOUS
  <2>2. /\ s \in Handlers /\ s.pc = next /\ s.authFresh = TRUE /\ s.cached = "unset"
        /\ s.kind = r.kind /\ s.open = r.open /\ s.uid = r.uid /\ s.token = r.token /\ s.fan = r.fan
        /\ s.user = r.user /\ s.exp = r.exp /\ s.keyValid = r.keyValid /\ s.key = r.key
        /\ s.keyFresh = r.keyFresh /\ s.applied = r.applied /\ s.keyUser = r.keyUser /\ s.cut = r.cut /\ s.moved = r.moved /\ s.msg = r.msg
    BY <1>6, <1>8, <2>1 DEF Shaped, Handlers
  <2>3. Shaped(s) /\ Fresh(s, old)
    BY <1>6, <2>2 DEF Shaped, Fresh, FreshKey, FreshToken
  <2>4. Keyless(s) /\ UserServes(s)
    BY <1>6, <2>2 DEF Keyless, Backed, UserServes, CurrentUser
  <2>5. Reached(s)
    BY <1>5, <1>6, <1>7, <1>8, <1>9, <2>2, <2>4 DEF Reached
  <2>6. Fits(s)
    BY <1>5, <2>2, <2>3, <2>5 DEF Fits, Good
  <2> QED
    BY <1>1, <1>2, <1>9, <2>1, <2>6, HandlerStepInv DEF Prepare
<1>10. CASE m.token # None /\ m.token \notin live
  <2>1. PICK f : f = Refused(r, m.token)
    OBVIOUS
  <2>2. PICK s : s = [f EXCEPT !.pc = next]
    OBVIOUS
  <2>3. /\ Shaped(f) /\ Fresh(f, old) /\ Backed(f) /\ UserServes(f)
        /\ f.token = m.token /\ f.kind = r.kind /\ f.open = r.open /\ f.uid = r.uid
        /\ f.key = r.key /\ ~f.applied /\ f.msg = r.msg
    <3>1. PICK t \in Tokens : t = m.token
      BY <1>7, <1>10
    <3>2. f = Refused(r, t) /\ Shaped(r) /\ Fresh(r, old) /\ ~r.applied
      BY <1>6, <2>1, <3>1
    <3> QED
      BY <3>1, <3>2, RefusedKeeps
  <2>4. Like(s, f) /\ s.pc = next /\ s.msg = f.msg
    BY <1>8, <2>2, <2>3, MoveIsLike DEF Shaped
  <2>5. Shaped(s) /\ Fresh(s, old) /\ Backed(s) /\ UserServes(s)
    BY <2>3, <2>4, LikeKeeps, LikeMessageKeeps
  <2>6. Reached(s)
    BY <1>5, <1>6, <1>7, <1>8, <2>3, <2>4, <2>5 DEF Reached, Like, Keyless
  <2>7. Fits(s)
    BY <1>5, <2>3, <2>4, <2>5, <2>6 DEF Fits, Good
  <2> QED
    BY <1>1, <1>2, <1>10, <2>1, <2>2, <2>7, HandlerStepInv DEF Prepare
<1>11. CASE m.token # None /\ m.token \in live
  <2>1. PICK e : e = Ensure(r, m.token)
    OBVIOUS
  <2>2. PICK s : s = [e EXCEPT !.pc = "prepare"]
    OBVIOUS
  <2>3. /\ Shaped(e) /\ Fresh(e, old) /\ e.token = m.token /\ e.cached = "unset" /\ ~e.exp
        /\ e.kind = r.kind /\ e.open = r.open /\ e.uid = r.uid /\ e.user = r.user /\ e.fan = r.fan
        /\ e.key = r.key /\ ~e.applied /\ e.msg = r.msg
    <3>1. PICK t \in Tokens : t = m.token
      BY <1>7, <1>11
    <3>2. e = Ensure(r, t) /\ Shaped(r) /\ Fresh(r, old) /\ ~r.applied
      BY <1>6, <2>1, <3>1
    <3> QED
      BY <3>1, <3>2, EnsureKeeps
  <2>4. Like(s, e) /\ s.pc = "prepare" /\ s.msg = e.msg
    BY <2>2, <2>3, MoveIsLike DEF Shaped, Pcs, Awaits
  <2>5. Shaped(s) /\ Fresh(s, old)
    BY <2>3, <2>4, LikeKeeps
  <2>6. m.token \notin OutOfService
    BY <1>3, <1>11, InServiceIsNotOut
  <2>7. LooksFor(s)
    BY <1>5, <1>11, <2>3, <2>4, <2>6 DEF LooksFor, Like
  <2>8. s.fan = {}
    BY <1>6, <2>3, <2>4 DEF Like, Shaped
  <2>9. Reached(s)
    BY <1>6, <2>3, <2>4, <2>7, <2>8 DEF Reached, Like, Keyless, Backed
  <2>10. Fits(s)
    BY <1>5, <2>3, <2>4, <2>5, <2>9 DEF Fits, Good
  <2> QED
    BY <1>1, <1>2, <1>11, <2>1, <2>2, <2>10, HandlerStepInv DEF Prepare
<1> QED
  BY <1>9, <1>10, <1>11

LEMMA PreparedInv ==
  ASSUME BridgeInv, NEW c \in Conns, Prepared(c)
  PROVE  BridgeInv'
<1>0. PICK r : r = h[c]
  OBVIOUS
<1>1. PICK f : f = LooksUp(r, r.msg.token)
  OBVIOUS
<1>2. PICK next : next = IF r.kind = "http" THEN "call" ELSE "accept"
  OBVIOUS
<1>3. WorldOK /\ Fits(r) /\ r.pc = "prepare"
  BY <1>0 DEF BridgeInv, Prepared
<1>4. /\ Shaped(r) /\ Fresh(r, old) /\ Keyless(r) /\ LooksFor(r) /\ ~r.uid
      /\ r.open \/ (r.kind = "socket" /\ r.cut)
      /\ r.msg.old \subseteq OutOfService
  BY <1>3 DEF Fits, Good, Reached
<1>5. /\ Shaped(f) /\ Fresh(f, old) /\ Backed(f) /\ UserServes(f)
      /\ f.token = r.token /\ ~f.applied /\ f.kind = r.kind /\ f.open = r.open
      /\ f.uid = r.uid /\ f.cut = r.cut /\ f.key = r.key /\ f.msg = r.msg
  BY <1>1, <1>3, <1>4, LooksUpKeeps
<1>6. r.kind \in {"http", "socket"}
  BY <1>4 DEF Shaped, Handlers
<1>7. next \in Pcs /\ next \in {"call", "accept"} /\ (next = "call" <=> f.kind = "http")
  BY <1>2, <1>5 DEF Pcs
<1>8. PICK s : s = [f EXCEPT !.pc = next]
  OBVIOUS
<1>9. Like(s, f) /\ s.pc = next /\ s.msg = f.msg
  BY <1>5, <1>7, <1>8, MoveIsLike DEF Shaped
<1>10. Shaped(s) /\ Fresh(s, old) /\ Backed(s) /\ UserServes(s)
  BY <1>5, <1>9, LikeKeeps, LikeMessageKeeps
<1>11. Reached(s)
  BY <1>4, <1>5, <1>6, <1>7, <1>9, <1>10 DEF Reached, Like, Keyless, LooksFor
<1>12. Fits(s)
  BY <1>4, <1>5, <1>9, <1>10, <1>11 DEF Fits, Good
<1> QED
  BY <1>0, <1>1, <1>2, <1>8, <1>12, HandlerStepInv DEF Prepared

LEMMA CallInv ==
  ASSUME BridgeInv, NEW c \in Conns, Call(c)
  PROVE  BridgeInv'
<1>1. PICK r : r = h[c]
  OBVIOUS
<1>2. Fits(r) /\ r.pc = "call"
  BY <1>1 DEF BridgeInv, Call
<1>3. /\ Shaped(r) /\ Fresh(r, old) /\ Keyless(r) /\ UserServes(r) /\ r.open /\ r.msg.said = r.token
      /\ r.kind = "http" /\ r.msg.old \subseteq OutOfService
  BY <1>2 DEF Fits, Good, Reached
<1>4. Registered(r) /\ KeyServes(r) /\ Backed(r) /\ ~r.applied
  BY <1>3 DEF Registered, Entered, KeyServes, Keyless
<1>5. CASE ~r.msg.needsKey
  <2>1. Serves(r)
    BY <1>3, <1>4, <1>5 DEF Serves, Keyed
  <2>2. Fits(Enforce(r))
    BY <1>3, <1>4, <2>1, EnforceGood
  <2> QED
    BY <1>1, <1>5, <2>2, HandlerStepInv DEF Call
<1>6. CASE r.msg.needsKey /\ r.msg.key = None
  <2>1. Fits(Reply(r))
    BY <1>3, <1>4, ReplyGood
  <2> QED
    BY <1>1, <1>6, <2>1, HandlerStepInv DEF Call
<1>7. CASE r.msg.needsKey /\ r.msg.key # None
  <2>1. PICK s : s = [r EXCEPT !.pc = "key"]
    OBVIOUS
  <2>2. Like(s, r) /\ s.pc = "key" /\ s.msg = r.msg
    BY <1>3, <2>1, MoveIsLike DEF Shaped, Pcs, Awaits
  <2>3. Shaped(s) /\ Fresh(s, old) /\ Backed(s) /\ UserServes(s)
    BY <1>3, <1>4, <2>2, LikeKeeps, LikeMessageKeeps
  <2>4. Fits(s)
    BY <1>3, <1>4, <2>2, <2>3 DEF Fits, Good, Reached, Like, Keyless
  <2> QED
    BY <1>1, <1>7, <2>1, <2>4, HandlerStepInv DEF Call
<1> QED
  BY <1>5, <1>6, <1>7

LEMMA OpenInv ==
  ASSUME BridgeInv, NEW c \in Conns, Open(c)
  PROVE  BridgeInv'
<1>1. PICK q : q = h[c]
  OBVIOUS
<1>2. PICK r : r = [q EXCEPT !.uid = TRUE]
  OBVIOUS
<1>3. Fits(q) /\ q.pc = "accept"
  BY <1>1 DEF BridgeInv, Open
<1>4. /\ Shaped(q) /\ Fresh(q, old) /\ Keyless(q) /\ (q.open \/ q.cut) /\ q.kind = "socket"
      /\ q.msg.old \subseteq OutOfService /\ q \in Handlers
  BY <1>3 DEF Fits, Good, Reached, Shaped
<1>5. /\ r \in Handlers /\ r.uid = TRUE
      /\ r.kind = q.kind /\ r.open = q.open /\ r.token = q.token /\ r.fan = q.fan
      /\ r.user = q.user /\ r.cached = q.cached /\ r.exp = q.exp /\ r.authFresh = q.authFresh
      /\ r.keyValid = q.keyValid /\ r.key = q.key /\ r.keyFresh = q.keyFresh /\ r.applied = q.applied
      /\ r.keyUser = q.keyUser /\ r.cut = q.cut /\ r.moved = q.moved /\ r.msg = q.msg
  BY <1>2, <1>4 DEF Handlers
<1>6. Shaped(r) /\ Fresh(r, old)
  BY <1>4, <1>5 DEF Shaped, Fresh, FreshKey, FreshToken
<1>7. Keyless(r) /\ Entered(r) /\ r.fan = {}
  BY <1>3, <1>4, <1>5 DEF Keyless, Backed, Entered, Fits, Good, Reached, Shaped
<1>8. CASE r.msg.key = None
  <2>1. Fits(Reply(r))
    BY <1>6, <1>7, ReplyEntered DEF Keyless
  <2> QED
    BY <1>1, <1>2, <1>8, <2>1, HandlerStepInv DEF Open
<1>9. CASE r.msg.key # None
  <2>1. PICK s : s = [r EXCEPT !.pc = "opening"]
    OBVIOUS
  <2>2. Like(s, r) /\ s.pc = "opening" /\ s.msg = r.msg
    BY <1>5, <2>1, MoveIsLike DEF Pcs, Awaits
  <2>3. Shaped(s) /\ Fresh(s, old) /\ Backed(s) /\ Entered(s)
    BY <1>6, <1>7, <2>2, LikeKeeps DEF Keyless
  <2>4. Fits(s)
    BY <1>4, <1>5, <1>7, <2>2, <2>3 DEF Fits, Good, Reached, Like, Keyless
  <2> QED
    BY <1>1, <1>2, <1>9, <2>1, <2>4, HandlerStepInv DEF Open
<1> QED
  BY <1>8, <1>9

LEMMA OpenedInv ==
  ASSUME BridgeInv, NEW c \in Conns, Opened(c)
  PROVE  BridgeInv'
<1>1. PICK r : r = h[c]
  OBVIOUS
<1>2. WorldOK /\ Fits(r) /\ r.pc = "opening"
  BY <1>1 DEF BridgeInv, Opened
<1>3. /\ Shaped(r) /\ Fresh(r, old) /\ Keyless(r) /\ Entered(r) /\ r.kind = "socket"
      /\ r.msg.old \subseteq OutOfService /\ Backed(r) /\ r.key = None
  BY <1>2 DEF Fits, Good, Reached, Keyless
<1>4. PICK k : k = r.msg.key
  OBVIOUS
<1>5. CASE Accepts(k)
  <2>1. PICK s : s = HoldKey(r, k)
    OBVIOUS
  <2>2. Shaped(s) /\ Fresh(s, old) /\ Backed(s) /\ s.open = r.open /\ s.uid = r.uid /\ s.kind = r.kind
    BY <1>2, <1>3, <1>5, <2>1, HoldKeyKeeps
  <2>3. Fits(Reply(s))
    BY <1>3, <2>2, ReplyEntered DEF Registered, Entered
  <2> QED
    BY <1>1, <1>4, <1>5, <2>1, <2>3, HandlerStepInv DEF Opened
<1>6. CASE ~Accepts(k)
  <2>1. PICK s : s = [r EXCEPT !.keyValid = "no"]
    OBVIOUS
  <2>2. /\ s \in Handlers /\ s.keyValid = "no"
        /\ s.kind = r.kind /\ s.open = r.open /\ s.uid = r.uid /\ s.token = r.token /\ s.fan = r.fan
        /\ s.user = r.user /\ s.cached = r.cached /\ s.exp = r.exp /\ s.authFresh = r.authFresh
        /\ s.key = r.key /\ s.keyFresh = r.keyFresh /\ s.applied = r.applied /\ s.keyUser = r.keyUser /\ s.cut = r.cut /\ s.moved = r.moved
    BY <1>3, <2>1 DEF Shaped, Handlers
  <2>3. Shaped(s) /\ Fresh(s, old)
    BY <1>3, <2>2 DEF Shaped, Fresh, FreshKey, FreshToken
  <2>4. Backed(s) /\ Entered(s)
    BY <1>3, <2>2 DEF Backed, Registered, Entered
  <2>5. Fits(Reply(s))
    BY <2>3, <2>4, ReplyEntered
  <2> QED
    BY <1>1, <1>4, <1>6, <2>1, <2>5, HandlerStepInv DEF Opened
<1> QED
  BY <1>5, <1>6

LEMMA RecheckedInv ==
  ASSUME BridgeInv, NEW c \in Conns, Rechecked(c)
  PROVE  BridgeInv'
<1>1. PICK q : q = h[c]
  OBVIOUS
<1>2. PICK f : f = row[q.key.id]
  OBVIOUS
<1>0. PICK m : m = (q.moved \/ f.user # q.key.user)
  OBVIOUS
<1>3. PICK r : r = [q EXCEPT !.keyFresh = TRUE, !.keyUser = "unset", !.key = f, !.moved = m]
  OBVIOUS
<1>4. WorldOK /\ Fits(q) /\ q.pc = "recheck"
  BY <1>1 DEF BridgeInv, Rechecked
<1>5. Shaped(q) /\ Fresh(q, old) /\ Asks(q) /\ q.key # None /\ q.msg.old \subseteq OutOfService
  BY <1>4 DEF Fits, Good, Reached
<1>6. q.key.id \in Keys
  BY <1>5 DEF Shaped, Handlers, Records
<1>7. f \in Records /\ f # None /\ f.id = q.key.id
  BY <1>2, <1>4, <1>6, BridgeAssumption DEF BridgeAssumption, WorldOK
<1>8. /\ r \in Handlers /\ r.keyFresh = TRUE /\ r.keyUser = "unset" /\ r.key = f
      /\ r.kind = q.kind /\ r.open = q.open /\ r.uid = q.uid /\ r.token = q.token /\ r.fan = q.fan
      /\ r.user = q.user /\ r.cached = q.cached /\ r.exp = q.exp /\ r.authFresh = q.authFresh
      /\ r.keyValid = q.keyValid /\ r.applied = q.applied /\ r.msg = q.msg
      /\ r.cut = q.cut /\ r.moved = m
  <2>1. q \in Handlers
    BY <1>5 DEF Shaped
  <2>2. m \in BOOLEAN
    BY <1>0
  <2>3. r \in Handlers
    BY <1>3, <1>7, <2>1, <2>2 DEF Handlers
  <2>4. r.keyFresh = TRUE /\ r.keyUser = "unset" /\ r.key = f /\ r.moved = m
    BY <1>3, <2>1 DEF Handlers
  <2>5. /\ r.kind = q.kind /\ r.open = q.open /\ r.uid = q.uid /\ r.token = q.token /\ r.fan = q.fan
        /\ r.user = q.user /\ r.cached = q.cached /\ r.exp = q.exp /\ r.authFresh = q.authFresh
    BY <1>3, <2>1 DEF Handlers
  <2>6. r.keyValid = q.keyValid /\ r.applied = q.applied /\ r.msg = q.msg /\ r.cut = q.cut
    BY <1>3, <2>1 DEF Handlers
  <2> QED
    BY <2>3, <2>4, <2>5, <2>6
<1>10. "unset" \notin Users
  BY BridgeAssumption DEF BridgeAssumption
<1>9. Shaped(r) /\ Asks(r)
  <2>1. Shaped(r)
    BY <1>5, <1>7, <1>8, <1>10 DEF Shaped
  <2>2. Backed(q) /\ Registered(q)
    BY <1>5 DEF Asks
  <2>3. ASSUME NEW u \in Users, q.key.user = u \/ q.moved
        PROVE  f.user = u \/ r.moved
    BY <1>0, <1>8, <2>3
  <2>4. r.fan # {} => IF r.token # None THEN r.fan = {Subject[r.token]}
                      ELSE r.key # None /\ \E u \in Users : r.fan = {u} /\ (r.key.user = u \/ r.moved)
    BY <1>5, <1>7, <1>8, <2>2, <2>3 DEF Backed
  <2>5. Backed(r) /\ Registered(r)
    BY <1>8, <2>2, <2>4 DEF Backed, Registered, Entered
  <2> QED
    BY <1>5, <1>8, <2>1, <2>5 DEF Asks
<1>11. CASE Refusal(f)
  <2>1. FreshToken(r, old)
    BY <1>5, <1>8 DEF Fresh, FreshToken
  <2>2. Fits(Forget(r))
    BY <1>4, <1>5, <1>8, <1>9, <2>1, ForgetGood
  <2> QED
    BY <1>0, <1>1, <1>2, <1>3, <1>11, <2>2, HandlerStepInv DEF Rechecked
<1>12. CASE ~Refusal(f)
  <2>1. f.id \notin old /\ f.id \notin OutOfService
    <3>1. Accepts(f.id) /\ ~row[f.id].disabled
      BY <1>2, <1>6, <1>7, <1>12 DEF Accepts, Refusal
    <3> QED
      BY <1>4, <1>6, <1>7, <3>1, InServiceIsNotOld, InServiceIsNotOut
  <2>2. Fresh(r, old)
    BY <1>5, <1>8, <1>10, <2>1 DEF Fresh, FreshKey, FreshToken
  <2>3. KeyServes(r)
    BY <1>5, <1>8, <1>10, <2>1 DEF KeyServes
  <2>4. Fits(CheckKey(r, FALSE))
    BY <1>4, <1>5, <1>8, <1>9, <2>2, <2>3, CheckKeyGood
  <2> QED
    BY <1>0, <1>1, <1>2, <1>3, <1>12, <2>4, HandlerStepInv DEF Rechecked
<1> QED
  BY <1>11, <1>12

LEMMA KeyAnsweredInv ==
  ASSUME BridgeInv, NEW c \in Conns, KeyAnswered(c)
  PROVE  BridgeInv'
<1>1. PICK r : r = h[c]
  OBVIOUS
<1>2. PICK k : k = r.msg.key
  OBVIOUS
<1>3. WorldOK /\ Fits(r) /\ r.pc = "key"
  BY <1>1 DEF BridgeInv, KeyAnswered
<1>4. /\ Shaped(r) /\ Fresh(r, old) /\ r.key = None /\ ~r.applied /\ Backed(r)
      /\ r.msg.old \subseteq OutOfService
      /\ IF r.kind = "socket" THEN Asks(r) ELSE UserServes(r) /\ r.open /\ r.msg.said = r.token
  BY <1>3 DEF Fits, Good, Reached, Keyless
<1>5. r.kind \in {"http", "socket"} /\ k \in Keys \cup {Forged, None}
  BY <1>2, <1>4 DEF Shaped, Handlers, Carried
<1>6. Registered(r)
  BY <1>4 DEF Registered, Entered, Asks
<1>7. CASE Accepts(k)
  <2>1. PICK s : s = HoldKey(r, k)
    OBVIOUS
  <2>2. /\ Shaped(s) /\ Fresh(s, old) /\ Backed(s) /\ KeyServes(s) /\ s.key # None
        /\ s.kind = r.kind /\ s.open = r.open /\ s.uid = r.uid /\ s.token = r.token /\ s.user = r.user
        /\ s.cached = r.cached /\ s.applied = r.applied /\ s.msg = r.msg
    BY <1>3, <1>4, <1>7, <2>1, HoldKeyKeeps
  <2>3. Registered(s) /\ Keyed(s)
    BY <1>6, <2>2 DEF Registered, Entered, Keyed
  <2>4. CASE s.kind = "http"
    <3>1. UserServes(s)
      BY <1>4, <2>2, <2>4 DEF UserServes, CurrentUser
    <3>2. Serves(s)
      BY <1>4, <2>2, <2>3, <2>4, <3>1 DEF Serves
    <3>3. Fits(Enforce(s))
      BY <1>4, <2>2, <3>2, EnforceGood
    <3> QED
      BY <1>1, <1>2, <1>7, <2>1, <2>4, <3>3, HandlerStepInv DEF KeyAnswered
  <2>5. CASE s.kind # "http"
    <3>1. Asks(s)
      BY <1>4, <1>5, <2>2, <2>3, <2>5 DEF Asks
    <3>2. Fits(ReloadToken(s))
      BY <1>3, <1>4, <2>2, <2>3, <3>1, ReloadTokenGood
    <3> QED
      BY <1>1, <1>2, <1>7, <2>1, <2>5, <3>2, HandlerStepInv DEF KeyAnswered
  <2> QED
    BY <2>4, <2>5
<1>8. CASE ~Accepts(k)
  <2>1. PICK s : s = [r EXCEPT !.rejected = k]
    OBVIOUS
  <2>2. Like(s, r)
    BY <1>4, <1>5, <2>1 DEF Shaped, Handlers, Like
  <2>3. Fits(Reply(s))
    BY <1>4, <1>6, <2>2, LikeKeeps, ReplyGood
  <2> QED
    BY <1>1, <1>2, <1>8, <2>1, <2>3, HandlerStepInv DEF KeyAnswered
<1> QED
  BY <1>7, <1>8

LEMMA TokenAnsweredInv ==
  ASSUME BridgeInv, NEW c \in Conns, TokenAnswered(c)
  PROVE  BridgeInv'
<1>1. PICK r : r = h[c]
  OBVIOUS
<1>2. PICK f : f = LooksUp(r, r.msg.token)
  OBVIOUS
<1>3. PICK s : s = [f EXCEPT !.failed = FALSE]
  OBVIOUS
<1>4. WorldOK /\ Fits(r) /\ r.pc = "token"
  BY <1>1 DEF BridgeInv, TokenAnswered
<1>5. /\ Shaped(r) /\ Fresh(r, old) /\ LooksFor(r) /\ Registered(r) /\ Keyed(r) /\ KeyServes(r)
      /\ r.msg.old \subseteq OutOfService
  BY <1>4 DEF Fits, Good, Reached
<1>6. /\ Shaped(f) /\ Fresh(f, old) /\ Backed(f) /\ UserServes(f)
      /\ f.token = r.token /\ f.cached = r.cached /\ ~f.applied
      /\ f.kind = r.kind /\ f.open = r.open /\ f.uid = r.uid
      /\ f.key = r.key /\ f.keyUser = r.keyUser /\ f.cut = r.cut /\ f.msg = r.msg
  BY <1>2, <1>4, <1>5, LooksUpKeeps DEF Registered
<1>7. Like(s, f) /\ s.msg = f.msg
  BY <1>3, <1>6 DEF Like, Shaped, Handlers
<1>8. Shaped(s) /\ Fresh(s, old) /\ Backed(s) /\ UserServes(s)
  BY <1>6, <1>7, LikeKeeps, LikeMessageKeeps
<1>9. Registered(s) /\ Keyed(s) /\ KeyServes(s)
  BY <1>5, <1>6, <1>7 DEF Like, Registered, Entered, Keyed, KeyServes
<1>10. Serves(s) /\ ~s.applied
  BY <1>5, <1>6, <1>7, <1>8, <1>9 DEF Like, Serves, LooksFor
<1>11. Fits(Enforce(s))
  BY <1>5, <1>6, <1>7, <1>8, <1>10, EnforceGood
<1> QED
  BY <1>1, <1>2, <1>3, <1>11, HandlerStepInv DEF TokenAnswered

LEMMA KeyUserAnsweredInv ==
  ASSUME BridgeInv, NEW c \in Conns, KeyUserAnswered(c)
  PROVE  BridgeInv'
<1>1. PICK q : q = h[c]
  OBVIOUS
<1>2. PICK u : u = q.key.user
  OBVIOUS
<1>3. PICK v : v = IF u \in active THEN u ELSE None
  OBVIOUS
<1>4. PICK r : r = [q EXCEPT !.keyUser = v]
  OBVIOUS
<1>5. WorldOK /\ Fits(q) /\ q.pc = "keyuser"
  BY <1>1 DEF BridgeInv, KeyUserAnswered
<1>6. /\ Shaped(q) /\ Fresh(q, old) /\ AsksKeyUser(q) /\ q.msg.old \subseteq OutOfService /\ u # None
  BY <1>2, <1>5 DEF Fits, Good, Reached, AsksKeyUser
<1>7. u \in Users /\ v \in Users \cup {None}
  <2>1. q.key \in Records
    BY <1>6 DEF Shaped, Handlers, AsksKeyUser
  <2> QED
    BY <1>2, <1>3, <1>6, <2>1 DEF Records
<1>8. /\ r \in Handlers /\ r.keyUser = v
      /\ r.kind = q.kind /\ r.open = q.open /\ r.uid = q.uid /\ r.token = q.token /\ r.fan = q.fan
      /\ r.user = q.user /\ r.cached = q.cached /\ r.exp = q.exp /\ r.authFresh = q.authFresh
      /\ r.keyValid = q.keyValid /\ r.key = q.key /\ r.keyFresh = q.keyFresh /\ r.applied = q.applied
      /\ r.msg = q.msg /\ r.cut = q.cut /\ r.moved = q.moved
  BY <1>4, <1>6, <1>7 DEF Shaped, Handlers
<1>9. Shaped(r)
  <2>1. v \in Users => v = r.key.user
    BY <1>2, <1>3, <1>8, BridgeAssumption DEF BridgeAssumption
  <2> QED
    BY <1>6, <1>8, <2>1 DEF Shaped
<1>10. v \notin old /\ v \notin q.msg.old
  BY <1>3, <1>5, <1>6, InServiceIsNotOld, InServiceIsNotOut
<1>11. Fresh(r, old)
  BY <1>6, <1>8, <1>10 DEF Fresh, FreshKey, FreshToken
<1>12. AsksKeyUser(r)
  BY <1>6, <1>8, <1>10
  DEF AsksKeyUser, Serves, Backed, Registered, Entered, Keyed, KeyServes, UserServes, CurrentUser
<1>13. CASE u \in active
  <2>1. v = u /\ v # None
    BY <1>3, <1>6, <1>13
  <2>2. Fits(AsKeyUser(r, u))
    BY <1>2, <1>6, <1>7, <1>8, <1>9, <1>10, <1>11, <1>12, <2>1, AsKeyUserGood
  <2> QED
    BY <1>1, <1>2, <1>3, <1>4, <1>8, <2>1, <2>2, HandlerStepInv DEF KeyUserAnswered, AsKeyUser
<1>14. CASE u \notin active
  <2>1. v = None
    BY <1>3, <1>14
  <2>2. Fits(Reply(Clear(r)))
    BY <1>9, <1>11, <1>12, NoKeyUserGood
  <2> QED
    BY <1>1, <1>2, <1>3, <1>4, <1>8, <2>1, <2>2, HandlerStepInv DEF KeyUserAnswered
<1> QED
  BY <1>13, <1>14

LEMMA ServedInv ==
  ASSUME BridgeInv, NEW c \in Conns, Served(c)
  PROVE  BridgeInv'
<1>1. PICK r : r = h[c]
  OBVIOUS
<1>2. Fits(r) /\ r.pc = "serve"
  BY <1>1 DEF BridgeInv, Served
<1>3. Shaped(r) /\ Fresh(r, old) /\ Backed(r) /\ Registered(r)
  BY <1>2 DEF Fits, Good, Reached, Serves
<1>4. PICK s : s = [r EXCEPT !.cached = CurrentUser(r)]
  OBVIOUS
<1>5. CurrentUser(r) \in {None, r.user} /\ (r.open => CurrentUser(r) = r.user)
  BY <1>3 DEF Shaped, CurrentUser
<1>6. r.user \in Users \cup {None}
  BY <1>3 DEF Shaped, Handlers
<1>7. CurrentUser(r) \in Users \cup {None, "unset"}
  BY <1>5, <1>6
<1>8. /\ s \in Handlers /\ s.cached = CurrentUser(r)
      /\ s.kind = r.kind /\ s.open = r.open /\ s.uid = r.uid /\ s.token = r.token /\ s.fan = r.fan
      /\ s.user = r.user /\ s.exp = r.exp /\ s.authFresh = r.authFresh
      /\ s.keyValid = r.keyValid /\ s.key = r.key /\ s.keyFresh = r.keyFresh /\ s.applied = r.applied
      /\ s.keyUser = r.keyUser /\ s.cut = r.cut /\ s.moved = r.moved
  BY <1>3, <1>4, <1>7 DEF Shaped, Handlers
<1>9. Shaped(s)
  BY <1>3, <1>5, <1>8 DEF Shaped
<1>10. Fresh(s, old) /\ Backed(s) /\ Registered(s)
  BY <1>3, <1>8 DEF Fresh, FreshKey, FreshToken, Backed, Registered, Entered
<1>11. Fits(Reply(r)) /\ Fits(Reply(s))
  BY <1>3, <1>9, <1>10, ReplyGood
<1> QED
  BY <1>1, <1>4, <1>11, HandlerStepInv DEF Served

\* A lookup raises; the user of before goes when it was a token's.
LEMMA LookupFailsInv ==
  ASSUME BridgeInv, NEW c \in Conns, LookupFails(c)
  PROVE  BridgeInv'
<1>1. PICK r : r = h[c]
  OBVIOUS
<1>2. Fits(r) /\ r.pc \in Awaits /\ c \in DOMAIN h
  BY <1>1 DEF BridgeInv, LookupFails
<1>3. Shaped(r) /\ Fresh(r, old)
  BY <1>2 DEF Fits, Good
<1>4. faults' \in 0..MaxFaults /\ UNCHANGED world
  BY BridgeAssumption DEF BridgeAssumption, LookupFails, BridgeInv, WorldOK
<1>5. CASE r.pc \in {"prepare", "opening"}
  <2>0. r.fan = {}
    BY <1>2, <1>5 DEF Fits, Good, Reached, Keyless, Backed, LooksFor, Shaped
  <2>1. PICK s : s = [r EXCEPT !.pc = "gone", !.open = FALSE, !.cut = TRUE]
    OBVIOUS
  <2>2. "gone" \in Pcs
    BY DEF Pcs
  <2>3. /\ s \in Handlers /\ s.pc = "gone" /\ s.open = FALSE /\ s.cut = TRUE
        /\ s.uid = r.uid /\ s.fan = r.fan /\ s.kind = r.kind /\ s.token = r.token
        /\ s.user = r.user /\ s.cached = r.cached /\ s.exp = r.exp /\ s.authFresh = r.authFresh
        /\ s.keyValid = r.keyValid /\ s.key = r.key /\ s.keyFresh = r.keyFresh /\ s.applied = r.applied
        /\ s.keyUser = r.keyUser /\ s.msg = r.msg
    BY <1>3, <2>1, <2>2 DEF Shaped, Handlers
  <2>4. Shaped(s) /\ Fresh(s, old)
    BY <1>3, <2>0, <2>3 DEF Shaped, Fresh, FreshKey, FreshToken
  <2>5. Fits(s)
    BY <1>2, <2>3, <2>4 DEF Fits, Good, Reached
  <2>6. h' = [h EXCEPT ![c] = s]
    BY <1>1, <1>2, <1>5, <2>1 DEF LookupFails
  <2> QED
    BY <1>4, <2>5, <2>6, BecomesInv
<1>6. CASE r.pc = "token"
  <2>1. LooksFor(r) /\ Registered(r)
    BY <1>2, <1>6 DEF Fits, Good, Reached
  <2>2. PICK f : f = Clear(r)
    OBVIOUS
  <2>3. PICK s : s = [f EXCEPT !.failed = TRUE]
    OBVIOUS
  <2>4. Shaped(f) /\ Fresh(f, old) /\ Backed(f) /\ Registered(f)
    BY <1>3, <2>1, <2>2, ClearKeeps DEF LooksFor
  <2>5. Like(s, f)
    BY <2>3, <2>4 DEF Like, Shaped, Handlers
  <2>6. Fits(Reply(s))
    BY <2>4, <2>5, LikeKeeps, ReplyGood
  <2>7. h' = [h EXCEPT ![c] = Reply(s)]
    BY <1>1, <1>2, <1>6, <2>2, <2>3 DEF LookupFails
  <2> QED
    BY <1>4, <2>6, <2>7, BecomesInv
<1>7. CASE r.pc \in {"recheck", "key", "keyuser"}
  <2>1. Backed(r) /\ Registered(r)
    BY <1>2, <1>7 DEF Fits, Good, Reached, Keyless, Asks, Serves, Registered, Entered
  <2>2. Fits(Reply(r))
    BY <1>3, <2>1, ReplyGood
  <2>3. h' = [h EXCEPT ![c] = Reply(r)]
    BY <1>1, <1>2, <1>7 DEF LookupFails
  <2> QED
    BY <1>4, <2>2, <2>3, BecomesInv
<1> QED
  BY <1>2, <1>5, <1>6, <1>7 DEF Awaits

\* on_close: whatever the handler waits for, it is in no map when the answer comes.
LEMMA OnCloseInv ==
  ASSUME BridgeInv, NEW c \in Conns, OnClose(c)
  PROVE  BridgeInv'
<1>1. PICK r : r = h[c]
  OBVIOUS
<1>2. Fits(r) /\ r.open /\ (r.uid \/ r.pc = "prepare") /\ r.kind = "socket"
  BY <1>1 DEF BridgeInv, OnClose
<1>3. Shaped(r) /\ Fresh(r, old) /\ Reached(r) /\ r.msg.old \subseteq OutOfService
  BY <1>2 DEF Fits, Good
<1>4. r.pc \in {"prepare", "opening", "idle", "recheck", "key", "token", "keyuser", "serve"}
  BY <1>2, <1>3 DEF Shaped, Handlers, Pcs, Awaits, Reached
<1>5. PICK p : p = IF r.pc = "idle" THEN "gone" ELSE r.pc
  OBVIOUS
<1>6. p \in Pcs /\ p \in {"prepare", "opening", "gone", "recheck", "key", "token", "keyuser", "serve"}
  BY <1>4, <1>5 DEF Pcs, Awaits
<1>0. PICK x : x = (r.cut \/ r.pc = "prepare")
  OBVIOUS
<1>7. PICK s : s = [r EXCEPT !.open = FALSE, !.uid = FALSE, !.fan = {}, !.token = None, !.cached = None,
                             !.cut = x, !.pc = p]
  OBVIOUS
<1>8. /\ s \in Handlers /\ s.pc = p /\ s.open = FALSE /\ s.uid = FALSE /\ s.fan = {} /\ s.token = None
      /\ s.cached = None
      /\ s.kind = r.kind /\ s.user = r.user /\ s.exp = r.exp /\ s.authFresh = r.authFresh
      /\ s.keyValid = r.keyValid /\ s.key = r.key /\ s.keyFresh = r.keyFresh /\ s.applied = r.applied
      /\ s.keyUser = r.keyUser /\ s.cut = x /\ s.moved = r.moved /\ s.msg = r.msg
  <2>1. r \in Handlers
    BY <1>3 DEF Shaped
  <2>2. x \in BOOLEAN
    BY <1>0
  <2>3. s \in Handlers
    <3>1. PICK a : a = [r EXCEPT !.open = FALSE, !.uid = FALSE, !.fan = {}, !.token = None]
      OBVIOUS
    <3>2. a \in Handlers
      BY <2>1, <3>1 DEF Handlers
    <3>3. s = [a EXCEPT !.cached = None, !.cut = x, !.pc = p]
      BY <1>7, <3>1
    <3> QED
      BY <1>6, <2>2, <3>2, <3>3 DEF Handlers
  <2>4. /\ s.pc = p /\ s.open = FALSE /\ s.uid = FALSE /\ s.fan = {} /\ s.token = None
        /\ s.cached = None /\ s.cut = x
    BY <1>7, <2>1 DEF Handlers
  <2>5. s.kind = r.kind /\ s.user = r.user /\ s.exp = r.exp /\ s.authFresh = r.authFresh
    BY <1>7, <2>1 DEF Handlers
  <2>6. /\ s.keyValid = r.keyValid /\ s.key = r.key /\ s.keyFresh = r.keyFresh /\ s.applied = r.applied
        /\ s.keyUser = r.keyUser /\ s.moved = r.moved /\ s.msg = r.msg
    BY <1>7, <2>1 DEF Handlers
  <2> QED
    BY <2>3, <2>4, <2>5, <2>6
<1>9. Shaped(s) /\ Fresh(s, old)
  BY <1>3, <1>8 DEF Shaped, Fresh, FreshKey, FreshToken
<1>10. Backed(s) /\ Registered(s) /\ UserServes(s)
  <2>1. None # "unset"
    BY BridgeAssumption DEF BridgeAssumption
  <2> QED
    BY <1>8, <2>1 DEF Backed, Registered, Entered, UserServes, CurrentUser
<1>11. Reached(s)
  <2>0. CASE p = "prepare"
    <3>1. r.pc = "prepare" /\ Keyless(r) /\ LooksFor(r) /\ r.user = None /\ x
      BY <1>0, <1>3, <1>5, <2>0 DEF Reached
    <3>2. LooksFor(s)
      BY <1>8, <3>1 DEF LooksFor
    <3> QED
      BY <1>2, <1>8, <1>10, <2>0, <3>1, <3>2 DEF Reached, Keyless
  <2>1. CASE p = "gone"
    BY <1>8, <2>1 DEF Reached
  <2>2. CASE p = "opening"
    BY <1>2, <1>3, <1>5, <1>8, <1>10, <2>2 DEF Reached, Keyless, Registered
  <2>3. CASE p = "recheck"
    BY <1>2, <1>3, <1>5, <1>8, <1>10, <2>3 DEF Reached, Asks
  <2>4. CASE p = "key"
    BY <1>2, <1>3, <1>5, <1>8, <1>10, <2>4 DEF Reached, Asks, Keyless
  <2>5. CASE p = "token"
    <3>1. r.pc = "token" /\ LooksFor(r) /\ Keyed(r) /\ KeyServes(r)
      BY <1>3, <1>5, <2>5 DEF Reached
    <3>2. LooksFor(s)
      BY <1>8, <3>1 DEF LooksFor
    <3>3. Keyed(s) /\ KeyServes(s)
      BY <1>8, <3>1 DEF Keyed, KeyServes
    <3> QED
      BY <1>2, <1>8, <1>10, <2>5, <3>2, <3>3 DEF Reached
  <2>6. CASE p \in {"keyuser", "serve"}
    <3>1. Serves(r) /\ r.pc = p
      BY <1>3, <1>5, <2>6 DEF Reached
    <3>2. Keyed(s) /\ KeyServes(s)
      BY <1>8, <3>1 DEF Serves, Keyed, KeyServes
    <3>3. Serves(s)
      BY <1>8, <1>10, <3>2 DEF Serves
    <3> QED
      BY <1>3, <1>8, <2>6, <3>1, <3>3 DEF Reached
  <2> QED
    BY <1>6, <2>0, <2>1, <2>2, <2>3, <2>4, <2>5, <2>6
<1>12. Fits(s)
  BY <1>3, <1>8, <1>9, <1>11 DEF Fits, Good
<1>13. [h EXCEPT ![c] = s] = [h EXCEPT ![c] = [h[c] EXCEPT !.open = FALSE, !.uid = FALSE, !.fan = {},
                              !.token = None, !.cached = None, !.cut = @ \/ h[c].pc = "prepare",
                              !.pc = IF @ = "idle" THEN "gone" ELSE @]]
  BY <1>0, <1>1, <1>3, <1>5, <1>7 DEF Shaped, Handlers
<1> QED
  BY <1>12, <1>13, HandlerStepInv DEF OnClose, Becomes

-----------------------------------------------------------------------------
(* Administrators and clocks take service away *)

\* Nothing a handler holds depends on what is still in service.
LEMMA WorldStepInv ==
  ASSUME BridgeInv, WorldOK', h' = h, old' = old, OutOfService \subseteq OutOfService'
  PROVE  BridgeInv'
<1>1. \A c \in Conns : Good(h[c], old) /\ h[c].msg.old \subseteq OutOfService
  BY DEF BridgeInv, Fits
<1>2. \A c \in Conns : Fits(h[c])'
  BY <1>1 DEF Fits
<1> QED
  BY <1>2 DEF BridgeInv

LEMMA CmdRevokeInv ==
  ASSUME BridgeInv, NEW k \in Keys, CmdRevoke(k)
  PROVE  BridgeInv'
<1>1. UNCHANGED <<h, active, live, lapsed, old, lapses, faults>>
  BY DEF CmdRevoke, Change
<1>2. changes' \in 0..MaxChanges
  BY BridgeAssumption DEF BridgeAssumption, BridgeInv, WorldOK, CmdRevoke, Change
<1>3. row \in [Keys -> Records] /\ \A j \in Keys : row[j].id = j
  BY DEF BridgeInv, WorldOK
<1>4. row' = [row EXCEPT ![k] = [row[k] EXCEPT !.disabled = TRUE]]
  BY DEF CmdRevoke
<1>5. PICK f : f = [row[k] EXCEPT !.disabled = TRUE]
  OBVIOUS
<1>6. f \in Records /\ f.id = k /\ f.disabled
  <2>1. PICK q \in Records : q = row[k] /\ q.id = k
    BY <1>3
  <2>2. f = [q EXCEPT !.disabled = TRUE]
    BY <1>5, <2>1
  <2> QED
    BY <2>1, <2>2 DEF Records
<1>7. /\ row' \in [Keys -> Records] /\ \A j \in Keys : row'[j].id = j
      /\ \A j \in Keys : row[j].disabled => row'[j].disabled
  BY <1>3, <1>4, <1>5, <1>6
<1>8. WorldOK'
  BY <1>1, <1>2, <1>7 DEF BridgeInv, WorldOK
<1> QED
  BY <1>1, <1>8, WorldStepInv DEF OutOfService

LEMMA CmdUpdateInv ==
  ASSUME BridgeInv, NEW k \in Keys, NEW u \in Users \cup {None}, NEW may \in BOOLEAN, CmdUpdate(k, u, may)
  PROVE  BridgeInv'
<1>1. UNCHANGED <<h, active, live, lapsed, old, lapses, faults>>
  BY DEF CmdUpdate, Change
<1>2. changes' \in 0..MaxChanges
  BY BridgeAssumption DEF BridgeAssumption, BridgeInv, WorldOK, CmdUpdate, Change
<1>3. row \in [Keys -> Records] /\ \A j \in Keys : row[j].id = j
  BY DEF BridgeInv, WorldOK
<1>4. PICK f : f = [row[k] EXCEPT !.user = u, !.may = may]
  OBVIOUS
<1>5. row' = [row EXCEPT ![k] = f]
  BY <1>3, <1>4 DEF CmdUpdate, Records
<1>6. f \in Records /\ f.id = k /\ f.disabled = row[k].disabled
  <2>1. PICK q \in Records : q = row[k] /\ q.id = k
    BY <1>3
  <2>2. f = [q EXCEPT !.user = u, !.may = may]
    BY <1>4, <2>1
  <2> QED
    BY <2>1, <2>2 DEF Records
<1>7. /\ row' \in [Keys -> Records] /\ \A j \in Keys : row'[j].id = j
      /\ \A j \in Keys : row[j].disabled => row'[j].disabled
  BY <1>3, <1>5, <1>6
<1>8. WorldOK'
  BY <1>1, <1>2, <1>7 DEF BridgeInv, WorldOK
<1> QED
  BY <1>1, <1>8, WorldStepInv DEF OutOfService

LEMMA ExpiryInv ==
  ASSUME BridgeInv,
         \/ \E k \in Keys : KeyExpires(k)
         \/ \E t \in Tokens : TokenExpires(t)
         \/ \E u \in Users : DisableUser(u)
  PROVE  BridgeInv'
<1>1. UNCHANGED <<h, row, old, lapses, faults>>
  BY DEF KeyExpires, TokenExpires, DisableUser, Change
<1>2. changes' \in 0..MaxChanges
  BY BridgeAssumption DEF BridgeAssumption, BridgeInv, WorldOK, KeyExpires, TokenExpires, DisableUser, Change
<1>3. active' \subseteq active /\ live' \subseteq live /\ lapsed \subseteq lapsed' /\ lapsed' \subseteq Keys
  BY DEF BridgeInv, WorldOK, KeyExpires, TokenExpires, DisableUser
<1>4. WorldOK'
  BY <1>1, <1>2, <1>3 DEF BridgeInv, WorldOK
<1> QED
  BY <1>1, <1>3, <1>4, WorldStepInv DEF OutOfService

\* The interval goes by: everything is to be looked up again.
LEMMA LapseInv ==
  ASSUME BridgeInv, Lapse
  PROVE  BridgeInv'
<1>1. UNCHANGED <<active, live, row, lapsed, changes, faults>>
  BY DEF Lapse
<1>2. lapses' \in 0..MaxLapses
  <2>1. lapses \in 0..MaxLapses /\ MaxLapses \in Nat
    BY BridgeAssumption DEF BridgeAssumption, BridgeInv, WorldOK
  <2>2. lapses < MaxLapses /\ lapses' = lapses + 1
    BY DEF Lapse
  <2> QED
    BY <2>1, <2>2
<1>3. old' = (Users \ active) \cup {k \in Keys : row[k].disabled}
  BY DEF Lapse
<1>4. Users \cap Keys = {}
  BY BridgeAssumption DEF BridgeAssumption
<1>5. old \subseteq old' /\ old' \subseteq Users \cup Keys /\ old' \cap active = {}
      /\ \A k \in Keys \cap old' : row[k].disabled
  BY <1>3, <1>4 DEF BridgeInv, WorldOK
<1>6. WorldOK'
  BY <1>1, <1>2, <1>5 DEF BridgeInv, WorldOK
<1>7. OutOfService \subseteq OutOfService'
  BY <1>1, <1>5 DEF OutOfService
<1>8. ASSUME NEW c \in Conns
      PROVE  Fits(h[c])'
  <2>1. PICK r : r = h[c]
    OBVIOUS
  <2>2. Shaped(r) /\ Reached(r) /\ r.msg.old \subseteq OutOfService
    BY <2>1 DEF BridgeInv, Fits, Good
  <2>3. PICK s : s = [r EXCEPT !.keyFresh = FALSE, !.authFresh = FALSE]
    OBVIOUS
  <2>4. h'[c] = s
    BY <2>1, <2>3 DEF Lapse
  <2>5. /\ s \in Handlers /\ s.keyFresh = FALSE /\ s.authFresh = FALSE
        /\ s.pc = r.pc /\ s.kind = r.kind /\ s.open = r.open /\ s.uid = r.uid /\ s.token = r.token
        /\ s.fan = r.fan /\ s.user = r.user /\ s.cached = r.cached /\ s.exp = r.exp
        /\ s.keyValid = r.keyValid /\ s.key = r.key /\ s.applied = r.applied
        /\ s.keyUser = r.keyUser /\ s.cut = r.cut /\ s.moved = r.moved /\ s.msg = r.msg
    BY <2>2, <2>3 DEF Shaped, Handlers
  <2>6. Shaped(s)
    BY <2>2, <2>5 DEF Shaped
  <2>7. Fresh(s, old')
    BY <2>5 DEF Fresh, FreshKey, FreshToken
  <2>8. Reached(s)
    <3>1. /\ (Backed(r) => Backed(s)) /\ (Entered(r) => Entered(s)) /\ (Registered(r) => Registered(s))
          /\ (Keyed(r) => Keyed(s))
      BY <2>5 DEF Backed, Registered, Entered, Keyed
    <3>2. (KeyServes(r) => KeyServes(s)) /\ (UserServes(r) => UserServes(s)) /\ (LooksFor(r) => LooksFor(s))
      BY <2>5 DEF KeyServes, UserServes, CurrentUser, LooksFor
    <3>3. (Serves(r) => Serves(s)) /\ (Asks(r) => Asks(s)) /\ (Keyless(r) => Keyless(s))
      BY <2>5, <3>1, <3>2 DEF Serves, Asks, Keyless
    <3> QED
      BY <2>2, <2>5, <3>1, <3>2, <3>3 DEF Reached
  <2>9. s.msg.old \subseteq OutOfService'
    BY <1>7, <2>2, <2>5
  <2> QED
    BY <2>4, <2>6, <2>7, <2>8, <2>9 DEF Fits, Good
<1>9. h' = [c \in Conns |-> h'[c]]
  BY DEF Lapse
<1> QED
  BY <1>6, <1>8, <1>9 DEF BridgeInv

-----------------------------------------------------------------------------
(* The invariant *)

LEMMA InitInv == Init => BridgeInv
<1> SUFFICES ASSUME Init PROVE BridgeInv
  OBVIOUS
<1>1. WorldOK
  BY BridgeAssumption DEF BridgeAssumption, Init, WorldOK
<1>2. PICK kind \in [Conns -> {"http", "socket"}] : h = [c \in Conns |-> Handler0(kind[c])]
  BY DEF Init
<1>3. ASSUME NEW c \in Conns
      PROVE  Fits(h[c])
  <2>1. PICK r : r = h[c]
    OBVIOUS
  <2>2. NoMessage \in Carried /\ NoMessage.old = {} /\ "new" \in Pcs
    BY DEF NoMessage, Carried, Pcs
  <2>3. /\ r \in Handlers /\ r.pc = "new" /\ r.open /\ ~r.uid /\ r.fan = {} /\ r.token = None /\ r.user = None
        /\ r.cached = "unset" /\ ~r.exp /\ r.keyValid = "unset" /\ r.key = None /\ ~r.keyFresh /\ ~r.applied
        /\ r.msg = NoMessage /\ ~r.cut /\ r.keyUser = "unset"
    BY <1>2, <2>1, <2>2 DEF Handler0, Handlers
  <2>4. Shaped(r) /\ Fresh(r, old)
    BY <2>3, BridgeAssumption DEF BridgeAssumption, Shaped, Fresh, FreshKey, FreshToken
  <2>5. Reached(r)
    BY <2>3 DEF Reached, Keyless, Backed
  <2> QED
    BY <2>1, <2>2, <2>3, <2>4, <2>5 DEF Fits, Good
<1> QED
  BY <1>1, <1>2, <1>3 DEF BridgeInv

LEMMA NextInv == BridgeInv /\ [Next]_vars => BridgeInv'
<1> SUFFICES ASSUME BridgeInv, [Next]_vars PROVE BridgeInv'
  OBVIOUS
<1>1. ASSUME NEW c \in Conns, Handle(c)
      PROVE  BridgeInv'
  BY <1>1, PreparedInv, CallInv, OpenInv, OpenedInv, RecheckedInv, KeyAnsweredInv, TokenAnsweredInv,
     KeyUserAnsweredInv, ServedInv DEF Handle
<1>2. ASSUME NEW c \in Conns, LookupFails(c) \/ OnClose(c)
      PROVE  BridgeInv'
  BY <1>2, LookupFailsInv, OnCloseInv
<1>3. ASSUME NEW c \in Conns, NEW m \in Messages, Prepare(c, m) \/ Receive(c, m)
      PROVE  BridgeInv'
  BY <1>3, PrepareInv, ReceiveInv
<1>4. ASSUME NEW k \in Keys, CmdRevoke(k) \/ KeyExpires(k)
      PROVE  BridgeInv'
  BY <1>4, CmdRevokeInv, ExpiryInv
<1>5. ASSUME NEW k \in Keys, NEW u \in Users \cup {None}, NEW may \in BOOLEAN, CmdUpdate(k, u, may)
      PROVE  BridgeInv'
  BY <1>5, CmdUpdateInv
<1>6. CASE (\E t \in Tokens : TokenExpires(t)) \/ (\E u \in Users : DisableUser(u))
  BY <1>6, ExpiryInv
<1>7. CASE Lapse
  BY <1>7, LapseInv
<1>8. CASE UNCHANGED vars
  <2>1. WorldOK' /\ h' = h /\ old' = old /\ OutOfService' = OutOfService
    BY <1>8 DEF vars, BridgeInv, WorldOK, OutOfService
  <2> QED
    BY <2>1, WorldStepInv
<1> QED
  BY <1>1, <1>2, <1>3, <1>4, <1>5, <1>6, <1>7, <1>8 DEF Next

-----------------------------------------------------------------------------
(* The theorems *)

LEMMA BridgeInvariant == Spec => []BridgeInv
BY InitInv, NextInv, PTL DEF Spec

\* The connection manager's maps hold a handler only while it is open, or when it was cut off
\* before open() had returned; and its fan-out lists hold an open one under one user, whom the
\* standing token names or whom the record of the key held named when it was listed.  on_close
\* may run at any await, and a token or a key may go while another is being looked up.
THEOREM HandlersAreBacked == Spec => []MapsBacked
<1>1. BridgeInv => TypeOK
  <2> SUFFICES ASSUME BridgeInv PROVE TypeOK
    OBVIOUS
  <2>1. ASSUME NEW c \in Conns
        PROVE  LET r == h[c]
               IN  /\ r.pc \in Awaits \cup {"new", "call", "accept", "idle", "serve", "gone"}
                   /\ r.fan \subseteq Users /\ r.token \in Tokens \cup {None} /\ r.user \in Users \cup {None}
                   /\ r.cached \in Users \cup {None, "unset"} /\ r.keyUser \in Users \cup {None, "unset"}
                   /\ r.key \in Records \cup {None} /\ r.keyValid \in {"unset", "yes", "no"}
                   /\ r.keyValid = "yes" <=> r.key # None
                   /\ r.uid => r.kind = "socket"
    <3>1. Shaped(h[c])
      BY DEF BridgeInv, Fits, Good
    <3> QED
      BY <3>1 DEF Shaped, Handlers, Pcs
  <2>2. changes <= MaxChanges /\ lapses <= MaxLapses /\ faults <= MaxFaults
    BY BridgeAssumption DEF BridgeAssumption, BridgeInv, WorldOK
  <2> QED
    BY <2>1, <2>2 DEF TypeOK, BridgeInv, WorldOK
<1>2. BridgeInv => NoGhost
  <2> SUFFICES ASSUME BridgeInv, NEW c \in Conns, ~h[c].open
               PROVE  h[c].fan = {} /\ (h[c].uid => h[c].cut)
    BY DEF NoGhost
  <2>1. Shaped(h[c])
    BY DEF BridgeInv, Fits, Good
  <2> QED
    BY <2>1 DEF Shaped
<1>3. BridgeInv => FanBacked
  <2> SUFFICES ASSUME BridgeInv, NEW c \in Conns, NEW u \in Users, h[c].pc = "idle", u \in h[c].fan
               PROVE  /\ h[c].fan = {u}
                      /\ IF h[c].token # None THEN Subject[h[c].token] = u
                         ELSE h[c].key # None /\ (h[c].key.user = u \/ h[c].moved)
    BY DEF FanBacked
  <2>1. Backed(h[c])
    BY DEF BridgeInv, Fits, Good, Reached
  <2> QED
    BY <2>1 DEF Backed
<1> QED
  BY <1>1, <1>2, <1>3, BridgeInvariant, PTL DEF MapsBacked

\* A key, a token, a user or an administrator behind an impersonation that was out of
\* service a whole recheck interval before a message came in does not serve it, whatever
\* was cached on the socket and whatever the handler was waiting for meanwhile.
THEOREM ServiceIsFresh == Spec => []ServedFresh
<1>1. BridgeInv => ServedFresh
  <2> SUFFICES ASSUME BridgeInv, NEW c \in Conns, NEW r, r = h[c], r.pc = "serve"
               PROVE  /\ r.msg.needsKey => r.key.id \notin r.msg.old
                      /\ CurrentUser(r) # None => CurrentUser(r) \notin r.msg.old
                      /\ CurrentUser(r) # None /\ r.token # None =>
                           {r.token, Impersonator[r.token]} \cap r.msg.old = {}
    BY DEF ServedFresh
  <2>1. Serves(r)
    BY DEF BridgeInv, Fits, Good, Reached
  <2> QED
    BY <2>1 DEF Serves, Keyed, KeyServes, UserServes
<1> QED
  BY <1>1, BridgeInvariant, PTL

\* An open connection is served as the user of the token its message stands for, or as
\* nobody, and the service sees the user this message established.
THEOREM ServiceIsAsSaid == Spec => []ServedAsSaid
<1>1. BridgeInv => ServedAsSaid
  <2> SUFFICES ASSUME BridgeInv, NEW c \in Conns, NEW r, r = h[c], r.pc = "serve", r.open
               PROVE  /\ r.msg.said # None => CurrentUser(r) \in {None, Subject[r.msg.said]}
                      /\ CurrentUser(r) = r.user
    BY DEF ServedAsSaid, TokenWins, SeesCurrent
  <2>1. Shaped(r) /\ Serves(r)
    BY DEF BridgeInv, Fits, Good, Reached
  <2>2. CurrentUser(r) = r.user
    BY <2>1 DEF Shaped, CurrentUser
  <2> QED
    BY <2>1, <2>2 DEF Serves, Backed
<1> QED
  BY <1>1, BridgeInvariant, PTL
=============================================================================
