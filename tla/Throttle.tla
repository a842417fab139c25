------------------------------ MODULE Throttle ------------------------------
(***************************************************************************)
(* Rate limiting: the fixed-window counter of throttle/throttle.py, the    *)
(* @rate_limit decorator in front of it (request_handler/decorators.py)    *)
(* and the address an anonymous caller is counted under                    *)
(* (request_handler/client_ip.py).                                         *)
(*                                                                         *)
(* Several processes count into one redis.  hit() reads its own clock,     *)
(* then runs the script; the script runs atomically but up to MaxDelay     *)
(* seconds later, and the clocks of the processes are up to MaxSkew apart. *)
(* Time is counted in whole seconds, as int(time.time()) does: a key whose *)
(* time to live ends in the current second may or may not be there still.  *)
(*                                                                         *)
(* check() reads and changes nothing, so it is an operator (Peek) and not  *)
(* an action.  A clear() that fails is logged or raised and changes        *)
(* nothing either.                                                         *)
(***************************************************************************)
EXTENDS Integers, Sequences, SequencesExt

CONSTANTS
    Processes,    \* the bridge processes that share the redis
    Skew,         \* how far the clock of each process is ahead
    Clients,      \* who sends requests; one is also the address it sends from
    Local,        \* the clients whose address is no IP (they come over a unix socket)
    Proxies,      \* config["trusted_proxies"]
    Appending,    \* the proxies that append to X-Forwarded-For; each other one
                  \* drops that header and sets X-Real-IP
    Users,        \* the users a request may be authenticated as
    NoUser, NoAddress,
    FailOpen,     \* config["throttle"]["fail_open"]
    Limit,        \* max_attempts
    Window,       \* the window, in seconds
    MaxSkew,      \* bound on Skew
    MaxDelay,     \* bound on the seconds from the clock read to the script
    MaxRoute,     \* bound on the proxies a request comes through
    MaxSupplied,  \* bound on the X-Forwarded-For entries a client sends itself
    MaxRuns,      \* bound on the scripts run
    MaxFaults,    \* bound on the failures of redis
    MaxNow        \* bound on the time

\* _assert_limit refuses a limit or a window below one before anything is counted.
ASSUME LimitAssumption ==
    /\ Limit \in Nat \ {0} /\ Window \in Nat \ {0}
    /\ FailOpen \in BOOLEAN

ASSUME ClockAssumption ==
    /\ MaxSkew \in Nat /\ MaxDelay \in Nat
    /\ Skew \in [Processes -> 0 .. MaxSkew]

ASSUME BoundAssumption ==
    /\ MaxRuns \in Nat /\ MaxFaults \in Nat /\ MaxNow \in Nat
    /\ MaxRoute \in Nat /\ MaxSupplied \in Nat

ASSUME ClientAssumption ==
    /\ Local \subseteq Clients
    /\ Appending \subseteq Proxies
    /\ Clients \cap Proxies = {}
    /\ NoUser \notin Users
    /\ {NoAddress} \cap (Clients \cup Proxies \cup Users) = {}

VARIABLES
    now,        \* the time, in seconds
    bucket,     \* the counter of each key in redis, or Absent
    call,       \* the hit() under way in each process
    recent,     \* history: when the latest attempts on a key were allowed
    charged,    \* history: the anonymous senders counted under a client's address
    runs,       \* how many scripts ran
    faults      \* how many times redis failed

vars == <<now, bucket, call, recent, charged, runs, faults>>

\* A trusted host sends requests of its own too.
Senders == Clients \cup Proxies

Addresses == Senders \cup {NoAddress}

Keys == Users \cup Addresses

\* The key has no hash in redis.
Absent == [hits |-> 0]

\* The key has no time to live.
Never == 0

Idle == [pc |-> "idle"]

-----------------------------------------------------------------------------
(* Who is counted. *)

\* A request: who sends it, as which user, through which proxies (the first one
\* is next to the client), and with which X-Forwarded-For and X-Real-IP of its
\* own.  A header that is absent is the empty sequence, an entry that is no
\* address is NoAddress.
Requests ==
    [client : Senders,
     user : Users \cup {NoUser},
     route : BoundedSeq(Proxies, MaxRoute),
     supplied : BoundedSeq(Addresses, MaxSupplied),
     real : BoundedSeq(Addresses, 1)]

\* A trusted host is trusted: it forges no header for its own requests.
Sendable(r) == r.client \in Proxies => r.supplied = <<>> /\ r.real = <<>>

\* The address the client's socket shows to the next hop.
Written(c) == IF c \in Local THEN NoAddress ELSE c

\* The other end of the i-th hop's socket; the bridge is the hop after the last.
From(r, i) == IF i = 1 THEN Written(r.client) ELSE r.route[i - 1]

Peer(r) == From(r, Len(r.route) + 1)

\* The last proxy on the way that does not append, 0 when all do.
LastReset(r) ==
    LET resets == {i \in 1 .. Len(r.route) : r.route[i] \notin Appending}
    IN  IF resets = {} THEN 0
        ELSE CHOOSE i \in resets : \A j \in resets : j <= i

\* X-Forwarded-For as it arrives: what the client sent unless a proxy dropped it,
\* then what the appending proxies received from.
ForwardedFor(r) ==
    LET k == LastReset(r)
    IN  (IF k = 0 THEN r.supplied ELSE <<>>)
        \o [i \in 1 .. Len(r.route) - k |-> From(r, k + i)]

\* X-Real-IP as it arrives: the client's own unless a proxy set it.
RealIp(r) ==
    LET k == LastReset(r) IN IF k = 0 THEN r.real ELSE <<From(r, k)>>

IsTrusted(address) == address \in Proxies

\* A walk from the left instead.
FirstUntrustedFromLeft(hops) ==
    LET untrusted == {i \in 1 .. Len(hops) : ~IsTrusted(hops[i])}
    IN  IF untrusted = {} THEN hops[1]
        ELSE hops[CHOOSE i \in untrusted : \A j \in untrusted : i <= j]

\* The walk over X-Forwarded-For from the right: the first entry that is not a
\* trusted proxy, where an entry that is no address ends it with none; the
\* leftmost entry when all are trusted.
FirstUntrusted(hops) ==
    LET untrusted == {i \in 1 .. Len(hops) : ~IsTrusted(hops[i])}
    IN  IF untrusted = {} THEN hops[1]
        ELSE hops[CHOOSE i \in untrusted : \A j \in untrusted : j <= i]

\* resolve_client_ip: forwarding headers count only behind a trusted peer, and
\* X-Real-IP only without X-Forwarded-For.
ResolveClientIp(r) ==
    IF ~IsTrusted(Peer(r)) THEN Peer(r)
    ELSE IF ForwardedFor(r) # <<>> THEN FirstUntrusted(ForwardedFor(r))
    ELSE IF RealIp(r) # <<>> THEN RealIp(r)[1]
    ELSE Peer(r)

\* The key of rate_limit: the user, or the address of an anonymous client.
Identity(r) == IF r.user # NoUser THEN r.user ELSE ResolveClientIp(r)

\* The sender of an anonymous request that is counted under a client's address.
Charges(r) ==
    {c \in {r.client} : r.user = NoUser /\ ResolveClientIp(r) \in Clients}

\* What the requests come to: the key of each, and whom it charges.
Attempts ==
    {[key |-> Identity(r), anonymous |-> Charges(r)] :
        r \in {q \in Requests : Sendable(q)}}

-----------------------------------------------------------------------------
(* The counter. *)

Clock(p) == now + Skew[p]

\* A window that ends only when redis drops the key.
ClosedByExpiry(b, t) == b = Absent

\* The stored window is over, or nothing is stored, for a process reading t.
Closed(b, t) == b = Absent \/ b.reset <= t

\* EXPIRE with math.max(1, reset - now), from the second the script runs in.
Expiry(reset, t) == now + (IF reset - t > 1 THEN reset - t ELSE 1)

\* A script that forgets to count the attempt that opens the window.
CountedFromZero(b, t) ==
    IF Closed(b, t)
      THEN [hits |-> 0, reset |-> t + Window,
            gone |-> Expiry(t + Window, t), since |-> now]
      ELSE [b EXCEPT !.hits = @ + 1, !.gone = Expiry(b.reset, t)]

\* The hash _HIT_SCRIPT leaves, run now with the clock reading t.
Counted(b, t) ==
    IF Closed(b, t)
      THEN [hits |-> 1, reset |-> t + Window,
            gone |-> Expiry(t + Window, t), since |-> now]
      ELSE [b EXCEPT !.hits = @ + 1, !.gone = Expiry(b.reset, t)]

\* A comparison one attempt too generous.
AllowedOneMore(hits) == hits <= Limit + 1

\* _attempt: increment, then compare.
Allowed(hits) == hits <= Limit

\* A check() that looks at the count alone.
PeekStale(b, t) == Allowed(b.hits)

\* What check() answers in a process reading t: is an attempt allowed?
Peek(b, t) == Closed(b, t) \/ Allowed(b.hits)

-----------------------------------------------------------------------------

Init ==
    /\ now = 0
    /\ bucket = [k \in Keys |-> Absent]
    /\ call = [p \in Processes |-> Idle]
    /\ recent = [k \in Keys |-> <<>>]
    /\ charged = [k \in Keys |-> {}]
    /\ runs = 0
    /\ faults = 0

\* rate_limit derives the key and calls hit(), which reads the clock and sends
\* the script.
Hit(p) ==
    /\ call[p].pc # "sent"
    /\ runs < MaxRuns
    /\ \E a \in Attempts :
         call' = [call EXCEPT ![p] =
                    [pc |-> "sent", key |-> a.key, read |-> Clock(p), at |-> now,
                     anonymous |-> a.anonymous]]
    /\ UNCHANGED <<now, bucket, recent, charged, runs, faults>>

\* redis fails once more.
Fault ==
    /\ faults < MaxFaults
    /\ faults' = faults + 1

\* with_cache got no connection: the request ends before it is counted.
NoCache(p) ==
    /\ call[p].pc # "sent"
    /\ Fault
    /\ call' = [call EXCEPT ![p] = [pc |-> "raised"]]
    /\ UNCHANGED <<now, bucket, recent, charged, runs>>

\* The script ran on the hit that process p sent.
Counts(p) ==
    /\ call[p].pc = "sent"
    /\ runs < MaxRuns
    /\ runs' = runs + 1
    /\ LET k == call[p].key
       IN  /\ bucket' = [bucket EXCEPT ![k] = Counted(@, call[p].read)]
           /\ charged' = [charged EXCEPT ![k] = @ \cup call[p].anonymous]

\* Remember when an attempt was allowed, the latest 2 * Limit of them.
Remembered(s) ==
    LET t == Append(s, now) IN IF Len(t) > 2 * Limit THEN Tail(t) ELSE t

\* The script runs and its answer arrives: the action is served, or denied with
\* a 429.
RunHit(p) ==
    /\ Counts(p)
    /\ LET k == call[p].key
           b == bucket'[k]
       IN  IF Allowed(b.hits)
             THEN /\ call' = [call EXCEPT ![p] = [pc |-> "served"]]
                  /\ recent' = [recent EXCEPT ![k] = Remembered(@)]
             ELSE /\ call' = [call EXCEPT ![p] =
                                [pc |-> "denied", age |-> now - b.since]]
                  /\ UNCHANGED recent
    /\ UNCHANGED <<now, faults>>

\* _unavailable: served without a count, or the error goes on.
Unavailable(p) ==
    call' = [call EXCEPT ![p] = [pc |-> IF FailOpen THEN "served" ELSE "raised"]]

\* redis fails before the script ran.
HitFails(p) ==
    /\ call[p].pc = "sent"
    /\ Fault
    /\ Unavailable(p)
    /\ UNCHANGED <<now, bucket, recent, charged, runs>>

\* The script ran and its answer was lost: counted, and answered as a failure.
AnswerLost(p) ==
    /\ Counts(p)
    /\ Fault
    /\ Unavailable(p)
    /\ UNCHANGED <<now, recent>>

\* clear(): the protected thing succeeded, and its key is forgotten.
Clear(k) ==
    /\ bucket[k] # Absent
    /\ bucket' = [bucket EXCEPT ![k] = Absent]
    /\ recent' = [recent EXCEPT ![k] = <<>>]
    /\ UNCHANGED <<now, call, charged, runs, faults>>

\* redis drops a key whose time to live ended in this second.
Expire(k) ==
    /\ bucket[k] # Absent
    /\ bucket[k].gone = now
    /\ bucket[k].gone # Never
    /\ bucket' = [bucket EXCEPT ![k] = Absent]
    /\ UNCHANGED <<now, call, recent, charged, runs, faults>>

\* The backend lost the expiry of a key and kept the hash.
ExpiryLost(k) ==
    /\ bucket[k] # Absent
    /\ bucket[k].gone # Never
    /\ Fault
    /\ bucket' = [bucket EXCEPT ![k].gone = Never]
    /\ UNCHANGED <<now, call, recent, charged, runs>>

Tick ==
    /\ now < MaxNow
    /\ \A p \in Processes : call[p].pc = "sent" => now < call[p].at + MaxDelay
    /\ \A k \in Keys : bucket[k] # Absent => bucket[k].gone # now \/ bucket[k].gone = Never
    /\ now' = now + 1
    /\ UNCHANGED <<bucket, call, recent, charged, runs, faults>>

Next ==
    \/ \E p \in Processes :
         Hit(p) \/ NoCache(p) \/ RunHit(p) \/ HitFails(p) \/ AnswerLost(p)
    \/ \E k \in Keys : Clear(k) \/ Expire(k) \/ ExpiryLost(k)
    \/ Tick

Spec == Init /\ [][Next]_vars

-----------------------------------------------------------------------------

Buckets ==
    [hits : 1 .. MaxRuns, reset : Window .. MaxNow + MaxSkew + Window,
     gone : 0 .. MaxNow + MaxSkew + MaxDelay + Window, since : 0 .. MaxNow]

Calls ==
    [pc : {"idle", "served", "raised"}]
    \cup [pc : {"denied"}, age : 0 .. MaxNow]
    \cup [pc : {"sent"}, key : Keys, read : 0 .. MaxNow + MaxSkew,
          at : 0 .. MaxNow, anonymous : SUBSET Senders]

\* Every stored counter has counted at least the attempt that opened its window,
\* its window opened before it was read, and a call waits for redis no longer
\* than MaxDelay.
TypeOK ==
    /\ now \in 0 .. MaxNow
    /\ runs \in 0 .. MaxRuns
    /\ faults \in 0 .. MaxFaults
    /\ \A k \in Keys :
         /\ bucket[k] \in Buckets \cup {Absent}
         /\ bucket[k] # Absent => bucket[k].since <= now
         /\ Len(recent[k]) <= 2 * Limit
         /\ charged[k] \subseteq Senders
    /\ \A p \in Processes :
         /\ call[p] \in Calls
         /\ call[p].pc = "sent" => now - call[p].at <= MaxDelay

\* The worst case of a fixed window (throttle.py 3-8 names the boundary between
\* two windows), with what clocks and network add to it: of any 2 * Limit attempts
\* that were counted and allowed on one key since it was last cleared, the last
\* came at least one window, less the skew and the delay, after the first.  One
\* attempt too many in a window, a window closed early by a fast clock or a key
\* dropped early by redis would break it.
BurstBound ==
    \A k \in Keys :
        Len(recent[k]) = 2 * Limit =>
            recent[k][2 * Limit] - recent[k][1] >= Window - MaxSkew - MaxDelay

\* Hammering a key neither resets its window nor extends it (throttle.py
\* 122-123), and the window ends even where redis lost the expiry (34-36): no
\* attempt is denied later than a window, the skew and the delay after the
\* attempt that opened the window it is denied by.
LockoutEnds ==
    \A p \in Processes :
        call[p].pc = "denied" => call[p].age < Window + MaxSkew + MaxDelay

\* An anonymous attempt is never counted under another client's address, whatever
\* X-Forwarded-For and X-Real-IP its client sent, proxies' addresses and entries
\* that are no address included, and however many proxies of either kind it came
\* through: clients share a key only where the proxies hide them (one that sets
\* X-Real-IP in front of one that appends) or where their address is no IP.
ChargedToSender ==
    \A c \in Clients : charged[c] \subseteq {c}

\* check() and hit() agree about a closed door: when check() tells a client that
\* it is denied, the hit of the same process in the same second is denied too.
PeekIsSound ==
    \A k \in Keys, p \in Processes :
        ~Peek(bucket[k], Clock(p)) => ~Allowed(Counted(bucket[k], Clock(p)).hits)

\* The counter keeps the limit: attempts are counted as they come, what is allowed
\* is bounded, and check() says nothing else.
LimitKept == TypeOK /\ BurstBound /\ PeekIsSound
=============================================================================
