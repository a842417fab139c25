--------------------------- MODULE ThrottleProofs ---------------------------
(***************************************************************************)
(* Three results about the throttle for every limit, window, skew and      *)
(* delay and for every set of processes, clients, proxies and users: a     *)
(* lockout ends, an anonymous attempt is counted under its sender's        *)
(* address, and no burst exceeds the limits of two windows.                *)
(***************************************************************************)
EXTENDS Throttle, WellFoundedInduction, TLAPS

-----------------------------------------------------------------------------
(* Who is counted *)

\* A sequence of bounded length is a sequence.
LEMMA BoundedIsSeq ==
  ASSUME NEW S, NEW n \in Nat, NEW s \in BoundedSeq(S, n)
  PROVE  s \in Seq(S)
<1>1. PICK m \in 0 .. n : s \in [1 .. m -> S]
  BY DEF BoundedSeq, SeqOf
<1> QED
  BY <1>1

\* Where the entries of two headers end up when one is appended to the other.
LEMMA Appended ==
  ASSUME NEW S, NEW T, NEW a \in Seq(S), NEW b \in Seq(T)
  PROVE  /\ Len(a \o b) = Len(a) + Len(b)
         /\ \A i \in 1 .. Len(a) : (a \o b)[i] = a[i]
         /\ \A i \in Len(a) + 1 .. Len(a) + Len(b) : (a \o b)[i] = b[i - Len(a)]
OBVIOUS

\* A set of positions that is not empty has a last one.
LEMMA LastPosition ==
  ASSUME NEW n \in Nat, NEW S \in SUBSET (1 .. n), S # {}
  PROVE  (CHOOSE i \in S : \A j \in S : j <= i) \in S
<1> DEFINE T == {n - i : i \in S}
<1>1. T \subseteq Nat /\ T # {}
  <2>1. \A i \in S : n - i \in Nat
    OBVIOUS
  <2>2. PICK i : i \in S
    OBVIOUS
  <2>3. n - i \in T
    BY <2>2
  <2> QED
    BY <2>1, <2>3
<1>2. \E x \in T : \A y \in T : ~(<<y, x>> \in OpToRel(<, Nat))
  <2> HIDE DEF T
  <2> QED
    BY <1>1, NatLessThanWellFounded, WFMin
<1>3. PICK x \in T : \A y \in T : ~(<<y, x>> \in OpToRel(<, Nat))
  BY <1>2
<1>4. \A y \in T : ~(y < x)
  <2> HIDE DEF T
  <2> QED
    BY <1>1, <1>3 DEF OpToRel
<1>5. PICK i \in S : x = n - i
  BY <1>3
<1>6. \A j \in S : ~(n - j < n - i)
  BY <1>4, <1>5
<1>7. \A j \in S : j <= i
  BY <1>6
<1> QED
  BY <1>7

LEMMA LastResetTyped ==
  ASSUME NEW r \in Requests
  PROVE  /\ r.route \in Seq(Proxies)
         /\ LastReset(r) \in 0 .. Len(r.route)
<1>1. r.route \in Seq(Proxies)
  BY BoundedIsSeq, BoundAssumption DEF Requests
<1> DEFINE resets == {i \in 1 .. Len(r.route) : r.route[i] \notin Appending}
<1>2. Len(r.route) \in Nat /\ resets \in SUBSET (1 .. Len(r.route))
  BY <1>1
<1>3. CASE resets = {}
  BY <1>1, <1>2, <1>3 DEF LastReset
<1>4. CASE resets # {}
  <2>1. (CHOOSE i \in resets : \A j \in resets : j <= i) \in resets
    <3> HIDE DEF resets
    <3> QED
      BY <1>2, <1>4, LastPosition
  <2>2. LastReset(r) = (CHOOSE i \in resets : \A j \in resets : j <= i)
    BY <1>4 DEF LastReset
  <2>3. LastReset(r) \in resets
    BY <2>1, <2>2, Zenon
  <2> QED
    BY <1>1, <1>2, <2>3
<1> QED
  BY <1>1, <1>3, <1>4

\* The header in its two parts: what the client sent, and what the proxies after the last
\* reset appended, the client's own address first when there was no reset.
LEMMA TwoParts ==
  ASSUME NEW r \in Requests
  PROVE  \E left, right :
           /\ ForwardedFor(r) = left \o right
           /\ left \in Seq(Addresses) /\ right \in Seq(Addresses)
           /\ Len(right) = Len(r.route) - LastReset(r)
           /\ LastReset(r) = 0 => left = r.supplied
           /\ LastReset(r) # 0 => left = <<>>
           /\ \A i \in 1 .. Len(right) :
                right[i] = IF LastReset(r) + i = 1 THEN Written(r.client)
                           ELSE r.route[LastReset(r) + i - 1]
<1>1. PICK k : k = LastReset(r)
  OBVIOUS
<1>2. PICK m : m = Len(r.route)
  OBVIOUS
<1>3. /\ r.route \in Seq(Proxies) /\ m \in Nat /\ k \in 0 .. m
      /\ r.supplied \in Seq(Addresses) /\ r.client \in Senders
  <2>1. r.route \in Seq(Proxies) /\ k \in 0 .. m
    BY <1>1, <1>2, LastResetTyped
  <2>2. r.supplied \in Seq(Addresses) /\ r.client \in Senders
    BY BoundedIsSeq, BoundAssumption DEF Requests
  <2> QED
    BY <1>2, <2>1, <2>2
<1> DEFINE left == IF k = 0 THEN r.supplied ELSE <<>>
           right == [i \in 1 .. m - k |-> From(r, k + i)]
<1>4. ForwardedFor(r) = left \o right
  BY <1>1, <1>2 DEF ForwardedFor
<1>5. left \in Seq(Addresses)
  BY <1>3
<1>6. ASSUME NEW i \in 1 .. m - k
      PROVE  /\ From(r, k + i) = IF k + i = 1 THEN Written(r.client) ELSE r.route[k + i - 1]
             /\ From(r, k + i) \in Addresses
  <2>1. Written(r.client) \in Addresses
    BY <1>3 DEF Written, Addresses, Senders
  <2>2. k + i # 1 => r.route[k + i - 1] \in Proxies
    <3>1. k + i # 1 => k + i - 1 \in 1 .. Len(r.route)
      BY <1>2, <1>3
    <3> QED
      BY <1>3, <3>1
  <2>3. From(r, k + i) = IF k + i = 1 THEN Written(r.client) ELSE r.route[k + i - 1]
    BY <1>3 DEF From
  <2> QED
    BY <2>1, <2>2, <2>3 DEF Addresses, Senders
<1>7. right \in Seq(Addresses) /\ Len(right) = m - k
  <2>1. m - k \in Nat
    BY <1>3
  <2> QED
    BY <1>6, <2>1
<1>8. \A i \in 1 .. Len(right) :
        right[i] = IF k + i = 1 THEN Written(r.client) ELSE r.route[k + i - 1]
  BY <1>6, <1>7
<1> HIDE DEF right
<1> QED
  BY <1>1, <1>2, <1>4, <1>5, <1>7, <1>8

\* The same for the header itself, entry by entry.
LEMMA HeaderEntries ==
  ASSUME NEW r \in Requests
  PROVE  \E n \in Nat :
           /\ ForwardedFor(r) \in Seq(Addresses)
           /\ Len(ForwardedFor(r)) = n + Len(r.route) - LastReset(r)
           /\ LastReset(r) # 0 => n = 0
           /\ r.supplied = <<>> => n = 0
           /\ \A i \in n + 1 .. Len(ForwardedFor(r)) :
                IF i = n + 1 /\ LastReset(r) = 0
                  THEN ForwardedFor(r)[i] = Written(r.client)
                  ELSE ForwardedFor(r)[i] \in Proxies
<1>1. PICK left, right :
        /\ ForwardedFor(r) = left \o right
        /\ left \in Seq(Addresses) /\ right \in Seq(Addresses)
        /\ Len(right) = Len(r.route) - LastReset(r)
        /\ LastReset(r) = 0 => left = r.supplied
        /\ LastReset(r) # 0 => left = <<>>
        /\ \A i \in 1 .. Len(right) :
             right[i] = IF LastReset(r) + i = 1 THEN Written(r.client)
                        ELSE r.route[LastReset(r) + i - 1]
  BY TwoParts
<1>2. PICK k, m, n, hops :
        k = LastReset(r) /\ m = Len(r.route) /\ n = Len(left) /\ hops = ForwardedFor(r)
  OBVIOUS
<1>3. r.route \in Seq(Proxies) /\ m \in Nat /\ k \in 0 .. m /\ n \in Nat
  BY <1>1, <1>2, LastResetTyped
<1>4. /\ Len(hops) = n + (m - k)
      /\ \A i \in n + 1 .. n + (m - k) : hops[i] = right[i - n]
  <2>0. left \in Seq(Addresses) /\ right \in Seq(Addresses)
    BY <1>1
  <2>1. /\ Len(left \o right) = Len(left) + Len(right)
        /\ \A i \in Len(left) + 1 .. Len(left) + Len(right) : (left \o right)[i] = right[i - Len(left)]
    BY <2>0, Appended
  <2> QED
    BY <1>1, <1>2, <2>1, Zenon
<1>5. hops \in Seq(Addresses)
  BY <1>1, <1>2
<1>6. (k # 0 => n = 0) /\ (r.supplied = <<>> => n = 0)
  BY <1>1, <1>2
<1>7. ASSUME NEW i \in n + 1 .. n + (m - k)
      PROVE  IF i = n + 1 /\ k = 0 THEN hops[i] = Written(r.client) ELSE hops[i] \in Proxies
  <2>1. i - n \in 1 .. m - k /\ Len(right) = m - k
    BY <1>1, <1>2, <1>3
  <2>2. hops[i] = IF k + (i - n) = 1 THEN Written(r.client) ELSE r.route[k + (i - n) - 1]
    BY <1>1, <1>2, <1>4, <2>1
  <2>3. k + (i - n) # 1 => k + (i - n) - 1 \in 1 .. Len(r.route)
    BY <1>2, <1>3, <2>1
  <2>4. k + (i - n) # 1 => r.route[k + (i - n) - 1] \in Proxies
    BY <1>3, <2>3
  <2>5. k + (i - n) = 1 <=> i = n + 1 /\ k = 0
    BY <1>3, <2>1
  <2> QED
    BY <2>2, <2>4, <2>5
<1>8. Len(hops) = n + m - k
  BY <1>3, <1>4
<1> QED
  BY <1>2, <1>3, <1>4, <1>5, <1>6, <1>7, <1>8

\* The walk over a header that names proxies only ends at its leftmost entry.
LEMMA WalkOverProxies ==
  ASSUME NEW hops \in Seq(Addresses), hops # <<>>,
         \A i \in 1 .. Len(hops) : hops[i] \in Proxies
  PROVE  FirstUntrusted(hops) \in Proxies
<1>1. 1 \in 1 .. Len(hops)
  OBVIOUS
<1>2. {i \in 1 .. Len(hops) : ~IsTrusted(hops[i])} = {}
  BY DEF IsTrusted
<1> QED
  BY <1>1, <1>2 DEF FirstUntrusted

\* The walk stops at the last entry that is no proxy's.
LEMMA WalkStops ==
  ASSUME NEW hops \in Seq(Addresses), NEW n \in 1 .. Len(hops), hops[n] \notin Proxies,
         \A i \in n + 1 .. Len(hops) : hops[i] \in Proxies
  PROVE  FirstUntrusted(hops) = hops[n]
<1> DEFINE untrusted == {i \in 1 .. Len(hops) : ~IsTrusted(hops[i])}
<1>1. n \in untrusted /\ untrusted \subseteq Int
  BY DEF IsTrusted
<1>2. \A j \in untrusted : j <= n
  BY DEF IsTrusted
<1>3. (CHOOSE i \in untrusted : \A j \in untrusted : j <= i) = n
  <2>1. \A i \in untrusted : (\A j \in untrusted : j <= i) => i = n
    BY <1>1, <1>2
  <2> HIDE DEF untrusted
  <2> QED
    BY <1>1, <1>2, <2>1
<1> QED
  BY <1>1, <1>3 DEF FirstUntrusted

\* The key of an anonymous request is its sender's address, that of nobody or a proxy's.
LEMMA IdentityIsSender ==
  ASSUME NEW r \in Requests, Sendable(r)
  PROVE  /\ Identity(r) \in Keys
         /\ r.client \in Senders
         /\ r.user = NoUser => Identity(r) \in {r.client, NoAddress} \cup Proxies
<1>1. /\ r.client \in Senders /\ r.user \in Users \cup {NoUser}
      /\ r.client \in Proxies => r.supplied = <<>> /\ r.real = <<>>
  BY DEF Requests, Sendable
<1>2. PICK k, m, hops : k = LastReset(r) /\ m = Len(r.route) /\ hops = ForwardedFor(r)
  OBVIOUS
<1>3. r.route \in Seq(Proxies) /\ m \in Nat /\ k \in 0 .. m
  BY <1>2, LastResetTyped
<1>4. PICK n \in Nat :
        /\ hops \in Seq(Addresses)
        /\ Len(hops) = n + m - k
        /\ k # 0 => n = 0
        /\ r.supplied = <<>> => n = 0
        /\ \A i \in n + 1 .. Len(hops) :
             IF i = n + 1 /\ k = 0 THEN hops[i] = Written(r.client) ELSE hops[i] \in Proxies
  BY <1>2, HeaderEntries
<1>5. /\ Written(r.client) \in {r.client, NoAddress}
      /\ r.client \in Proxies => Written(r.client) \in Proxies
      /\ r.client \notin Proxies => Written(r.client) \notin Proxies
  BY <1>1, ClientAssumption DEF Written, Senders
<1>6. m # 0 => r.route[m] \in Proxies /\ (k # 0 => From(r, k) \in {Written(r.client)} \cup Proxies)
  <2>1. m # 0 => m \in 1 .. Len(r.route)
    BY <1>2, <1>3
  <2>2. k # 0 /\ k # 1 => k - 1 \in 1 .. Len(r.route)
    BY <1>2, <1>3
  <2> QED
    BY <1>3, <2>1, <2>2 DEF From
<1>7. Peer(r) = IF m = 0 THEN Written(r.client) ELSE r.route[m]
  BY <1>2, <1>3 DEF Peer, From
<1>8. RealIp(r) = IF k = 0 THEN r.real ELSE <<From(r, k)>>
  BY <1>2 DEF RealIp
<1>9. ResolveClientIp(r) \in {r.client, NoAddress} \cup Proxies
  <2>1. CASE Peer(r) \notin Proxies
    BY <1>5, <1>6, <1>7, <2>1 DEF ResolveClientIp, IsTrusted
  <2>2. CASE Peer(r) \in Proxies /\ hops # <<>>
    <3>1. ResolveClientIp(r) = FirstUntrusted(hops)
      BY <1>2, <2>2 DEF ResolveClientIp, IsTrusted
    <3>2. CASE k = 0 /\ r.client \notin Proxies
      <4>1. m # 0
        BY <1>5, <1>7, <2>2, <3>2
      <4>2. n + 1 \in 1 .. Len(hops) /\ hops[n + 1] = Written(r.client)
        BY <1>3, <1>4, <3>2, <4>1
      <4>3. \A i \in (n + 1) + 1 .. Len(hops) : hops[i] \in Proxies
        BY <1>4
      <4>4. FirstUntrusted(hops) = hops[n + 1]
        BY <1>4, <1>5, <3>2, <4>2, <4>3, WalkStops
      <4> QED
        BY <1>5, <3>1, <4>2, <4>4
    <3>3. CASE ~(k = 0 /\ r.client \notin Proxies)
      <4>1. n = 0
        BY <1>1, <1>4, <3>3
      <4>2. \A i \in 1 .. Len(hops) : hops[i] \in Proxies
        BY <1>4, <1>5, <3>3, <4>1
      <4> QED
        BY <1>4, <2>2, <3>1, <4>2, WalkOverProxies
    <3> QED
      BY <3>2, <3>3
  <2>3. CASE Peer(r) \in Proxies /\ hops = <<>>
    <3>1. ResolveClientIp(r) = IF RealIp(r) # <<>> THEN RealIp(r)[1] ELSE Peer(r)
      BY <1>2, <2>3 DEF ResolveClientIp, IsTrusted
    <3>2. CASE k = 0
      <4>1. m = 0
        BY <1>3, <1>4, <2>3, <3>2
      <4>2. r.client \in Proxies
        BY <1>5, <1>7, <2>3, <4>1
      <4>3. RealIp(r) = <<>>
        BY <1>1, <1>8, <3>2, <4>2
      <4> QED
        BY <2>3, <3>1, <4>3
    <3>3. CASE k # 0
      <4>1. m # 0
        BY <1>3, <3>3
      <4>2. RealIp(r) # <<>> /\ RealIp(r)[1] = From(r, k)
        BY <1>8, <3>3
      <4> QED
        BY <1>5, <1>6, <3>1, <3>3, <4>1, <4>2
    <3> QED
      BY <3>2, <3>3
  <2> QED
    BY <2>1, <2>2, <2>3
<1>10. ResolveClientIp(r) \in Keys
  BY <1>1, <1>9 DEF Keys, Addresses, Senders
<1> QED
  BY <1>1, <1>9, <1>10 DEF Identity, Keys

\* What an attempt is counted under is a key, and another client's address never.
LEMMA AttemptIsSenders ==
  ASSUME NEW a \in Attempts
  PROVE  /\ a.key \in Keys
         /\ a.anonymous \in SUBSET Senders
         /\ \A c \in Clients : a.key = c => a.anonymous \subseteq {c}
<1>1. PICK r \in Requests :
        /\ Sendable(r)
        /\ a = [key |-> Identity(r), anonymous |-> Charges(r)]
  BY DEF Attempts
<1>2. /\ a.key = Identity(r)
      /\ a.anonymous \subseteq {c \in {r.client} : r.user = NoUser}
  BY <1>1 DEF Charges
<1>3. /\ Identity(r) \in Keys
      /\ r.client \in Senders
      /\ r.user = NoUser => Identity(r) \in {r.client, NoAddress} \cup Proxies
  BY <1>1, IdentityIsSender
<1> QED
  BY <1>2, <1>3, ClientAssumption

-----------------------------------------------------------------------------
(* The inductive invariants *)

StoredCounters ==
    [hits : Nat, reset : Int, gone : Int, since : Int]

SentCalls ==
    [pc : {"sent"}, key : Keys, read : Int, at : Int, anonymous : SUBSET Senders]

\* What the steps rely on, with the bounds of the model left out.
Typed ==
    /\ now \in Nat
    /\ bucket \in [Keys -> StoredCounters \cup {Absent}]
    /\ DOMAIN call = Processes
    /\ \A p \in Processes : call[p].pc = "sent" => call[p] \in SentCalls
    /\ charged \in [Keys -> SUBSET Senders]

\* A call was sent at most MaxDelay ago, with a clock at most MaxSkew ahead.
SentLately ==
    \A p \in Processes :
        call[p].pc = "sent" =>
            /\ call[p].at <= now
            /\ now <= call[p].at + MaxDelay
            /\ call[p].at <= call[p].read
            /\ call[p].read <= call[p].at + MaxSkew

\* A stored window ends, by any clock, at most a window and the skew after the attempt that
\* opened it.
WindowBounded ==
    \A k \in Keys :
        bucket[k] # Absent => bucket[k].reset <= bucket[k].since + Window + MaxSkew

\* A call that is under way will be counted under its sender's address.
SentBySender ==
    \A p \in Processes, c \in Clients :
        call[p].pc = "sent" /\ call[p].key = c => call[p].anonymous \subseteq {c}

Inv == Typed /\ SentLately /\ WindowBounded /\ LockoutEnds /\ SentBySender /\ ChargedToSender

-----------------------------------------------------------------------------

\* Counting one attempt more keeps the window of a stored counter.
LEMMA CountOneMore ==
  ASSUME NEW b \in StoredCounters, NEW h \in Nat, NEW e \in Int
  PROVE  /\ [b EXCEPT !.hits = h, !.gone = e] \in StoredCounters
         /\ [b EXCEPT !.hits = h, !.gone = e].reset = b.reset
         /\ [b EXCEPT !.hits = h, !.gone = e].since = b.since
BY DEF StoredCounters

\* The window a script leaves: typed, and bounded by the time it was opened at.
LEMMA CountedIsBounded ==
  ASSUME NEW b \in StoredCounters \cup {Absent}, NEW t \in Int, now \in Nat,
         t <= now + MaxSkew,
         b # Absent => b.reset <= b.since + Window + MaxSkew
  PROVE  /\ Counted(b, t) \in StoredCounters
         /\ Counted(b, t).reset <= Counted(b, t).since + Window + MaxSkew
         /\ Counted(b, t).hits > 1 => Counted(b, t).since + Window + MaxSkew > t
<1> USE LimitAssumption, ClockAssumption
<1>0. \A e \in Int : Expiry(e, t) \in Int
  BY DEF Expiry
<1>1. CASE Closed(b, t)
  <2>1. Counted(b, t) = [hits |-> 1, reset |-> t + Window,
                         gone |-> Expiry(t + Window, t), since |-> now]
    BY <1>1 DEF Counted
  <2> QED
    BY <1>0, <2>1 DEF StoredCounters
<1>2. CASE ~Closed(b, t)
  <2>1. b \in StoredCounters /\ b # Absent /\ b.reset > t
    BY <1>2 DEF Closed, StoredCounters
  <2>2. PICK e \in Int : Counted(b, t) = [b EXCEPT !.hits = b.hits + 1, !.gone = e]
    <3>1. Expiry(b.reset, t) \in Int
      BY <1>0, <2>1 DEF StoredCounters
    <3> QED
      BY <1>2, <3>1 DEF Counted
  <2>3. /\ Counted(b, t) \in StoredCounters
        /\ Counted(b, t).reset = b.reset
        /\ Counted(b, t).since = b.since
    <3>1. b \in StoredCounters /\ b.hits + 1 \in Nat
      BY <2>1 DEF StoredCounters
    <3>2. /\ [b EXCEPT !.hits = b.hits + 1, !.gone = e] \in StoredCounters
          /\ [b EXCEPT !.hits = b.hits + 1, !.gone = e].reset = b.reset
          /\ [b EXCEPT !.hits = b.hits + 1, !.gone = e].since = b.since
      BY <3>1, CountOneMore
    <3> QED
      BY <2>2, <3>2, Zenon
  <2> QED
    BY <2>1, <2>3 DEF StoredCounters
<1> QED
  BY <1>1, <1>2

\* What a script does to the counters and to who is charged, whatever becomes of its answer.
LEMMA CountsKeeps ==
  ASSUME Inv, NEW p \in Processes, Counts(p)
  PROVE  /\ bucket' \in [Keys -> StoredCounters \cup {Absent}]
         /\ \A k \in Keys : bucket'[k] # Absent => bucket'[k].reset <= bucket'[k].since + Window + MaxSkew
         /\ bucket'[call[p].key] \in StoredCounters
         /\ bucket'[call[p].key].hits > 1 =>
              now - bucket'[call[p].key].since < Window + MaxSkew + MaxDelay
         /\ charged' \in [Keys -> SUBSET Senders]
         /\ \A c \in Clients : charged'[c] \subseteq {c}
<1> DEFINE k == call[p].key
           t == call[p].read
<1>1. /\ call[p] \in SentCalls /\ k \in Keys /\ t \in Int /\ call[p].at \in Int
      /\ call[p].anonymous \subseteq Senders
  BY DEF Counts, Inv, Typed, SentCalls
<1>2. now \in Nat /\ call[p].at <= now /\ now <= call[p].at + MaxDelay
      /\ call[p].at <= t /\ t <= call[p].at + MaxSkew
  BY DEF Counts, Inv, Typed, SentLately
<1>3. t <= now + MaxSkew /\ now <= t + MaxDelay
  BY <1>1, <1>2, ClockAssumption
<1>4. /\ bucket \in [Keys -> StoredCounters \cup {Absent}]
      /\ bucket[k] # Absent => bucket[k].reset <= bucket[k].since + Window + MaxSkew
  BY <1>1 DEF Inv, Typed, WindowBounded
<1>5. /\ Counted(bucket[k], t) \in StoredCounters
      /\ Counted(bucket[k], t).reset <= Counted(bucket[k], t).since + Window + MaxSkew
      /\ Counted(bucket[k], t).hits > 1 => Counted(bucket[k], t).since + Window + MaxSkew > t
  BY <1>1, <1>2, <1>3, <1>4, CountedIsBounded
<1>6. bucket' = [bucket EXCEPT ![k] = Counted(bucket[k], t)]
  BY DEF Counts
<1>7. bucket'[k] = Counted(bucket[k], t)
  BY <1>1, <1>4, <1>6
<1>8. bucket' \in [Keys -> StoredCounters \cup {Absent}]
  BY <1>1, <1>4, <1>5, <1>6
<1>9. \A j \in Keys : bucket'[j] # Absent => bucket'[j].reset <= bucket'[j].since + Window + MaxSkew
  <2> SUFFICES ASSUME NEW j \in Keys, bucket'[j] # Absent
               PROVE  bucket'[j].reset <= bucket'[j].since + Window + MaxSkew
    OBVIOUS
  <2>1. CASE j = k
    BY <1>5, <1>7, <2>1
  <2>2. CASE j # k
    <3>1. bucket'[j] = bucket[j]
      BY <1>4, <1>6, <2>2
    <3> QED
      BY <3>1 DEF Inv, WindowBounded
  <2> QED
    BY <2>1, <2>2
<1>10. bucket'[k].hits > 1 => now - bucket'[k].since < Window + MaxSkew + MaxDelay
  <2>1. Counted(bucket[k], t).since \in Int
    BY <1>5 DEF StoredCounters
  <2> QED
    BY <1>1, <1>2, <1>3, <1>5, <1>7, <2>1, LimitAssumption, ClockAssumption
<1>11. charged' = [charged EXCEPT ![k] = @ \cup call[p].anonymous] /\ charged \in [Keys -> SUBSET Senders]
  BY DEF Counts, Inv, Typed
<1>12. charged' \in [Keys -> SUBSET Senders]
  BY <1>1, <1>11
<1>13. ASSUME NEW c \in Clients PROVE charged'[c] \subseteq {c}
  <2>1. c \in Keys /\ charged[c] \subseteq {c}
    BY DEF Keys, Addresses, Senders, Inv, ChargedToSender
  <2>2. CASE c = k
    <3>1. call[p].anonymous \subseteq {c}
      BY <2>2 DEF Counts, Inv, SentBySender
    <3> QED
      BY <1>11, <2>1, <2>2, <3>1
  <2>3. CASE c # k
    BY <1>11, <2>1, <2>3
  <2> QED
    BY <2>2, <2>3
<1> QED
  BY <1>5, <1>7, <1>8, <1>9, <1>10, <1>12, <1>13

-----------------------------------------------------------------------------
(* Every step keeps the invariant *)

\* A call that ends leaves the others as they are, and is no call under way.
LEMMA EndedCall ==
  ASSUME Inv, NEW p \in Processes, NEW end, end.pc # "sent",
         call' = [call EXCEPT ![p] = end], now' = now,
         end.pc = "denied" => end.age < Window + MaxSkew + MaxDelay
  PROVE  /\ DOMAIN call' = Processes
         /\ \A q \in Processes : call'[q].pc = "sent" => call'[q] \in SentCalls
         /\ SentLately' /\ SentBySender' /\ LockoutEnds'
<1>1. /\ DOMAIN call = Processes
      /\ call'[p] = end
      /\ \A q \in Processes \ {p} : call'[q] = call[q]
  BY DEF Inv, Typed
<1>2. DOMAIN call' = Processes
  BY <1>1
<1>3. ASSUME NEW q \in Processes, call'[q].pc = "sent" PROVE q # p /\ call'[q] = call[q]
  BY <1>1, <1>3
<1>4. \A q \in Processes : call'[q].pc = "sent" => call'[q] \in SentCalls
  BY <1>3 DEF Inv, Typed
<1>5. SentLately'
  BY <1>3 DEF Inv, SentLately
<1>6. SentBySender'
  BY <1>3 DEF Inv, SentBySender
<1>7. LockoutEnds'
  BY <1>1 DEF Inv, LockoutEnds
<1> QED
  BY <1>2, <1>4, <1>5, <1>6, <1>7

LEMMA InitInv == Init => Inv
<1> SUFFICES ASSUME Init PROVE Inv
  OBVIOUS
<1>1. Typed
  BY DEF Init, Typed, Idle
<1>2. SentLately /\ SentBySender /\ LockoutEnds
  BY DEF Init, SentLately, SentBySender, LockoutEnds, Idle
<1>3. WindowBounded
  BY DEF Init, WindowBounded
<1>4. ChargedToSender
  BY DEF Init, ChargedToSender, Keys, Addresses, Senders
<1> QED
  BY <1>1, <1>2, <1>3, <1>4 DEF Inv

LEMMA HitKeepsInv ==
  ASSUME Inv, NEW p \in Processes, Hit(p)
  PROVE  Inv'
<1>1. PICK a \in Attempts :
        call' = [call EXCEPT ![p] =
                   [pc |-> "sent", key |-> a.key, read |-> Clock(p), at |-> now,
                    anonymous |-> a.anonymous]]
  BY DEF Hit
<1> DEFINE sent == [pc |-> "sent", key |-> a.key, read |-> Clock(p), at |-> now,
                    anonymous |-> a.anonymous]
<1>2. UNCHANGED <<now, bucket, charged>>
  BY DEF Hit
<1>3. /\ DOMAIN call = Processes
      /\ call'[p] = sent
      /\ \A q \in Processes \ {p} : call'[q] = call[q]
  BY <1>1 DEF Inv, Typed
<1>4. now \in Nat /\ Clock(p) \in Int /\ now <= Clock(p) /\ Clock(p) <= now + MaxSkew
  <2>1. now \in Nat
    BY DEF Inv, Typed
  <2>2. Skew[p] \in 0 .. MaxSkew /\ MaxSkew \in Nat
    BY ClockAssumption
  <2> QED
    BY <2>1, <2>2 DEF Clock
<1>5. /\ a.key \in Keys
      /\ a.anonymous \in SUBSET Senders
      /\ \A c \in Clients : a.key = c => a.anonymous \subseteq {c}
  BY AttemptIsSenders
<1>6. sent \in SentCalls
  BY <1>4, <1>5 DEF SentCalls
<1>7. Typed'
  <2>1. DOMAIN call' = Processes
    BY <1>1, <1>3
  <2>2. ASSUME NEW q \in Processes, call'[q].pc = "sent" PROVE call'[q] \in SentCalls
    <3>1. CASE q = p
      BY <1>3, <1>6, <3>1
    <3>2. CASE q # p
      BY <1>3, <2>2, <3>2 DEF Inv, Typed
    <3> QED
      BY <3>1, <3>2
  <2> QED
    BY <1>2, <2>1, <2>2 DEF Inv, Typed
<1>8. SentLately'
  <2> SUFFICES ASSUME NEW q \in Processes, call'[q].pc = "sent"
               PROVE  /\ call'[q].at <= now /\ now <= call'[q].at + MaxDelay
                      /\ call'[q].at <= call'[q].read /\ call'[q].read <= call'[q].at + MaxSkew
    BY <1>2 DEF SentLately
  <2>1. CASE q = p
    BY <1>3, <1>4, <2>1, ClockAssumption
  <2>2. CASE q # p
    BY <1>3, <2>2 DEF Inv, SentLately
  <2> QED
    BY <2>1, <2>2
<1>9. SentBySender'
  <2> SUFFICES ASSUME NEW q \in Processes, NEW c \in Clients, call'[q].pc = "sent", call'[q].key = c
               PROVE  call'[q].anonymous \subseteq {c}
    BY DEF SentBySender
  <2>1. CASE q = p
    <3>1. a.key = c /\ call'[q].anonymous = a.anonymous
      BY <1>3, <2>1
    <3> QED
      BY <1>5, <3>1
  <2>2. CASE q # p
    BY <1>3, <2>2 DEF Inv, SentBySender
  <2> QED
    BY <2>1, <2>2
<1>10. LockoutEnds'
  BY <1>3 DEF Inv, LockoutEnds
<1>11. WindowBounded' /\ ChargedToSender'
  BY <1>2 DEF Inv, WindowBounded, ChargedToSender
<1> QED
  BY <1>7, <1>8, <1>9, <1>10, <1>11 DEF Inv

\* RunHit, AnswerLost, HitFails and NoCache: the call ends, with or without a script.
LEMMA CountedCallKeepsInv ==
  ASSUME Inv, NEW p \in Processes, RunHit(p) \/ AnswerLost(p)
  PROVE  Inv'
<1> DEFINE k == call[p].key
<1>1. Counts(p) /\ now' = now
  BY DEF RunHit, AnswerLost
<1>2. /\ bucket' \in [Keys -> StoredCounters \cup {Absent}]
      /\ \A j \in Keys : bucket'[j] # Absent => bucket'[j].reset <= bucket'[j].since + Window + MaxSkew
      /\ bucket'[k] \in StoredCounters
      /\ bucket'[k].hits > 1 => now - bucket'[k].since < Window + MaxSkew + MaxDelay
      /\ charged' \in [Keys -> SUBSET Senders]
      /\ \A c \in Clients : charged'[c] \subseteq {c}
  BY <1>1, CountsKeeps
<1>3. PICK end : /\ end.pc # "sent"
                 /\ call' = [call EXCEPT ![p] = end]
                 /\ end.pc = "denied" => end.age < Window + MaxSkew + MaxDelay
  <2>1. CASE AnswerLost(p)
    <3> DEFINE end == [pc |-> IF FailOpen THEN "served" ELSE "raised"]
    <3>1. end.pc # "sent" /\ end.pc # "denied"
      OBVIOUS
    <3>2. call' = [call EXCEPT ![p] = end]
      BY <2>1 DEF AnswerLost, Unavailable
    <3> QED
      BY <3>1, <3>2
  <2>2. CASE RunHit(p) /\ Allowed(bucket'[k].hits)
    <3> DEFINE end == [pc |-> "served"]
    <3>1. call' = [call EXCEPT ![p] = end]
      BY <2>2 DEF RunHit
    <3>2. end.pc # "sent" /\ end.pc # "denied"
      OBVIOUS
    <3> QED
      BY <3>1, <3>2
  <2>3. CASE RunHit(p) /\ ~Allowed(bucket'[k].hits)
    <3> DEFINE end == [pc |-> "denied", age |-> now - bucket'[k].since]
    <3>1. call' = [call EXCEPT ![p] = end]
      BY <2>3 DEF RunHit
    <3>2. bucket'[k].hits > 1
      <4>1. bucket'[k].hits \in Nat
        BY <1>2 DEF StoredCounters
      <4> QED
        BY <2>3, <4>1, LimitAssumption DEF Allowed
    <3>3. end.age < Window + MaxSkew + MaxDelay
      BY <1>2, <3>2
    <3> QED
      BY <3>1, <3>3
  <2> QED
    BY <2>1, <2>2, <2>3
<1>4. /\ DOMAIN call' = Processes
      /\ \A q \in Processes : call'[q].pc = "sent" => call'[q] \in SentCalls
      /\ SentLately' /\ SentBySender' /\ LockoutEnds'
  BY <1>1, <1>3, EndedCall
<1>5. Typed'
  BY <1>1, <1>2, <1>4 DEF Inv, Typed
<1>6. WindowBounded' /\ ChargedToSender'
  BY <1>2 DEF WindowBounded, ChargedToSender
<1> QED
  BY <1>4, <1>5, <1>6 DEF Inv

LEMMA FailedCallKeepsInv ==
  ASSUME Inv, NEW p \in Processes, HitFails(p) \/ NoCache(p)
  PROVE  Inv'
<1>1. UNCHANGED <<now, bucket, charged>>
  BY DEF HitFails, NoCache
<1>2. PICK end : end.pc \notin {"sent", "denied"} /\ call' = [call EXCEPT ![p] = end]
  <2>1. CASE NoCache(p)
    <3> DEFINE end == [pc |-> "raised"]
    <3>1. call' = [call EXCEPT ![p] = end]
      BY <2>1 DEF NoCache
    <3> QED
      BY <3>1
  <2>2. CASE HitFails(p)
    <3> DEFINE end == [pc |-> IF FailOpen THEN "served" ELSE "raised"]
    <3>1. call' = [call EXCEPT ![p] = end]
      BY <2>2 DEF HitFails, Unavailable
    <3>2. end.pc \notin {"sent", "denied"}
      OBVIOUS
    <3> QED
      BY <3>1, <3>2
  <2> QED
    BY <2>1, <2>2
<1>3. /\ DOMAIN call' = Processes
      /\ \A q \in Processes : call'[q].pc = "sent" => call'[q] \in SentCalls
      /\ SentLately' /\ SentBySender' /\ LockoutEnds'
  BY <1>1, <1>2, EndedCall
<1>4. Typed' /\ WindowBounded' /\ ChargedToSender'
  BY <1>1, <1>3 DEF Inv, Typed, WindowBounded, ChargedToSender
<1> QED
  BY <1>3, <1>4 DEF Inv

\* What happens to a key outside a call: it is forgotten, or loses its time to live.
LEMMA KeyStepKeepsInv ==
  ASSUME Inv, NEW k \in Keys, Clear(k) \/ Expire(k) \/ ExpiryLost(k)
  PROVE  Inv'
<1>1. UNCHANGED <<now, call, charged>>
  BY DEF Clear, Expire, ExpiryLost
<1>2. PICK b : /\ bucket' = [bucket EXCEPT ![k] = b]
               /\ b \in StoredCounters \cup {Absent}
               /\ b # Absent => b.reset <= b.since + Window + MaxSkew
  <2>1. CASE Clear(k) \/ Expire(k)
    BY <2>1 DEF Clear, Expire
  <2>2. CASE ExpiryLost(k)
    <3>1. bucket[k] \in StoredCounters /\ bucket[k].reset <= bucket[k].since + Window + MaxSkew
      BY <2>2 DEF ExpiryLost, Inv, Typed, WindowBounded
    <3> DEFINE b == [bucket[k] EXCEPT !.gone = Never]
    <3>2. b \in StoredCounters /\ b.reset = bucket[k].reset /\ b.since = bucket[k].since
      BY <3>1 DEF StoredCounters, Never
    <3>3. bucket' = [bucket EXCEPT ![k] = b]
      BY <2>2 DEF ExpiryLost
    <3> QED
      BY <3>1, <3>2, <3>3
  <2> QED
    BY <2>1, <2>2
<1>3. Typed' /\ WindowBounded'
  BY <1>1, <1>2 DEF Inv, Typed, WindowBounded
<1>4. SentLately' /\ LockoutEnds' /\ SentBySender' /\ ChargedToSender'
  BY <1>1 DEF Inv, SentLately, LockoutEnds, SentBySender, ChargedToSender
<1> QED
  BY <1>3, <1>4 DEF Inv

\* Time goes on only as far as the calls under way allow.
LEMMA TickKeepsInv ==
  ASSUME Inv, Tick
  PROVE  Inv'
<1>1. now \in Nat /\ now' = now + 1 /\ UNCHANGED <<bucket, call, charged>>
  BY DEF Tick, Inv, Typed
<1>2. SentLately'
  <2> SUFFICES ASSUME NEW p \in Processes, call[p].pc = "sent"
               PROVE  /\ call[p].at <= now + 1 /\ now + 1 <= call[p].at + MaxDelay
                      /\ call[p].at <= call[p].read /\ call[p].read <= call[p].at + MaxSkew
    BY <1>1 DEF SentLately
  <2>1. call[p].at \in Int /\ call[p].at <= now /\ now < call[p].at + MaxDelay
    BY DEF Tick, Inv, Typed, SentLately, SentCalls
  <2> QED
    BY <1>1, <2>1, ClockAssumption DEF Inv, SentLately
<1>3. Typed' /\ WindowBounded' /\ LockoutEnds' /\ SentBySender' /\ ChargedToSender'
  BY <1>1 DEF Inv, Typed, WindowBounded, LockoutEnds, SentBySender, ChargedToSender
<1> QED
  BY <1>2, <1>3 DEF Inv

LEMMA Invariance == Spec => []Inv
<1>1. Inv /\ [Next]_vars => Inv'
  <2> SUFFICES ASSUME Inv, [Next]_vars PROVE Inv'
    OBVIOUS
  <2>1. CASE \E p \in Processes : Hit(p)
    BY <2>1, HitKeepsInv
  <2>2. CASE \E p \in Processes : RunHit(p) \/ AnswerLost(p)
    BY <2>2, CountedCallKeepsInv
  <2>3. CASE \E p \in Processes : HitFails(p) \/ NoCache(p)
    BY <2>3, FailedCallKeepsInv
  <2>4. CASE \E k \in Keys : Clear(k) \/ Expire(k) \/ ExpiryLost(k)
    BY <2>4, KeyStepKeepsInv
  <2>5. CASE Tick
    BY <2>5, TickKeepsInv
  <2>6. CASE UNCHANGED vars
    BY <2>6 DEF vars, Inv, Typed, SentLately, WindowBounded, LockoutEnds, SentBySender, ChargedToSender
  <2> QED
    BY <2>1, <2>2, <2>3, <2>4, <2>5, <2>6 DEF Next
<1> QED
  BY <1>1, InitInv, PTL DEF Spec

\* Throttle.hit: an attempt is denied only within a window, the skew and the delay of the
\* attempt that opened the window, however often the key was hit in between and whether or
\* not redis kept its expiry.
THEOREM LockoutsEnd == Spec => []LockoutEnds
<1>1. Inv => LockoutEnds
  BY DEF Inv
<1> QED
  BY <1>1, Invariance, PTL

\* rate_limit with resolve_client_ip: an anonymous attempt is counted under no other
\* client's address, for every length of the X-Forwarded-For a client sends, every X-Real-IP
\* and every route through proxies that append to the one or set the other.
THEOREM ChargesTheSender == Spec => []ChargedToSender
<1>1. Inv => ChargedToSender
  BY DEF Inv
<1> QED
  BY <1>1, Invariance, PTL
-----------------------------------------------------------------------------
(* Bursts.  The attempts in recent[k] fall into the windows they were counted *)
(* in.  At most Limit of them are in the window that is open, and all Limit   *)
(* only if the one that opened it is among them.                              *)

\* What a window lacks of its length when clocks run ahead and scripts run late.
Shortest == Window - MaxSkew - MaxDelay

\* The last j of the remembered times s were counted by the counter b.  The ones before
\* are not younger than its window, and each that has Limit of them from itself on is older
\* by the shortest window: among those is the attempt that opened a window now closed.
InWindow(b, s, j, at) ==
    /\ j \in 0 .. Limit
    /\ j <= Len(s)
    /\ \A i \in 1 .. Len(s) : s[i] <= at
    /\ b = Absent =>
         /\ j = 0
         /\ \A i \in 1 .. Len(s) : i + Limit <= Len(s) + 1 => s[i] + Shortest <= at
    /\ b # Absent =>
         /\ j <= b.hits
         /\ \A i \in 1 .. Len(s) : i + j <= Len(s) => s[i] <= b.since
         /\ \A i \in 1 .. Len(s) : i + j + Limit <= Len(s) + 1 => s[i] + Shortest <= b.since
         /\ j \in {b.hits, Limit} => s[Len(s) - j + 1] = b.since

\* A window lasts, by redis's clock and by any process's, nearly its length.
WindowHolds(b) ==
    /\ b.reset >= b.since + Window - MaxDelay
    /\ b.gone # Never => b.gone >= b.reset - MaxSkew

Remembers == recent \in [Keys -> Seq(Int)]

Windows ==
    \A k \in Keys :
        /\ bucket[k] # Absent => WindowHolds(bucket[k]) /\ bucket[k].hits <= runs
        /\ \E j \in Int : InWindow(bucket[k], recent[k], j, now)

BurstInv == Inv /\ TypeOK /\ Remembers /\ Windows /\ BurstBound

\* A counter as a script leaves it is in range, and its window holds.
LEMMA CountedInRange ==
  ASSUME TypeOK, NEW b \in Buckets \cup {Absent}, NEW t \in 0 .. MaxNow + MaxSkew,
         t <= now + MaxSkew, now <= t + MaxDelay, runs < MaxRuns,
         b # Absent => b.since <= now /\ WindowHolds(b) /\ b.hits <= runs
  PROVE  /\ Counted(b, t) \in Buckets
         /\ Counted(b, t) # Absent
         /\ Counted(b, t).since <= now
         /\ Counted(b, t).hits <= runs + 1
         /\ WindowHolds(Counted(b, t))
<1> USE LimitAssumption, ClockAssumption, BoundAssumption
<1>0. now \in 0 .. MaxNow /\ runs \in 0 .. MaxRuns
  BY DEF TypeOK
<1>1. \A r \in Window .. MaxNow + MaxSkew + Window :
        /\ Expiry(r, t) \in 0 .. MaxNow + MaxSkew + MaxDelay + Window
        /\ Expiry(r, t) >= r - MaxSkew
  BY <1>0 DEF Expiry
<1>2. CASE Closed(b, t)
  <2>1. Counted(b, t) = [hits |-> 1, reset |-> t + Window,
                         gone |-> Expiry(t + Window, t), since |-> now]
    BY <1>2 DEF Counted
  <2>2. t + Window \in Window .. MaxNow + MaxSkew + Window
    OBVIOUS
  <2>3. PICK e : /\ e = Expiry(t + Window, t)
                 /\ e \in 0 .. MaxNow + MaxSkew + MaxDelay + Window
                 /\ e >= t + Window - MaxSkew
    BY <1>1, <2>2
  <2> QED
    BY <1>0, <2>1, <2>2, <2>3 DEF Buckets, WindowHolds, Absent
<1>3. CASE ~Closed(b, t)
  <2>1. b \in Buckets /\ b # Absent
    BY <1>3 DEF Closed
  <2>2. /\ b.hits \in 1 .. MaxRuns /\ b.reset \in Window .. MaxNow + MaxSkew + Window
        /\ b.since \in 0 .. MaxNow
    BY <2>1 DEF Buckets
  <2>3. PICK e : /\ e = Expiry(b.reset, t)
                 /\ e \in 0 .. MaxNow + MaxSkew + MaxDelay + Window
                 /\ e >= b.reset - MaxSkew
    BY <1>1, <2>2
  <2>4. PICK c : c = [hits |-> b.hits + 1, reset |-> b.reset, gone |-> e, since |-> b.since]
    OBVIOUS
  <2>5. Counted(b, t) = c
    <3>1. Counted(b, t) = [b EXCEPT !.hits = b.hits + 1, !.gone = e]
      BY <1>3, <2>3 DEF Counted
    <3> QED
      BY <2>1, <2>4, <3>1 DEF Buckets
  <2> QED
    BY <1>0, <2>1, <2>2, <2>3, <2>4, <2>5 DEF Buckets, WindowHolds, Absent
<1> QED
  BY <1>2, <1>3

\* A script counts an attempt that is not (yet) remembered.  When the window it closes held
\* Limit remembered attempts, the first of them opened it, and is a shortest window old.
LEMMA CountUnremembered ==
  ASSUME TypeOK, NEW b \in Buckets \cup {Absent}, NEW t \in 0 .. MaxNow + MaxSkew,
         t <= now + MaxSkew,
         b # Absent => b.since <= now /\ WindowHolds(b),
         NEW s \in Seq(Int), NEW j \in Int, InWindow(b, s, j, now)
  PROVE  \E i \in Int :
           /\ InWindow(Counted(b, t), s, i, now)
           /\ i < Counted(b, t).hits
           /\ i + 1 = Counted(b, t).hits =>
                IF i = 0 THEN Counted(b, t).since = now
                         ELSE s[Len(s) - i + 1] = Counted(b, t).since
<1> USE LimitAssumption, ClockAssumption, BoundAssumption
<1>0. now \in 0 .. MaxNow /\ Len(s) \in Nat /\ \A i \in 1 .. Len(s) : s[i] \in Int
  BY DEF TypeOK
<1>1. CASE Closed(b, t)
  <2>1. PICK e : Counted(b, t) = [hits |-> 1, reset |-> t + Window, gone |-> e, since |-> now]
    BY <1>1 DEF Counted
  <2>2. /\ Counted(b, t) # Absent /\ Counted(b, t).hits = 1 /\ Counted(b, t).since = now
    BY <2>1 DEF Absent
  <2>3. \A i \in 1 .. Len(s) : i + Limit <= Len(s) + 1 => s[i] + Shortest <= now
    <3>1. CASE b = Absent
      BY <3>1 DEF InWindow
    <3>2. CASE b # Absent
      <4>1. b.since \in Int /\ b.reset \in Int /\ b.hits \in Int
        BY <3>2 DEF Buckets
      <4>2. b.since + Shortest <= now
        BY <1>0, <1>1, <3>2, <4>1 DEF Closed, WindowHolds, Shortest
      <4> SUFFICES ASSUME NEW i \in 1 .. Len(s), i + Limit <= Len(s) + 1
                   PROVE  s[i] <= b.since
        <5>1. Shortest \in Int /\ now \in Int
          BY <1>0 DEF Shortest
        <5> QED
          BY <1>0, <4>1, <4>2, <5>1
      <4>3. j \in 0 .. Limit /\ j <= b.hits
        BY <3>2 DEF InWindow
      <4>4. CASE i + j <= Len(s)
        BY <3>2, <4>4 DEF InWindow
      <4>5. CASE i + j > Len(s)
        <5>1. j = Limit /\ i = Len(s) - j + 1
          <6>1. Len(s) \in Nat /\ Limit \in Nat /\ i \in Int /\ j \in Int /\ j <= Limit
            BY <1>0, <4>3
          <6> QED
            BY SMTT(40), <4>5, <6>1
        <5> QED
          BY <1>0, <3>2, <4>1, <5>1 DEF InWindow
      <4> QED
        BY <1>0, <4>3, <4>4, <4>5
    <3> QED
      BY <3>1, <3>2
  <2>4. InWindow(Counted(b, t), s, 0, now)
    BY <1>0, <2>2, <2>3 DEF InWindow
  <2> QED
    BY <2>2, <2>4
<1>2. CASE ~Closed(b, t)
  <2>1. b \in Buckets /\ b # Absent
    BY <1>2 DEF Closed
  <2>2. PICK e : Counted(b, t) = [b EXCEPT !.hits = b.hits + 1, !.gone = e]
    BY <1>2 DEF Counted
  <2>3. /\ Counted(b, t) # Absent /\ Counted(b, t).hits = b.hits + 1
        /\ Counted(b, t).since = b.since /\ b.hits \in 1 .. MaxRuns
    BY <2>1, <2>2 DEF Absent, Buckets
  <2>4. InWindow(Counted(b, t), s, j, now)
    BY <1>0, <2>1, <2>3 DEF InWindow
  <2>5. j <= b.hits /\ (j = b.hits => s[Len(s) - j + 1] = b.since)
    BY <2>1 DEF InWindow
  <2>6. j < b.hits + 1 /\ (j + 1 = b.hits + 1 => j # 0 /\ s[Len(s) - j + 1] = b.since)
    BY <2>3, <2>5
  <2> QED
    BY <2>3, <2>4, <2>6
<1> QED
  BY <1>1, <1>2

\* The attempt is allowed, and remembered as one of its window.
LEMMA CountRemembered ==
  ASSUME NEW c \in Buckets, c # Absent, NEW s \in Seq(Int), NEW i \in Int, now \in Int,
         InWindow(c, s, i, now), i < c.hits, c.hits <= Limit,
         i + 1 = c.hits => IF i = 0 THEN c.since = now ELSE s[Len(s) - i + 1] = c.since
  PROVE  InWindow(c, Append(s, now), i + 1, now)
<1> USE LimitAssumption, ClockAssumption
<1> DEFINE u == Append(s, now)
<1>1. /\ u \in Seq(Int) /\ Len(s) \in Nat /\ Len(u) = Len(s) + 1 /\ u[Len(s) + 1] = now
      /\ \A m \in 1 .. Len(s) : u[m] = s[m] /\ s[m] \in Int
  OBVIOUS
<1>2. c.hits \in Int /\ c.since \in Int
  BY DEF Buckets
<1>3. /\ i \in 0 .. Limit /\ i <= Len(s)
      /\ \A m \in 1 .. Len(s) : s[m] <= now
      /\ \A m \in 1 .. Len(s) : m + i <= Len(s) => s[m] <= c.since
      /\ \A m \in 1 .. Len(s) : m + i + Limit <= Len(s) + 1 => s[m] + Shortest <= c.since
  BY DEF InWindow
<1> HIDE DEF u
<1>4. i + 1 \in 0 .. Limit /\ i + 1 <= Len(u) /\ i + 1 <= c.hits
  BY <1>1, <1>2, <1>3
<1>5. ASSUME NEW m \in 1 .. Len(u)
      PROVE  /\ u[m] <= now
             /\ m + (i + 1) <= Len(u) => u[m] <= c.since
             /\ m + (i + 1) + Limit <= Len(u) + 1 => u[m] + Shortest <= c.since
  <2>1. CASE m = Len(s) + 1
    <3>1. ~(m + (i + 1) <= Len(u)) /\ ~(m + (i + 1) + Limit <= Len(u) + 1)
      BY <1>1, <1>3, <2>1
    <3> QED
      BY <1>1, <2>1, <3>1
  <2>2. CASE m # Len(s) + 1
    <3>1. m \in 1 .. Len(s)
      BY <1>1, <2>2
    <3>2. /\ m + (i + 1) <= Len(u) => m + i <= Len(s)
          /\ m + (i + 1) + Limit <= Len(u) + 1 => m + i + Limit <= Len(s) + 1
      BY SMTT(40), <1>1, <1>3, <3>1
    <3>3. u[m] = s[m]
      BY <1>1, <3>1
    <3> QED
      BY <1>3, <3>1, <3>2, <3>3
  <2> QED
    BY <2>1, <2>2
<1>7. ASSUME i + 1 \in {c.hits, Limit} PROVE u[Len(u) - (i + 1) + 1] = c.since
  <2>1. i + 1 = c.hits
    BY <1>2, <1>7
  <2>2. CASE i = 0
    BY <1>1, <2>1, <2>2
  <2>3. CASE i # 0
    <3>1. Len(s) - i + 1 \in 1 .. Len(s) /\ Len(u) - (i + 1) + 1 = Len(s) - i + 1
      BY <1>1, <1>3, <2>3
    <3> QED
      BY <1>1, <2>1, <2>3, <3>1
  <2> QED
    BY <2>2, <2>3
<1> QED
  BY <1>4, <1>5, <1>7 DEF InWindow, u

\* Forgetting the oldest time changes nothing.
LEMMA OldestForgotten ==
  ASSUME NEW c \in Buckets, c # Absent, NEW u \in Seq(Int), NEW j \in Int, NEW at \in Int,
         InWindow(c, u, j, at), Len(u) > Limit
  PROVE  InWindow(c, Tail(u), j, at)
<1> USE LimitAssumption
<1> DEFINE v == Tail(u)
<1>1. /\ Len(u) \in Nat /\ Len(u) > 0 /\ v \in Seq(Int) /\ Len(v) = Len(u) - 1
      /\ \A m \in 1 .. Len(v) : v[m] = u[m + 1] /\ m + 1 \in 1 .. Len(u)
  OBVIOUS
<1> HIDE DEF v
<1>2. /\ j \in 0 .. Limit
      /\ \A m \in 1 .. Len(u) : u[m] <= at
      /\ j <= c.hits
      /\ \A m \in 1 .. Len(u) : m + j <= Len(u) => u[m] <= c.since
      /\ \A m \in 1 .. Len(u) : m + j + Limit <= Len(u) + 1 => u[m] + Shortest <= c.since
      /\ j \in {c.hits, Limit} => u[Len(u) - j + 1] = c.since
  BY DEF InWindow
<1>3. ASSUME NEW m \in 1 .. Len(v)
      PROVE  /\ v[m] <= at
             /\ m + j <= Len(v) => v[m] <= c.since
             /\ m + j + Limit <= Len(v) + 1 => v[m] + Shortest <= c.since
  <2>1. v[m] = u[m + 1] /\ m + 1 \in 1 .. Len(u)
    BY <1>1
  <2>2. /\ m + j <= Len(v) => (m + 1) + j <= Len(u)
        /\ m + j + Limit <= Len(v) + 1 => (m + 1) + j + Limit <= Len(u) + 1
    BY <1>1, <1>2
  <2> QED
    BY <1>2, <2>1, <2>2
<1>4. ASSUME j \in {c.hits, Limit} PROVE v[Len(v) - j + 1] = c.since
  <2>1. j >= 1
    BY <1>2, <1>4 DEF Buckets
  <2>2. Len(v) - j + 1 \in 1 .. Len(v) /\ (Len(v) - j + 1) + 1 = Len(u) - j + 1
    BY <1>1, <1>2, <2>1
  <2>3. v[Len(v) - j + 1] = u[(Len(v) - j + 1) + 1]
    BY <1>1, <2>2
  <2>4. u[Len(u) - j + 1] = c.since
    BY <1>2, <1>4
  <2> QED
    BY <2>2, <2>3, <2>4
<1>5. j <= Len(v)
  BY <1>1, <1>2
<1> QED
  BY <1>2, <1>3, <1>4, <1>5 DEF InWindow, v
\* RunHit of an allowed attempt: among 2 * Limit remembered ones the first is a shortest
\* window older than the window this one is counted in.
LEMMA RememberedKeepsWindow ==
  ASSUME NEW c \in Buckets, c # Absent, c.since <= now, NEW s \in Seq(Int), Len(s) <= 2 * Limit,
         NEW i \in Int, now \in Int,
         InWindow(c, s, i, now), i < c.hits, c.hits <= Limit,
         i + 1 = c.hits => IF i = 0 THEN c.since = now ELSE s[Len(s) - i + 1] = c.since
  PROVE  /\ Remembered(s) \in Seq(Int)
         /\ Len(Remembered(s)) <= 2 * Limit
         /\ InWindow(c, Remembered(s), i + 1, now)
         /\ Len(Remembered(s)) = 2 * Limit =>
              Remembered(s)[2 * Limit] - Remembered(s)[1] >= Shortest
<1> USE LimitAssumption
<1> DEFINE u == Append(s, now)
           v == Remembered(s)
<1>1. InWindow(c, u, i + 1, now)
  BY CountRemembered
<1>2. u \in Seq(Int) /\ Len(u) = Len(s) + 1 /\ Len(s) \in Nat /\ u[Len(u)] = now
  OBVIOUS
<1> HIDE DEF u
<1>3. i + 1 \in Int
  OBVIOUS
<1>4. /\ v \in Seq(Int) /\ Len(v) <= 2 * Limit /\ Len(v) > 0 /\ v[Len(v)] = now
      /\ InWindow(c, v, i + 1, now)
  <2>1. CASE Len(u) > 2 * Limit
    <3>1. v = Tail(u)
      BY <2>1 DEF Remembered, u
    <3>2. /\ Tail(u) \in Seq(Int) /\ Len(Tail(u)) = Len(u) - 1
          /\ \A m \in 1 .. Len(Tail(u)) : Tail(u)[m] = u[m + 1]
      BY <1>2
    <3>3. Len(u) = 2 * Limit + 1 /\ Len(u) > Limit
      <4>1. Limit \in Nat /\ Limit > 0 /\ Len(s) \in Nat /\ Len(s) <= 2 * Limit
        BY <1>2
      <4>2. Len(u) = Len(s) + 1 /\ Len(u) > 2 * Limit
        BY <1>2, <2>1
      <4> QED
        BY <4>1, <4>2
    <3>4. InWindow(c, Tail(u), i + 1, now)
      BY <1>1, <1>2, <1>3, <3>3, OldestForgotten
    <3>5. Tail(u)[Len(Tail(u))] = now
      <4>1. Len(Tail(u)) \in 1 .. Len(Tail(u)) /\ Len(Tail(u)) + 1 = Len(u)
        BY <1>2, <3>2, <3>3
      <4> QED
        BY <1>2, <3>2, <4>1
    <3> QED
      BY <3>1, <3>2, <3>3, <3>4, <3>5
  <2>2. CASE ~(Len(u) > 2 * Limit)
    <3>1. v = u
      BY <2>2 DEF Remembered, u
    <3> QED
      BY <1>1, <1>2, <2>2, <3>1
  <2> QED
    BY <2>1, <2>2
<1> HIDE DEF v
<1>5. ASSUME Len(v) = 2 * Limit PROVE v[2 * Limit] - v[1] >= Shortest
  <2>1. 1 \in 1 .. Len(v) /\ 1 + (i + 1) + Limit <= Len(v) + 1
    BY <1>4, <1>5 DEF InWindow
  <2>2. v[1] + Shortest <= c.since
    BY <1>4, <2>1 DEF InWindow
  <2>3. v[1] \in Int /\ Shortest \in Int /\ c.since \in Int /\ v[2 * Limit] = now
    BY <1>4, <1>5, <2>1, ClockAssumption DEF Shortest, Buckets
  <2> QED
    BY <2>2, <2>3
<1> QED
  BY <1>4, <1>5 DEF v

-----------------------------------------------------------------------------
(* Every step keeps the bound on bursts *)

LEMMA InitBurst == Init => BurstInv
<1> SUFFICES ASSUME Init PROVE BurstInv
  OBVIOUS
<1> USE LimitAssumption, ClockAssumption, BoundAssumption
<1>1. Inv
  BY InitInv
<1>2. TypeOK
  BY DEF Init, TypeOK, Idle, Calls
<1>3. Remembers
  BY DEF Init, Remembers
<1>4. Windows
  <2> SUFFICES ASSUME NEW k \in Keys
               PROVE  bucket[k] = Absent /\ InWindow(bucket[k], recent[k], 0, now)
    BY DEF Windows
  <2>1. bucket[k] = Absent /\ recent[k] = <<>>
    BY DEF Init
  <2>2. Len(<<>>) = 0
    OBVIOUS
  <2> QED
    BY <2>1, <2>2 DEF InWindow
<1>5. BurstBound
  <2>1. \A k \in Keys : Len(recent[k]) = 0
    BY DEF Init
  <2> QED
    BY <2>1 DEF BurstBound
<1> QED
  BY <1>1, <1>2, <1>3, <1>4, <1>5 DEF BurstInv

\* What every step of a process but a script's leaves alone.
LEMMA QuietCall ==
  ASSUME BurstInv, UNCHANGED <<now, bucket, recent>>, runs' = runs
  PROVE  Remembers' /\ Windows' /\ BurstBound'
BY DEF BurstInv, Remembers, Windows, BurstBound

\* The types of the calls when one of them changes.
LEMMA CallTyped ==
  ASSUME BurstInv, NEW p \in Processes, NEW c \in Calls, call' = [call EXCEPT ![p] = c],
         now' = now, c.pc = "sent" => now - c.at <= MaxDelay
  PROVE  \A q \in Processes :
           /\ call'[q] \in Calls
           /\ call'[q].pc = "sent" => now' - call'[q].at <= MaxDelay
<1>1. DOMAIN call = Processes
  BY DEF BurstInv, Inv, Typed
<1> QED
  BY <1>1 DEF BurstInv, TypeOK

LEMMA FaultTyped ==
  ASSUME BurstInv, Fault
  PROVE  faults' \in 0 .. MaxFaults
BY BoundAssumption DEF BurstInv, TypeOK, Fault

LEMMA HitBurst ==
  ASSUME BurstInv, NEW p \in Processes, Hit(p)
  PROVE  BurstInv'
<1>1. Inv'
  BY HitKeepsInv DEF BurstInv
<1>2. UNCHANGED <<now, bucket, recent, charged, runs, faults>>
  BY DEF Hit
<1>3. Remembers' /\ Windows' /\ BurstBound'
  BY <1>2, QuietCall
<1>4. PICK a \in Attempts :
        call' = [call EXCEPT ![p] =
                   [pc |-> "sent", key |-> a.key, read |-> Clock(p), at |-> now,
                    anonymous |-> a.anonymous]]
  BY DEF Hit
<1>5. PICK sent :
        sent = [pc |-> "sent", key |-> a.key, read |-> Clock(p), at |-> now,
                anonymous |-> a.anonymous]
  OBVIOUS
<1>6. a.key \in Keys /\ a.anonymous \in SUBSET Senders
  BY AttemptIsSenders
<1>7. now \in 0 .. MaxNow /\ Clock(p) \in 0 .. MaxNow + MaxSkew
  <2>1. now \in 0 .. MaxNow
    BY DEF BurstInv, TypeOK
  <2>2. Skew[p] \in 0 .. MaxSkew
    BY ClockAssumption
  <2> QED
    BY <2>1, <2>2, ClockAssumption, BoundAssumption DEF Clock
<1>8. sent \in Calls /\ now - sent.at <= MaxDelay
  BY <1>5, <1>6, <1>7, ClockAssumption, BoundAssumption DEF Calls
<1>9. \A q \in Processes :
        /\ call'[q] \in Calls
        /\ call'[q].pc = "sent" => now' - call'[q].at <= MaxDelay
  BY <1>2, <1>4, <1>5, <1>8, CallTyped
<1>10. TypeOK'
  BY <1>2, <1>9 DEF BurstInv, TypeOK
<1> QED
  BY <1>1, <1>3, <1>10 DEF BurstInv

LEMMA FailedCallBurst ==
  ASSUME BurstInv, NEW p \in Processes, HitFails(p) \/ NoCache(p)
  PROVE  BurstInv'
<1>1. Inv'
  BY FailedCallKeepsInv DEF BurstInv
<1>2. UNCHANGED <<now, bucket, recent, charged, runs>>
  BY DEF HitFails, NoCache
<1>3. Remembers' /\ Windows' /\ BurstBound'
  BY <1>2, QuietCall
<1>4. PICK c \in Calls : c.pc # "sent" /\ call' = [call EXCEPT ![p] = c]
  <2>1. CASE NoCache(p)
    BY <2>1 DEF NoCache, Calls
  <2>2. CASE HitFails(p)
    <3> DEFINE c == [pc |-> IF FailOpen THEN "served" ELSE "raised"]
    <3>1. call' = [call EXCEPT ![p] = c]
      BY <2>2 DEF HitFails, Unavailable
    <3>2. c \in Calls /\ c.pc # "sent"
      BY DEF Calls
    <3> QED
      BY <3>1, <3>2
  <2> QED
    BY <2>1, <2>2
<1>5. \A q \in Processes :
        /\ call'[q] \in Calls
        /\ call'[q].pc = "sent" => now' - call'[q].at <= MaxDelay
  BY <1>2, <1>4, CallTyped
<1>6. faults' \in 0 .. MaxFaults
  BY FaultTyped DEF HitFails, NoCache
<1>7. TypeOK'
  BY <1>2, <1>5, <1>6 DEF BurstInv, TypeOK
<1> QED
  BY <1>1, <1>3, <1>7 DEF BurstInv
\* The script ran and the call ended, with its answer or without.
LEMMA CountedCallBurst ==
  ASSUME BurstInv, NEW p \in Processes, RunHit(p) \/ AnswerLost(p)
  PROVE  BurstInv'
<1> DEFINE k == call[p].key
           t == call[p].read
           b == bucket[k]
           s == recent[k]
<1> USE LimitAssumption, ClockAssumption, BoundAssumption
<1>inv. Inv'
  BY CountedCallKeepsInv DEF BurstInv
<1>1. Counts(p) /\ now' = now /\ runs' = runs + 1 /\ runs < MaxRuns
  BY DEF RunHit, AnswerLost, Counts
<1>2. /\ call[p] \in Calls /\ call[p].pc = "sent"
      /\ now \in 0 .. MaxNow /\ runs \in 0 .. MaxRuns
  BY <1>1 DEF Counts, BurstInv, TypeOK
<1>3. /\ k \in Keys /\ t \in 0 .. MaxNow + MaxSkew /\ call[p].at \in 0 .. MaxNow
      /\ call[p].anonymous \subseteq Senders
  BY <1>2 DEF Calls
<1>4. t <= now + MaxSkew /\ now <= t + MaxDelay
  <2>1. /\ call[p].at <= now /\ now <= call[p].at + MaxDelay
        /\ call[p].at <= t /\ t <= call[p].at + MaxSkew
    BY <1>2 DEF BurstInv, Inv, SentLately
  <2> QED
    BY <1>2, <1>3, <2>1
<1>5. /\ b \in Buckets \cup {Absent} /\ s \in Seq(Int) /\ Len(s) <= 2 * Limit
      /\ b # Absent => b.since <= now /\ WindowHolds(b) /\ b.hits <= runs
  BY <1>3 DEF BurstInv, TypeOK, Remembers, Windows
<1>6. PICK j \in Int : InWindow(b, s, j, now)
  BY <1>3 DEF BurstInv, Windows
<1>7. PICK c : c = Counted(b, t)
  OBVIOUS
<1>8. /\ bucket' = [bucket EXCEPT ![k] = c]
      /\ charged' = [charged EXCEPT ![k] = @ \cup call[p].anonymous]
  BY <1>1, <1>7 DEF Counts
<1>9. /\ DOMAIN bucket = Keys /\ DOMAIN charged = Keys /\ DOMAIN call = Processes
      /\ recent \in [Keys -> Seq(Int)]
  BY DEF BurstInv, Inv, Typed, Remembers
<1>type. TypeOK
  BY DEF BurstInv
<1> HIDE DEF b, s, t, k
<1>10. c \in Buckets /\ c # Absent /\ c.since <= now /\ c.hits <= runs + 1 /\ WindowHolds(c)
  BY <1>1, <1>3, <1>4, <1>5, <1>7, <1>type, CountedInRange
<1>11. PICK i \in Int :
         /\ InWindow(c, s, i, now)
         /\ i < c.hits
         /\ i + 1 = c.hits => IF i = 0 THEN c.since = now ELSE s[Len(s) - i + 1] = c.since
  BY <1>3, <1>4, <1>5, <1>6, <1>7, <1>type, CountUnremembered
\* The sequence that is remembered in the end, and the place it has in the window.
<1>12. PICK v \in Seq(Int) :
         /\ recent' = [recent EXCEPT ![k] = v]
         /\ Len(v) <= 2 * Limit
         /\ \E m \in Int : InWindow(c, v, m, now)
         /\ Len(v) = 2 * Limit => v = s \/ v[2 * Limit] - v[1] >= Shortest
  <2>1. CASE RunHit(p) /\ Allowed(c.hits)
    <3>1. bucket'[k] = c
      BY <1>3, <1>8, <1>9
    <3>2. recent' = [recent EXCEPT ![k] = Remembered(s)]
      BY <2>1, <3>1 DEF RunHit, k, s
    <3>3. c.hits <= Limit
      BY <2>1 DEF Allowed
    <3>4. now \in Int
      BY <1>2
    <3>5. /\ Remembered(s) \in Seq(Int)
          /\ Len(Remembered(s)) <= 2 * Limit
          /\ InWindow(c, Remembered(s), i + 1, now)
          /\ Len(Remembered(s)) = 2 * Limit =>
               Remembered(s)[2 * Limit] - Remembered(s)[1] >= Shortest
      BY <1>5, <1>10, <1>11, <3>3, <3>4, RememberedKeepsWindow
    <3>6. i + 1 \in Int
      OBVIOUS
    <3> QED
      BY <3>2, <3>5, <3>6
  <2>2. CASE AnswerLost(p) \/ ~Allowed(c.hits)
    <3>1. bucket'[k] = c
      BY <1>3, <1>8, <1>9
    <3>2. recent' = recent
      BY <2>2, <3>1 DEF RunHit, AnswerLost, k
    <3>3. recent' = [recent EXCEPT ![k] = s]
      BY <1>3, <1>9, <3>2 DEF s
    <3> QED
      BY <1>5, <1>11, <3>3
  <2> QED
    BY <2>1, <2>2
<1>13. ASSUME NEW x \in Keys
       PROVE  IF x = k THEN bucket'[x] = c /\ recent'[x] = v /\ charged'[x] \subseteq charged[x] \cup Senders
              ELSE bucket'[x] = bucket[x] /\ recent'[x] = recent[x] /\ charged'[x] = charged[x]
  BY <1>3, <1>8, <1>9, <1>12
<1>14. Remembers'
  BY <1>9, <1>12 DEF Remembers
<1>15. Windows'
  <2> SUFFICES ASSUME NEW x \in Keys
               PROVE  /\ bucket'[x] # Absent => WindowHolds(bucket'[x]) /\ bucket'[x].hits <= runs'
                      /\ \E m \in Int : InWindow(bucket'[x], recent'[x], m, now')
    BY DEF Windows, WindowHolds, InWindow
  <2>1. CASE x = k
    BY <1>1, <1>10, <1>12, <1>13, <2>1
  <2>2. CASE x # k
    <3>1. bucket'[x] = bucket[x] /\ recent'[x] = recent[x]
      BY <1>13, <2>2
    <3>2. /\ bucket[x] # Absent => WindowHolds(bucket[x]) /\ bucket[x].hits <= runs
          /\ \E m \in Int : InWindow(bucket[x], recent[x], m, now)
      BY DEF BurstInv, Windows
    <3>3. bucket[x] # Absent => bucket[x].hits \in Int
      BY <1>type DEF TypeOK, Buckets
    <3>4. bucket[x] # Absent => bucket[x].hits <= runs + 1
      BY <1>2, <3>2, <3>3
    <3> QED
      BY <1>1, <3>1, <3>2, <3>4
  <2> QED
    BY <2>1, <2>2
<1>16. BurstBound'
  <2> SUFFICES ASSUME NEW x \in Keys, Len(recent'[x]) = 2 * Limit
               PROVE  recent'[x][2 * Limit] - recent'[x][1] >= Shortest
    BY DEF BurstBound, Shortest
  <2>1. \A y \in Keys : Len(recent[y]) = 2 * Limit => recent[y][2 * Limit] - recent[y][1] >= Shortest
    BY DEF BurstInv, BurstBound, Shortest
  <2>2. CASE x = k
    BY <1>3, <1>12, <1>13, <2>1, <2>2 DEF s
  <2>3. CASE x # k
    BY <1>13, <2>1, <2>3
  <2> QED
    BY <2>2, <2>3
<1>17. PICK e \in Calls : e.pc # "sent" /\ call' = [call EXCEPT ![p] = e]
  <2>1. CASE AnswerLost(p)
    <3> DEFINE e == [pc |-> IF FailOpen THEN "served" ELSE "raised"]
    <3>1. call' = [call EXCEPT ![p] = e]
      BY <2>1 DEF AnswerLost, Unavailable
    <3>2. e \in Calls /\ e.pc # "sent"
      BY DEF Calls
    <3> QED
      BY <3>1, <3>2
  <2>2. CASE RunHit(p)
    <3>1. bucket'[k] = c
      BY <1>3, <1>8, <1>9
    <3>2. now - c.since \in 0 .. MaxNow
      BY <1>2, <1>10 DEF Buckets
    <3>3. CASE Allowed(c.hits)
      BY <2>2, <3>1, <3>3 DEF RunHit, Calls, k
    <3>4. CASE ~Allowed(c.hits)
      <4> DEFINE e == [pc |-> "denied", age |-> now - c.since]
      <4>1. call' = [call EXCEPT ![p] = e]
        BY <2>2, <3>1, <3>4 DEF RunHit, k
      <4>2. e \in Calls /\ e.pc # "sent"
        BY <3>2 DEF Calls
      <4> QED
        BY <4>1, <4>2
    <3> QED
      BY <3>3, <3>4
  <2> QED
    BY <2>1, <2>2
<1>18. \A q \in Processes :
         /\ call'[q] \in Calls
         /\ call'[q].pc = "sent" => now' - call'[q].at <= MaxDelay
  BY <1>1, <1>17, CallTyped
<1>19. faults' \in 0 .. MaxFaults
  <2>1. CASE AnswerLost(p)
    BY <2>1, FaultTyped DEF AnswerLost
  <2>2. CASE RunHit(p)
    BY <2>2 DEF RunHit, BurstInv, TypeOK
  <2> QED
    BY <2>1, <2>2
<1>20. ASSUME NEW x \in Keys
       PROVE  /\ bucket'[x] \in Buckets \cup {Absent}
              /\ bucket'[x] # Absent => bucket'[x].since <= now
              /\ Len(recent'[x]) <= 2 * Limit
              /\ charged'[x] \subseteq Senders
  BY <1>10, <1>12, <1>13, <1>type DEF TypeOK
<1>21. now' \in 0 .. MaxNow /\ runs' \in 0 .. MaxRuns
  BY <1>1, <1>2
<1>22. TypeOK'
  BY <1>1, <1>18, <1>19, <1>20, <1>21 DEF TypeOK
<1> QED
  BY <1>inv, <1>14, <1>15, <1>16, <1>22 DEF BurstInv

\* clear, and redis that drops a key or loses its expiry.  A key is dropped on its own no
\* sooner than a shortest window after the attempt that opened its window.
LEMMA KeyStepBurst ==
  ASSUME BurstInv, NEW k \in Keys, Clear(k) \/ Expire(k) \/ ExpiryLost(k)
  PROVE  BurstInv'
<1> USE LimitAssumption, ClockAssumption, BoundAssumption
<1>inv. Inv'
  BY KeyStepKeepsInv DEF BurstInv
<1>1. UNCHANGED <<now, call, charged, runs>>
  BY DEF Clear, Expire, ExpiryLost
<1>2. DOMAIN bucket = Keys /\ recent \in [Keys -> Seq(Int)] /\ now \in 0 .. MaxNow
  BY DEF BurstInv, Inv, Typed, Remembers, TypeOK
<1>3. /\ bucket[k] \in Buckets /\ bucket[k] # Absent
      /\ bucket[k].since <= now /\ WindowHolds(bucket[k]) /\ bucket[k].hits <= runs
      /\ recent[k] \in Seq(Int) /\ Len(recent[k]) <= 2 * Limit
  BY <1>2 DEF Clear, Expire, ExpiryLost, BurstInv, TypeOK, Windows
<1>4. PICK j \in Int : InWindow(bucket[k], recent[k], j, now)
  BY DEF BurstInv, Windows
<1>5. PICK b, v :
        /\ bucket' = [bucket EXCEPT ![k] = b] /\ b \in Buckets \cup {Absent}
        /\ b # Absent => b.since <= now /\ WindowHolds(b) /\ b.hits <= runs
        /\ recent' = [recent EXCEPT ![k] = v] /\ v \in Seq(Int)
        /\ v = <<>> \/ v = recent[k]
        /\ \E m \in Int : InWindow(b, v, m, now)
  <2>1. CASE Clear(k)
    <3>1. InWindow(Absent, <<>>, 0, now)
      BY DEF InWindow
    <3>2. <<>> \in Seq(Int)
      OBVIOUS
    <3>3. bucket' = [bucket EXCEPT ![k] = Absent] /\ recent' = [recent EXCEPT ![k] = <<>>]
      BY <2>1 DEF Clear
    <3>4. \E m \in Int : InWindow(Absent, <<>>, m, now)
      BY <3>1
    <3> WITNESS Absent, <<>>
    <3> QED
      BY <3>2, <3>3, <3>4
  <2>2. CASE Expire(k)
    <3> DEFINE c == bucket[k]
               s == recent[k]
    <3>1. c.gone = now /\ c.gone # Never
      BY <2>2 DEF Expire
    <3>2. c.reset \in Int /\ c.since \in Int /\ c.hits \in Int
      BY <1>3 DEF Buckets
    <3>3. c.since + Shortest <= now
      <4>1. c.gone >= c.reset - MaxSkew /\ c.reset >= c.since + Window - MaxDelay
        BY <1>3, <3>1 DEF WindowHolds
      <4>2. Window \in Int /\ MaxSkew \in Int /\ MaxDelay \in Int /\ now \in Int
        BY <1>2
      <4>3. now >= c.reset - MaxSkew
        BY <3>1, <4>1
      <4> HIDE DEF c
      <4> QED
        BY <3>2, <4>1, <4>2, <4>3 DEF Shortest
    <3>4. Len(s) \in Nat /\ (\A i \in 1 .. Len(s) : s[i] \in Int) /\ j \in 0 .. Limit /\ j <= c.hits
      BY <1>3, <1>4 DEF InWindow
    <3>5. ASSUME NEW i \in 1 .. Len(s), i + Limit <= Len(s) + 1 PROVE s[i] + Shortest <= now
      <4>1. s[i] <= c.since
        <5>1. CASE i + j <= Len(s)
          BY <1>3, <1>4, <5>1 DEF InWindow
        <5>2. CASE i + j > Len(s)
          <6>0. Len(s) \in Nat /\ Limit \in Nat /\ i \in Int /\ j \in Int /\ j <= Limit
            BY <3>4
          <6>1. j = Limit /\ i = Len(s) - j + 1
            BY <3>5, <5>2, <6>0
          <6> QED
            BY <1>3, <1>4, <3>2, <6>1 DEF InWindow
        <5> QED
          BY <3>4, <5>1, <5>2
      <4> QED
        <5>1. s[i] \in Int /\ Shortest \in Int /\ now \in Int
          BY <1>2, <3>4, <3>5 DEF Shortest
        <5> QED
          BY <3>2, <3>3, <4>1, <5>1
    <3>6. \A i \in 1 .. Len(s) : s[i] <= now
      BY <1>4 DEF InWindow
    <3>7. InWindow(Absent, s, 0, now)
      BY <3>4, <3>5, <3>6 DEF InWindow
    <3>8. bucket' = [bucket EXCEPT ![k] = Absent] /\ recent' = [recent EXCEPT ![k] = s]
      BY <1>2, <2>2 DEF Expire
    <3>9. \E m \in Int : InWindow(Absent, s, m, now)
      BY <3>7
    <3> HIDE DEF s
    <3>10. s \in Seq(Int) /\ s = recent[k]
      BY <1>3 DEF s
    <3> WITNESS Absent, s
    <3> QED
      BY <3>8, <3>9, <3>10
  <2>3. CASE ExpiryLost(k)
    <3> DEFINE c == bucket[k]
    <3>1. PICK b : b = [hits |-> c.hits, reset |-> c.reset, gone |-> Never, since |-> c.since]
      OBVIOUS
    <3>2. bucket' = [bucket EXCEPT ![k] = b]
      <4>1. bucket' = [bucket EXCEPT ![k] = [c EXCEPT !.gone = Never]]
        BY <2>3 DEF ExpiryLost
      <4>2. [c EXCEPT !.gone = Never] = b
        <5>1. c \in Buckets
          BY <1>3
        <5> HIDE DEF c
        <5> QED
          BY <3>1, <5>1 DEF Buckets
      <4> QED
        BY <4>1, <4>2
    <3>3. b \in Buckets /\ b # Absent /\ WindowHolds(b)
      <4>1. PICK d \in Buckets : d = c
        BY <1>3
      <4>2. b = [d EXCEPT !.gone = Never]
        BY <3>1, <4>1 DEF Buckets
      <4>3. Never \in 0 .. MaxNow + MaxSkew + MaxDelay + Window
        BY DEF Never
      <4>4. b \in Buckets
        BY <4>1, <4>2, <4>3 DEF Buckets
      <4>5. b.hits # 0
        BY <4>4 DEF Buckets
      <4>6. b # Absent
        BY <4>5 DEF Absent
      <4>7. b.reset = c.reset /\ b.since = c.since /\ b.gone = Never
        BY <3>1
      <4>8. WindowHolds(b)
        BY <1>3, <4>7 DEF WindowHolds
      <4> QED
        BY <4>4, <4>6, <4>8
    <3>4. b.hits = c.hits /\ b.since = c.since
      BY <3>1
    <3>5. InWindow(b, recent[k], j, now)
      BY <1>3, <1>4, <3>3, <3>4 DEF InWindow
    <3>6. recent' = [recent EXCEPT ![k] = recent[k]]
      BY <1>2, <2>3 DEF ExpiryLost
    <3> QED
      BY <1>3, <3>2, <3>3, <3>4, <3>5, <3>6
  <2> QED
    BY <2>1, <2>2, <2>3
<1>6. ASSUME NEW x \in Keys
      PROVE  IF x = k THEN bucket'[x] = b /\ recent'[x] = v
             ELSE bucket'[x] = bucket[x] /\ recent'[x] = recent[x]
  BY <1>2, <1>5
<1>7. Remembers'
  BY <1>2, <1>5 DEF Remembers
<1>8. Windows'
  <2> SUFFICES ASSUME NEW x \in Keys
               PROVE  /\ bucket'[x] # Absent => WindowHolds(bucket'[x]) /\ bucket'[x].hits <= runs'
                      /\ \E m \in Int : InWindow(bucket'[x], recent'[x], m, now')
    BY DEF Windows, WindowHolds, InWindow
  <2>1. CASE x = k
    BY <1>1, <1>5, <1>6, <2>1
  <2>2. CASE x # k
    BY <1>1, <1>6, <2>2 DEF BurstInv, Windows
  <2> QED
    BY <2>1, <2>2
<1>9. BurstBound'
  <2> SUFFICES ASSUME NEW x \in Keys, Len(recent'[x]) = 2 * Limit
               PROVE  recent'[x][2 * Limit] - recent'[x][1] >= Shortest
    BY DEF BurstBound, Shortest
  <2>1. \A y \in Keys : Len(recent[y]) = 2 * Limit => recent[y][2 * Limit] - recent[y][1] >= Shortest
    BY DEF BurstInv, BurstBound, Shortest
  <2>2. Len(<<>>) # 2 * Limit
    OBVIOUS
  <2>3. recent'[x] = recent[x]
    BY <1>5, <1>6, <2>2
  <2> QED
    BY <2>1, <2>3
<1>10. faults' \in 0 .. MaxFaults
  <2>1. CASE ExpiryLost(k)
    BY <2>1, FaultTyped DEF ExpiryLost
  <2>2. CASE Clear(k) \/ Expire(k)
    BY <2>2 DEF Clear, Expire, BurstInv, TypeOK
  <2> QED
    BY <2>1, <2>2
<1>11. ASSUME NEW x \in Keys
       PROVE  /\ bucket'[x] \in Buckets \cup {Absent}
              /\ bucket'[x] # Absent => bucket'[x].since <= now
              /\ Len(recent'[x]) <= 2 * Limit
  <2>1. Len(<<>>) <= 2 * Limit
    OBVIOUS
  <2> QED
    BY <1>3, <1>5, <1>6, <2>1 DEF BurstInv, TypeOK
<1>12. TypeOK'
  BY <1>1, <1>10, <1>11 DEF BurstInv, TypeOK
<1> QED
  BY <1>inv, <1>7, <1>8, <1>9, <1>12 DEF BurstInv

LEMMA TickBurst ==
  ASSUME BurstInv, Tick
  PROVE  BurstInv'
<1> USE LimitAssumption, ClockAssumption, BoundAssumption
<1>inv. Inv'
  BY TickKeepsInv DEF BurstInv
<1>1. now \in 0 .. MaxNow /\ now < MaxNow /\ now' = now + 1
      /\ UNCHANGED <<bucket, call, recent, charged, runs, faults>>
  BY DEF Tick, BurstInv, TypeOK
<1>2. Remembers' /\ BurstBound'
  BY <1>1 DEF BurstInv, Remembers, BurstBound
<1>3. Windows'
  <2> SUFFICES ASSUME NEW x \in Keys
               PROVE  /\ bucket[x] # Absent => WindowHolds(bucket[x]) /\ bucket[x].hits <= runs
                      /\ \E m \in Int : InWindow(bucket[x], recent[x], m, now + 1)
    BY <1>1 DEF Windows, WindowHolds, InWindow
  <2>1. PICK j \in Int : InWindow(bucket[x], recent[x], j, now)
    BY DEF BurstInv, Windows
  <2>2. recent[x] \in Seq(Int) /\ Shortest \in Int
    BY DEF BurstInv, Remembers, Shortest
  <2>3. \A i \in 1 .. Len(recent[x]) :
          /\ recent[x][i] \in Int
          /\ recent[x][i] <= now => recent[x][i] <= now + 1
          /\ recent[x][i] + Shortest <= now => recent[x][i] + Shortest <= now + 1
    BY <1>1, <2>2
  <2>4. InWindow(bucket[x], recent[x], j, now + 1)
    BY <2>1, <2>3 DEF InWindow
  <2> QED
    BY <2>4 DEF BurstInv, Windows
<1>4. TypeOK'
  <2>1. ASSUME NEW k \in Keys, bucket[k] # Absent PROVE bucket[k].since <= now + 1
    <3>1. bucket[k] \in Buckets /\ bucket[k].since <= now /\ now \in 0 .. MaxNow
      BY <2>1 DEF BurstInv, TypeOK
    <3>2. bucket[k].since \in Int /\ now \in Int
      BY <3>1 DEF Buckets
    <3> QED
      BY <3>1, <3>2
  <2>2. ASSUME NEW p \in Processes, call'[p].pc = "sent"
        PROVE  now' - call'[p].at <= MaxDelay
    <3>1. now < call[p].at + MaxDelay
      BY <1>1, <2>2 DEF Tick
    <3>2. call[p].at \in Int
      BY <1>1, <2>2 DEF BurstInv, Inv, Typed, SentCalls
    <3>3. (now + 1) - call[p].at <= MaxDelay
      BY <1>1, <3>1, <3>2
    <3>4. now' = now + 1 /\ call' = call
      BY <1>1
    <3> QED
      BY <3>3, <3>4
  <2> QED
    <3>1. now + 1 \in 0 .. MaxNow
      BY <1>1
    <3>2. /\ runs \in 0 .. MaxRuns /\ faults \in 0 .. MaxFaults
          /\ \A k \in Keys : /\ bucket[k] \in Buckets \cup {Absent}
                             /\ Len(recent[k]) <= 2 * Limit /\ charged[k] \subseteq Senders
          /\ \A p \in Processes : call[p] \in Calls
      BY DEF BurstInv, TypeOK
    <3>3. \A k \in Keys :
            /\ bucket'[k] \in Buckets \cup {Absent}
            /\ bucket'[k] # Absent => bucket'[k].since <= now'
            /\ Len(recent'[k]) <= 2 * Limit
            /\ charged'[k] \subseteq Senders
      BY <1>1, <2>1, <3>2
    <3>4. \A p \in Processes :
            /\ call'[p] \in Calls
            /\ call'[p].pc = "sent" => now' - call'[p].at <= MaxDelay
      BY <1>1, <2>2, <3>2
    <3> QED
      BY <1>1, <3>1, <3>2, <3>3, <3>4 DEF TypeOK
<1> QED
  BY <1>inv, <1>2, <1>3, <1>4 DEF BurstInv

LEMMA BurstInvariance == Spec => []BurstInv
<1>1. BurstInv /\ [Next]_vars => BurstInv'
  <2> SUFFICES ASSUME BurstInv, [Next]_vars PROVE BurstInv'
    OBVIOUS
  <2>1. CASE \E p \in Processes : Hit(p)
    BY <2>1, HitBurst
  <2>2. CASE \E p \in Processes : RunHit(p) \/ AnswerLost(p)
    BY <2>2, CountedCallBurst
  <2>3. CASE \E p \in Processes : HitFails(p) \/ NoCache(p)
    BY <2>3, FailedCallBurst
  <2>4. CASE \E k \in Keys : Clear(k) \/ Expire(k) \/ ExpiryLost(k)
    BY <2>4, KeyStepBurst
  <2>5. CASE Tick
    BY <2>5, TickBurst
  <2>6. CASE UNCHANGED vars
    BY <2>6 DEF vars, BurstInv, Inv, Typed, SentLately, WindowBounded, LockoutEnds, SentBySender,
                ChargedToSender, TypeOK, Remembers, Windows, WindowHolds, InWindow, BurstBound
  <2> QED
    BY <2>1, <2>2, <2>3, <2>4, <2>5, <2>6 DEF Next
<1> QED
  BY <1>1, InitBurst, PTL DEF Spec

\* Throttle.check after the fact: what it refuses, hit in the same second refuses.
LEMMA PeekAgrees ==
  ASSUME BurstInv
  PROVE  PeekIsSound
<1> SUFFICES ASSUME NEW k \in Keys, NEW p \in Processes, ~Peek(bucket[k], Clock(p))
             PROVE  ~Allowed(Counted(bucket[k], Clock(p)).hits)
  BY DEF PeekIsSound
<1>1. ~Closed(bucket[k], Clock(p)) /\ ~Allowed(bucket[k].hits)
  BY DEF Peek
<1>2. bucket[k] \in Buckets
  BY <1>1 DEF BurstInv, TypeOK, Closed
<1>3. Counted(bucket[k], Clock(p)).hits = bucket[k].hits + 1
  BY <1>1, <1>2 DEF Counted, Buckets
<1> QED
  BY <1>1, <1>2, <1>3, LimitAssumption DEF Allowed, Buckets

\* Throttle.hit: whatever the limit, of 2 * Limit attempts counted and allowed on a key the
\* last comes a window, less skew and delay, after the first; every counter is in range, and
\* check() denies nothing that hit() would allow.
THEOREM LimitIsKept == Spec => []LimitKept
<1>1. BurstInv => LimitKept
  BY PeekAgrees DEF BurstInv, LimitKept
<1> QED
  BY <1>1, BurstInvariance, PTL
=============================================================================
