-------------------------- MODULE DepositFeedProofs --------------------------
(***************************************************************************)
(* The deposit feed skips nothing, for every set of streams, kinds and     *)
(* concurrent requests, every page size and limit, every number of events, *)
(* epochs and faults.                                                      *)
(***************************************************************************)
EXTENDS DepositFeed, FiniteSetTheorems, WellFoundedInduction, TLAPS

-----------------------------------------------------------------------------
\* Facts about finite sets of numbers.

\* A nonempty set of natural numbers has a least element.
LEMMA LeastNat ==
    ASSUME NEW S, S \subseteq Nat, S # {}
    PROVE  \E x \in S : \A y \in S : x <= y
<1>1. PICK x \in S : \A y \in S : ~(<<y, x>> \in OpToRel(<, Nat))
  BY NatLessThanWellFounded, WFMin
<1>2. \A y \in S : ~(y < x)
  BY <1>1 DEF OpToRel
<1> QED
  BY <1>2

\* A nonempty set of numbers below a bound has a greatest element, and that is
\* its Max.
LEMMA MaxIsGreatest ==
    ASSUME NEW b \in Nat, NEW S, S \subseteq 1 .. b, S # {}
    PROVE  Max(S) \in S /\ \A y \in S : y <= Max(S)
<1> DEFINE T == {b - y : y \in S}
<1>0. \A y \in S : y \in Nat /\ y <= b /\ b - y \in Nat
  OBVIOUS
<1>1. T \subseteq Nat /\ T # {}
  BY <1>0
<1>2. PICK t \in T : \A u \in T : t <= u
  BY <1>1, LeastNat
<1>3. PICK x \in S : t = b - x
  BY <1>2
<1>4. \A y \in S : x >= y
  <2> SUFFICES ASSUME NEW y \in S PROVE x >= y
    OBVIOUS
  <2>1. b - y \in T
    OBVIOUS
  <2>2. b - x <= b - y
    BY <1>2, <1>3, <2>1
  <2> QED
    BY <1>0, <2>2
<1>5. Max(S) \in S /\ \A y \in S : Max(S) >= y
  BY <1>4 DEF Max
<1> QED
  BY <1>0, <1>5

\* The first n elements of a set.
FirstOf(S, n) == {i \in S : Cardinality({j \in S : j <= i}) <= n}

\* The first elements are closed downwards, they are all when n is large
\* enough, and there is one when n is not zero.
LEMMA FirstElements ==
    ASSUME NEW b \in Nat, NEW S, S \subseteq 1 .. b, NEW n \in Nat
    PROVE  /\ \A i \in FirstOf(S, n) : \A j \in S : j <= i => j \in FirstOf(S, n)
           /\ Cardinality(S) <= n => FirstOf(S, n) = S
           /\ S # {} /\ n # 0 => FirstOf(S, n) # {}
<1>0. \A y \in S : y \in Nat
  OBVIOUS
<1>1. IsFiniteSet(1 .. b)
  BY FS_Interval
<1>2. IsFiniteSet(S) /\ Cardinality(S) \in Nat
  BY <1>1, FS_Subset, FS_CardinalityType
<1>3. \A i \in S : /\ IsFiniteSet({j \in S : j <= i})
                   /\ Cardinality({j \in S : j <= i}) \in Nat
                   /\ Cardinality({j \in S : j <= i}) <= Cardinality(S)
  BY <1>2, FS_Subset, FS_CardinalityType
<1>4. ASSUME NEW i \in FirstOf(S, n), NEW k \in S, k <= i PROVE k \in FirstOf(S, n)
  <2>0. i \in S /\ i \in Nat /\ k \in Nat
    BY <1>0 DEF FirstOf
  <2>1. {j \in S : j <= k} \subseteq {j \in S : j <= i}
    <3> SUFFICES ASSUME NEW j \in S, j <= k PROVE j <= i
      OBVIOUS
    <3>1. j \in Nat /\ k <= i
      BY <1>0, <1>4
    <3> QED
      BY <2>0, <3>1
  <2>2. Cardinality({j \in S : j <= k}) <= Cardinality({j \in S : j <= i})
    BY <1>3, <2>0, <2>1, FS_Subset
  <2> QED
    BY <1>3, <2>0, <2>2 DEF FirstOf
<1>5. ASSUME Cardinality(S) <= n PROVE FirstOf(S, n) = S
  <2>1. \A i \in S : Cardinality({j \in S : j <= i}) <= n
    BY <1>2, <1>3, <1>5
  <2> QED
    BY <2>1 DEF FirstOf
<1>6. ASSUME S # {}, n # 0 PROVE FirstOf(S, n) # {}
  <2>1. PICK m \in S : \A y \in S : m <= y
    BY <1>0, <1>6, LeastNat
  <2>2. {j \in S : j <= m} = {m}
    <3>1. m \in Nat /\ m <= m
      BY <1>0
    <3>2. ASSUME NEW j \in S, j <= m PROVE j = m
      <4>1. j \in Nat /\ m <= j
        BY <1>0, <2>1
      <4> QED
        BY <3>1, <3>2, <4>1
    <3> QED
      BY <3>1, <3>2
  <2>3. Cardinality({m}) = 1
    BY FS_Singleton
  <2> QED
    BY <1>6, <2>2, <2>3 DEF FirstOf
<1> QED
  BY <1>4, <1>5, <1>6

-----------------------------------------------------------------------------
\* A page and the cursor made of it.

\* Whatever the page size and the limit, every wanted event between the old and
\* the new position is among the items.
LEMMA NoGap ==
    ASSUME TypeOK, NEW s \in Streams, NEW position \in Nat, position <= Len(log),
           NEW size \in Nat, NEW limit \in Limits, NEW page, page = Page(s, position, size)
    PROVE  /\ Items(s, page, limit) \subseteq DOMAIN log
           /\ NextPosition(s, page, limit, position) \in 0 .. Len(log)
           /\ \A i \in 1 .. NextPosition(s, page, limit, position) :
                 i > position /\ log[i].wallet = s.wallet /\ i \in Wanted(s, {i})
                    => i \in Items(s, page, limit)
<1> DEFINE ids == Behind(s, position)
           wanted == Wanted(s, page)
           items == Items(s, page, limit)
           next == NextPosition(s, page, limit, position)
<1>1. Len(log) \in Nat /\ DOMAIN log = 1 .. Len(log) /\ limit \in Nat /\ limit # 0
  BY FeedAssumption DEF TypeOK
<1>2. ids \subseteq 1 .. Len(log)
  BY <1>1 DEF Behind
<1>3. page = FirstOf(ids, size)
  BY DEF Page, FirstOf
<1>4. page \subseteq ids
  BY <1>3 DEF FirstOf
<1>5. \A i \in page : \A j \in ids : j <= i => j \in page
  BY <1>1, <1>2, <1>3, FirstElements
<1>6. wanted \subseteq page /\ wanted \subseteq 1 .. Len(log)
  BY <1>2, <1>4 DEF Wanted
<1>7. items = FirstOf(wanted, limit) /\ items \subseteq wanted
  BY DEF Items, FirstOf
<1>8. /\ \A i \in items : \A j \in wanted : j <= i => j \in items
      /\ Cardinality(wanted) <= limit => items = wanted
      /\ wanted # {} => items # {}
  <2> HIDE DEF wanted, items
  <2> QED
    BY <1>1, <1>6, <1>7, FirstElements
<1>9. Cardinality(wanted) \in Nat /\ (wanted = {} => Cardinality(wanted) = 0)
  <2>1. IsFiniteSet(1 .. Len(log))
    BY <1>1, FS_Interval
  <2>2. IsFiniteSet(wanted)
    BY <1>6, <2>1, FS_Subset
  <2> QED
    BY <2>2, FS_CardinalityType, FS_EmptySet
<1>10. \A i \in ids : i \in page /\ i \in Wanted(s, {i}) => i \in wanted
  BY DEF Wanted
<1>11. items \subseteq DOMAIN log
  BY <1>1, <1>6, <1>7
<1>12. \A i \in DOMAIN log :
          i > position /\ log[i].wallet = s.wallet /\ i \in Wanted(s, {i}) => i \in ids
  <2>1. Matches[s.filter] \subseteq Listed[s.filter]
    BY FeedAssumption
  <2> QED
    BY <2>1 DEF Wanted, Behind
<1>13. CASE page = {}
  <2>1. next = position
    BY <1>13 DEF NextPosition
  <2> QED
    BY <1>1, <1>11, <2>1
<1>14. CASE page # {} /\ Cardinality(wanted) >= limit
  <2>1. next = Max(items)
    BY <1>14 DEF NextPosition
  <2>2. items # {} /\ items \subseteq 1 .. Len(log)
    BY <1>1, <1>6, <1>7, <1>8, <1>9, <1>14
  <2>3. next \in items
    BY <1>1, <2>1, <2>2, MaxIsGreatest
  <2>4. ASSUME NEW i \in 1 .. next, i > position, log[i].wallet = s.wallet, i \in Wanted(s, {i})
        PROVE  i \in items
    <3>1. next \in 1 .. Len(log) /\ next \in page
      BY <1>6, <1>7, <2>2, <2>3
    <3>2. i \in 1 .. Len(log) /\ i <= next
      BY <1>1, <3>1
    <3>3. i \in ids
      BY <1>1, <1>12, <2>4, <3>2
    <3>4. i \in wanted
      BY <1>5, <1>10, <2>4, <3>1, <3>2, <3>3
    <3> QED
      BY <1>8, <2>3, <3>2, <3>4
  <2>5. next \in 0 .. Len(log)
    BY <1>1, <2>2, <2>3
  <2> QED
    BY <1>11, <2>4, <2>5
<1>15. CASE page # {} /\ ~(Cardinality(wanted) >= limit)
  <2>1. next = Max(page)
    BY <1>15 DEF NextPosition
  <2>2. page \subseteq 1 .. Len(log)
    BY <1>2, <1>4
  <2>3. next \in page
    BY <1>1, <1>15, <2>1, <2>2, MaxIsGreatest
  <2>4. items = wanted
    BY <1>1, <1>8, <1>9, <1>15
  <2>5. ASSUME NEW i \in 1 .. next, i > position, log[i].wallet = s.wallet, i \in Wanted(s, {i})
        PROVE  i \in items
    <3>1. next \in 1 .. Len(log)
      BY <2>2, <2>3
    <3>2. i \in 1 .. Len(log) /\ i <= next
      BY <1>1, <3>1
    <3>3. i \in ids
      BY <1>1, <1>12, <2>5, <3>2
    <3> QED
      BY <1>5, <1>10, <2>3, <2>4, <2>5, <3>2, <3>3
  <2>6. next \in 0 .. Len(log)
    BY <1>1, <2>2, <2>3
  <2> QED
    BY <1>11, <2>5, <2>6
<1> QED
  BY <1>13, <1>14, <1>15

\* The fault counter stays in its range.
LEMMA FaultsTyped ==
    ASSUME TypeOK, Fault \/ UNCHANGED faults
    PROVE  faults' \in 0 .. MaxFaults
  BY FeedAssumption DEF TypeOK, Fault

\* As long as the HMAC key stays, its bound does.
LEMMA KeyKept ==
    ASSUME TypeOK, KeyInv, UNCHANGED key, Fault \/ UNCHANGED faults
    PROVE  KeyInv'
  BY DEF TypeOK, KeyInv, Fault

\* A request at rest is of its type and claims nothing.
LEMMA IdleTyped == Idle \in Requests /\ Idle.pc = "idle"
<1>1. /\ (CHOOSE s \in Streams : TRUE) \in Streams /\ (CHOOSE l \in Limits : TRUE) \in Limits
      /\ 0 \in 0 .. MaxEpochs /\ NoCursor \in Cursors
  BY FeedAssumption DEF Cursors
<1> QED
  BY <1>1 DEF Idle, Requests

\* The request the exchange makes.
Asked(s, c, l) == [Idle EXCEPT !.pc = "ready", !.stream = s, !.cursor = c, !.limit = l]

LEMMA AskedTyped ==
    ASSUME NEW s \in Streams, NEW c \in Cursors, NEW l \in Limits
    PROVE  /\ Asked(s, c, l) \in Requests /\ Asked(s, c, l).pc = "ready"
           /\ Asked(s, c, l).stream = s /\ Asked(s, c, l).cursor = c
  BY IdleTyped DEF Asked, Requests


\* The initial state satisfies the invariant.
LEMMA InitInv == Init => FeedInv
<1> SUFFICES ASSUME Init PROVE FeedInv
  OBVIOUS
<1>1. TypeOK
  <2>1. /\ 1 \in 1 .. MaxEpochs /\ 1 \in 1 .. MaxFaults + 1 /\ 0 \in 0 .. MaxFaults
        /\ 0 <= MaxEvents /\ NoCursor \in Cursors
    BY FeedAssumption DEF Cursors
  <2>2. <<>> \in Seq(Events) /\ Len(<<>>) = 0
    OBVIOUS
  <2> QED
    BY <2>1, <2>2, IdleTyped DEF Init, TypeOK
<1>2. CursorInv /\ KeyInv
  BY DEF Init, CursorInv, Honest, KeyInv
<1>3. RequestInv
  BY IdleTyped DEF Init, RequestInv
<1> QED
  BY <1>1, <1>2, <1>3 DEF FeedInv

\* A step that changes one request, the others' claims being left alone.
LEMMA OneRequest ==
    ASSUME FeedInv, NEW h \in Handlers, NEW r, r \in Requests,
           request' = [request EXCEPT ![h] = r], UNCHANGED <<log, epoch, key, cursor, got>>,
           Fault \/ UNCHANGED faults,
           r.pc \in {"ready", "fetch"} => Honest(r.stream, r.cursor, got[r.stream]),
           r.pc = "fetch" /\ r.cursor # NoCursor =>
              CursorOf(r.stream, r.cursor) /\ r.cursor.epoch = r.epoch,
           r.pc = "page" => /\ Honest(r.stream, r.cursor, got[r.stream] \cup r.items)
                            /\ CursorOf(r.stream, r.cursor)
    PROVE  FeedInv'
<1> USE DEF FeedInv
<1>1. faults' \in 0 .. MaxFaults
  BY FaultsTyped
<1>2. TypeOK'
  BY <1>1 DEF TypeOK
<1>3. CursorInv' /\ KeyInv'
  BY KeyKept DEF CursorInv, Honest, Wanted, CursorOf
<1>4. RequestInv'
  <2>1. \A g \in Handlers : request'[g] = IF g = h THEN r ELSE request[g]
    BY DEF TypeOK
  <2> SUFFICES ASSUME NEW g \in Handlers PROVE RequestInv!(g)'
    BY DEF RequestInv
  <2>2. CASE g = h
    BY <2>1, <2>2 DEF Honest, Wanted, CursorOf
  <2>3. CASE g # h
    <3>1. RequestInv!(g)
      BY DEF RequestInv
    <3> QED
      BY <2>1, <2>3, <3>1 DEF Honest, Wanted, CursorOf
  <2> QED
    BY <2>2, <2>3
<1> QED
  BY <1>2, <1>3, <1>4

\* The exchange asks with the cursor it has for the stream, or mixes two up:
\* then the cursor is of another stream and promises nothing for this one.
LEMMA AskInv == ASSUME FeedInv, Polls \/ MixesUp PROVE FeedInv'
<1> USE DEF FeedInv
<1>1. PICK h \in Handlers, s \in Streams, t \in Streams, l \in Limits :
         request' = [request EXCEPT ![h] = Asked(s, cursor[t], l)]
  <2>1. CASE Polls
    <3>1. PICK h \in Handlers, s \in Streams, l \in Limits : Ask(h, s, cursor[s], l)
      BY <2>1 DEF Polls
    <3> QED
      BY <3>1 DEF Ask, Asked
  <2>2. CASE MixesUp
    <3>1. PICK h \in Handlers, s \in Streams, t \in Streams, l \in Limits :
             /\ s # t
             /\ request[h].pc = "idle"
             /\ request' = [request EXCEPT ![h] =
                   [Idle EXCEPT !.pc = "ready", !.stream = s, !.cursor = cursor[t], !.limit = l]]
      BY <2>2 DEF MixesUp
    <3> QED
      BY <3>1 DEF Asked
  <2> QED
    BY <2>1, <2>2
<1> DEFINE r == Asked(s, cursor[t], l)
<1>2. UNCHANGED <<log, epoch, key, cursor, got>> /\ (Fault \/ UNCHANGED faults)
  BY DEF Polls, MixesUp, Ask
<1>3. cursor[t] \in Cursors
  BY DEF TypeOK
<1>4. r \in Requests /\ r.pc = "ready" /\ r.stream = s /\ r.cursor = cursor[t]
  BY <1>3, AskedTyped
<1>5. Honest(s, cursor[t], got[s])
  <2>1. CASE s = t
    BY <2>1 DEF CursorInv
  <2>2. CASE s # t
    <3>1. s.wallet # t.wallet \/ s.filter # t.filter
      BY <2>2, FeedAssumption
    <3> QED
      BY <3>1 DEF CursorInv, Honest, CursorOf
  <2> QED
    BY <2>1, <2>2
<1> HIDE DEF r
<1> QED
  BY <1>1, <1>2, <1>4, <1>5, OneRequest DEF r

\* decode accepts a cursor of this stream and epoch only, and a request that is
\* given up claims nothing.
LEMMA CheckInv ==
    ASSUME FeedInv, NEW h \in Handlers, CheckReady(h) \/ Fails(h)
    PROVE  FeedInv'
<1> USE DEF FeedInv
<1>1. CASE Fails(h)
  BY <1>1, IdleTyped, OneRequest DEF Fails
<1>2. CASE CheckReady(h)
  <2> DEFINE r == request[h]
             v == decode(r.stream, r.cursor, epoch)
             q == [r EXCEPT !.pc = v, !.epoch = epoch]
  <2>1. /\ r.pc = "ready" /\ r \in Requests /\ epoch \in 0 .. MaxEpochs
        /\ Honest(r.stream, r.cursor, got[r.stream])
    <3>1. r.pc = "ready" /\ r \in Requests
      BY <1>2 DEF CheckReady, TypeOK
    <3>2. epoch \in 0 .. MaxEpochs
      BY FeedAssumption DEF TypeOK
    <3> QED
      BY <3>1, <3>2 DEF RequestInv
  <2>2. v \in {"fetch"} \cup Refusals
    BY DEF decode, Refusals
  <2>3. /\ q \in Requests /\ q.pc = v /\ q.pc \in {"fetch"} \cup Refusals
        /\ q.stream = r.stream /\ q.cursor = r.cursor /\ q.epoch = epoch
    <3> HIDE DEF v
    <3> QED
      BY <2>1, <2>2 DEF Requests
  <2>4. q.pc = "fetch" /\ q.cursor # NoCursor => CursorOf(q.stream, q.cursor) /\ q.cursor.epoch = q.epoch
    BY <2>3 DEF decode, CursorOf
  <2>5. request' = [request EXCEPT ![h] = q] /\ UNCHANGED <<log, epoch, key, cursor, got, faults>>
    BY <1>2 DEF CheckReady
  <2>6. q.pc # "page"
    BY <2>3 DEF Refusals
  <2> HIDE DEF q, v
  <2> QED
    BY <2>1, <2>3, <2>4, <2>5, <2>6, OneRequest
<1> QED
  BY <1>1, <1>2

\* The answer made of a page: its cursor passes nothing that is not among its
\* items or was delivered before.
LEMMA FetchInv ==
    ASSUME FeedInv, NEW h \in Handlers, NEW size \in 1 .. PageSize, Fetch(h, size)
    PROVE  FeedInv'
<1> USE DEF FeedInv
<1> DEFINE r == request[h]
           page == Page(r.stream, r.cursor.position, size)
           items == Items(r.stream, page, r.limit)
           next == NextPosition(r.stream, page, r.limit, r.cursor.position)
           dropped == [r EXCEPT !.pc = "reset"]
           answer == [r EXCEPT !.pc = "page", !.items = {log[i].serial : i \in items},
                               !.cursor = Encode(r.stream, epoch, next)]
<1>1. /\ r.pc = "fetch" /\ r \in Requests
      /\ r.stream \in Streams /\ r.cursor \in Cursors /\ r.limit \in Limits
      /\ Honest(r.stream, r.cursor, got[r.stream])
      /\ r.cursor # NoCursor => CursorOf(r.stream, r.cursor) /\ r.cursor.epoch = r.epoch
  BY DEF Fetch, TypeOK, Requests, RequestInv
<1>2. UNCHANGED <<log, epoch, key, cursor, got, faults>>
  BY DEF Fetch
<1>3. CASE r.epoch # epoch
  <2>1. request' = [request EXCEPT ![h] = dropped]
    BY <1>3 DEF Fetch
  <2>2. dropped \in Requests /\ dropped.pc = "reset"
    BY <1>1 DEF Requests, Refusals
  <2> HIDE DEF dropped
  <2> QED
    BY <1>2, <2>1, <2>2, OneRequest
<1>4. CASE r.epoch = epoch
  <2>1. request' = [request EXCEPT ![h] = answer]
    BY <1>4 DEF Fetch
  <2>2. /\ r.cursor.position \in Nat /\ r.cursor.position <= Len(log)
        /\ \A i \in 1 .. r.cursor.position :
              log[i].wallet = r.stream.wallet /\ i \in Wanted(r.stream, {i})
                 => log[i].serial \in got[r.stream]
    <3>1. CASE r.cursor = NoCursor
      <4>1. r.cursor.position = 0 /\ Len(log) \in Nat
        BY <3>1 DEF NoCursor, TypeOK
      <4> QED
        BY <4>1
    <3>2. CASE r.cursor # NoCursor
      <4>1. r.cursor.position \in Nat
        BY <1>1, <3>2, FeedAssumption DEF Cursors
      <4> QED
        BY <1>1, <1>4, <3>2, <4>1 DEF Honest
    <3> QED
      BY <3>1, <3>2
  <2>3. /\ items \subseteq DOMAIN log /\ next \in 0 .. Len(log)
        /\ \A i \in 1 .. next :
              i > r.cursor.position /\ log[i].wallet = r.stream.wallet /\ i \in Wanted(r.stream, {i})
                 => i \in items
    <3>1. size \in Nat
      BY FeedAssumption
    <3> DEFINE s == r.stream
               position == r.cursor.position
               limit == r.limit
    <3>2. TypeOK /\ s \in Streams /\ position \in Nat /\ position <= Len(log) /\ limit \in Limits
      BY <1>1, <2>2
    <3> HIDE DEF s, position, limit
    <3>3. PICK p : p = Page(s, position, size)
      OBVIOUS
    <3>4. /\ Items(s, p, limit) \subseteq DOMAIN log
          /\ NextPosition(s, p, limit, position) \in 0 .. Len(log)
          /\ \A i \in 1 .. NextPosition(s, p, limit, position) :
                i > position /\ log[i].wallet = s.wallet /\ i \in Wanted(s, {i})
                   => i \in Items(s, p, limit)
      BY <3>1, <3>2, <3>3, NoGap
    <3> QED
      BY <3>3, <3>4 DEF s, position, limit
  <2> HIDE DEF items, next
  <2>4. Encode(r.stream, epoch, next) \in Cursors /\ Encode(r.stream, epoch, next) # NoCursor
    <3>1. next \in 0 .. MaxEvents
      BY <2>3, FeedAssumption DEF TypeOK
    <3>2. r.stream.wallet \in Wallets /\ r.stream.filter \in Filters
      BY <1>1, FeedAssumption
    <3>3. key \in 1 .. MaxFaults + 1 /\ epoch \in 1 .. MaxEpochs
      BY DEF TypeOK
    <3> QED
      BY <3>1, <3>2, <3>3 DEF Encode, Cursors, NoCursor
  <2>5. {log[i].serial : i \in items} \subseteq Serials
    <3>1. \A i \in DOMAIN log : log[i] \in Events
      BY DEF TypeOK
    <3> QED
      BY <2>3, <3>1 DEF Events
  <2>6. /\ answer \in Requests /\ answer.pc = "page" /\ answer.stream = r.stream
        /\ answer.items = {log[i].serial : i \in items}
        /\ answer.cursor = Encode(r.stream, epoch, next)
    BY <1>1, <2>4, <2>5 DEF Requests
  <2> DEFINE c == Encode(r.stream, epoch, next)
  <2>7. c.epoch = epoch /\ c.position = next /\ CursorOf(r.stream, c)
    BY DEF Encode, CursorOf
  <2>8. Honest(r.stream, c, got[r.stream] \cup {log[i].serial : i \in items})
    <3>1. ASSUME NEW i \in 1 .. next, log[i].wallet = r.stream.wallet, i \in Wanted(r.stream, {i})
          PROVE  log[i].serial \in got[r.stream] \cup {log[j].serial : j \in items}
      <4>1. CASE i > r.cursor.position
        BY <2>3, <3>1, <4>1
      <4>2. CASE ~(i > r.cursor.position)
        <5>1. i \in 1 .. r.cursor.position
          BY <2>2, <2>3, <4>2
        <5> QED
          BY <2>2, <3>1, <5>1
      <4> QED
        BY <4>1, <4>2
    <3>2. epoch <= epoch /\ next <= Len(log)
      BY <2>3 DEF TypeOK
    <3> HIDE DEF c
    <3> QED
      BY <2>7, <3>1, <3>2 DEF Honest
  <2> HIDE DEF answer, c, r
  <2> QED
    BY <1>2, <2>1, <2>6, <2>7, <2>8, OneRequest DEF c
<1> QED
  BY <1>3, <1>4

\* The exchange commits the items together with the cursor that passes them;
\* what it has seen it never unsees.
LEMMA ReceiveInv == ASSUME FeedInv, NEW h \in Handlers, Receive(h) PROVE FeedInv'
<1> USE DEF FeedInv
<1> DEFINE r == request[h]
           s == r.stream
<1>1. r \in Requests /\ s \in Streams /\ r.cursor \in Cursors /\ r.items \subseteq Serials
  BY DEF TypeOK, Requests
<1>2. request' = [request EXCEPT ![h] = Idle] /\ UNCHANGED <<log, epoch, key, faults>>
  BY DEF Receive
<1>3. /\ \A t \in Streams : got[t] \subseteq got'[t]
      /\ got' \in [Streams -> SUBSET Serials]
  <2>1. CASE got' = got
    BY <2>1 DEF TypeOK
  <2>2. CASE got' = [got EXCEPT ![s] = @ \cup r.items]
    BY <1>1, <2>2 DEF TypeOK
  <2> QED
    BY <2>1, <2>2 DEF Receive
<1>4. /\ cursor' \in [Streams -> Cursors]
      /\ \A t \in Streams : \/ cursor'[t] = cursor[t]
                            \/ cursor'[t] = NoCursor
                            \/ /\ t = s /\ r.pc = "page" /\ cursor'[t] = r.cursor
                               /\ got[s] \cup r.items \subseteq got'[s]
  <2>1. CASE /\ r.pc = "page"
             /\ got' = [got EXCEPT ![s] = @ \cup r.items]
             /\ cursor' = [cursor EXCEPT ![s] = r.cursor]
    BY <1>1, <2>1 DEF TypeOK
  <2>2. CASE cursor' = [cursor EXCEPT ![s] = NoCursor]
    <3>1. NoCursor \in Cursors
      BY DEF Cursors
    <3> QED
      BY <1>1, <2>2, <3>1 DEF TypeOK
  <2>3. CASE cursor' = cursor
    BY <2>3 DEF TypeOK
  <2> QED
    BY <2>1, <2>2, <2>3 DEF Receive
<1>5. TypeOK'
  BY <1>2, <1>3, <1>4, IdleTyped DEF TypeOK
<1>6. CursorInv'
  <2> SUFFICES ASSUME NEW t \in Streams PROVE CursorInv!(t)'
    BY DEF CursorInv
  <2>1. CASE cursor'[t] = NoCursor
    BY <2>1 DEF Honest
  <2>2. CASE cursor'[t] = cursor[t]
    <3>1. Honest(t, cursor[t], got[t]) /\ (cursor[t] # NoCursor => CursorOf(t, cursor[t]))
      BY DEF CursorInv
    <3> QED
      BY <1>2, <1>3, <2>2, <3>1 DEF Honest, Wanted, CursorOf
  <2>3. CASE /\ t = s /\ r.pc = "page" /\ cursor'[t] = r.cursor
             /\ got[s] \cup r.items \subseteq got'[s]
    <3>1. Honest(s, r.cursor, got[s] \cup r.items) /\ CursorOf(s, r.cursor)
      BY <2>3 DEF RequestInv
    <3> QED
      BY <1>2, <2>3, <3>1 DEF Honest, Wanted, CursorOf
  <2> QED
    BY <1>4, <2>1, <2>2, <2>3
<1>7. RequestInv'
  <2>1. \A g \in Handlers : request'[g] = IF g = h THEN Idle ELSE request[g]
    BY <1>2 DEF TypeOK
  <2> SUFFICES ASSUME NEW g \in Handlers PROVE RequestInv!(g)'
    BY DEF RequestInv
  <2>2. CASE g = h
    BY <2>1, <2>2, IdleTyped
  <2>3. CASE g # h
    <3>1. RequestInv!(g) /\ request[g].stream \in Streams
      BY DEF RequestInv, TypeOK, Requests
    <3> QED
      BY <1>2, <1>3, <2>1, <2>3, <3>1 DEF Honest, Wanted, CursorOf
  <2> QED
    BY <2>2, <2>3
<1>8. KeyInv'
  BY <1>2, KeyKept
<1> QED
  BY <1>5, <1>6, <1>7, <1>8

\* A stream without a cursor promises nothing.
LEMMA DiscardInv == ASSUME FeedInv, NEW s \in Streams, Discard(s) PROVE FeedInv'
<1> USE DEF FeedInv
<1>1. UNCHANGED <<log, epoch, key, request, got, faults>> /\ NoCursor \in Cursors
  BY DEF Discard, Cursors
<1>2. \A t \in Streams : cursor'[t] = IF t = s THEN NoCursor ELSE cursor[t]
  BY DEF Discard, TypeOK
<1>3. TypeOK'
  BY <1>1 DEF Discard, TypeOK
<1>4. CursorInv'
  BY <1>1, <1>2 DEF CursorInv, Honest, Wanted, CursorOf
<1>5. RequestInv' /\ KeyInv'
  BY <1>1 DEF RequestInv, Honest, Wanted, CursorOf, KeyInv
<1> QED
  BY <1>3, <1>4, <1>5

\* A new event is behind no cursor.
LEMMA DepositInv ==
    ASSUME FeedInv, NEW w \in Wallets, NEW kind \in Kinds, Deposit(w, kind)
    PROVE  FeedInv'
<1> USE DEF FeedInv
<1> DEFINE e == [wallet |-> w, kind |-> kind, serial |-> Len(log) + 1]
<1>1. /\ log' = Append(log, e) /\ Len(log) < MaxEvents
      /\ UNCHANGED <<epoch, key, request, cursor, got, faults>>
  BY DEF Deposit
<1>2. log \in Seq(Events) /\ Len(log) \in Nat /\ MaxEvents \in Nat
  BY FeedAssumption DEF TypeOK
<1>3. e \in Events
  BY <1>1, <1>2 DEF Events, Serials
<1> HIDE DEF e
<1>4. /\ log' \in Seq(Events) /\ Len(log') = Len(log) + 1
      /\ \A i \in 1 .. Len(log) : log'[i] = log[i]
  BY <1>1, <1>2, <1>3
<1>5. TypeOK'
  BY <1>1, <1>2, <1>4 DEF TypeOK
<1>6. ASSUME NEW s \in Streams, NEW c \in Cursors, NEW serials, Honest(s, c, serials)
      PROVE  c # NoCursor =>
               /\ c.epoch <= epoch
               /\ c.epoch = epoch /\ CursorOf(s, c) =>
                     /\ c.position <= Len(log')
                     /\ \A i \in 1 .. c.position :
                           /\ i \in 1 .. Len(log)
                           /\ log[i].wallet = s.wallet /\ i \in Wanted(s, {i}) => log[i].serial \in serials
  <2>1. c # NoCursor => c.position \in Nat
    BY FeedAssumption DEF Cursors
  <2>2. c # NoCursor /\ c.epoch = epoch /\ CursorOf(s, c) =>
           c.position <= Len(log') /\ 1 .. c.position \subseteq 1 .. Len(log)
    BY <1>2, <1>4, <1>6, <2>1 DEF Honest
  <2> QED
    BY <1>6, <2>2 DEF Honest
<1>7. \A s \in Streams, i \in 1 .. Len(log) :
         Wanted(s, {i})' = Wanted(s, {i}) /\ log'[i] = log[i]
  BY <1>4 DEF Wanted
<1>8. CursorInv'
  <2> SUFFICES ASSUME NEW s \in Streams PROVE CursorInv!(s)'
    BY DEF CursorInv
  <2>1. cursor[s] \in Cursors /\ Honest(s, cursor[s], got[s])
        /\ (cursor[s] # NoCursor => CursorOf(s, cursor[s]))
    BY DEF TypeOK, CursorInv
  <2> QED
    BY <1>1, <1>6, <1>7, <2>1 DEF Honest, CursorOf
<1>9. RequestInv'
  <2> SUFFICES ASSUME NEW h \in Handlers PROVE RequestInv!(h)'
    BY DEF RequestInv
  <2>1. RequestInv!(h) /\ request[h].stream \in Streams /\ request[h].cursor \in Cursors
    BY DEF RequestInv, TypeOK, Requests
  <2> DEFINE r == request[h]
  <2>2. r' = r
    BY <1>1
  <2>3. ASSUME NEW serials, Honest(r.stream, r.cursor, serials)
        PROVE  r.cursor # NoCursor =>
                  /\ r.cursor.epoch <= epoch
                  /\ r.cursor.epoch = epoch /\ CursorOf(r.stream, r.cursor) =>
                        /\ r.cursor.position <= Len(log')
                        /\ \A i \in 1 .. r.cursor.position :
                              log'[i].wallet = r.stream.wallet /\ i \in Wanted(r.stream, {i})'
                                 => log'[i].serial \in serials
    BY <1>6, <1>7, <2>1, <2>2, <2>3
  <2> HIDE DEF r
  <2>4. (r.pc \in {"ready", "fetch"} => Honest(r.stream, r.cursor, got[r.stream]))'
    BY <1>1, <2>1, <2>2, <2>3 DEF Honest, CursorOf, r
  <2>5. (r.pc = "page" => Honest(r.stream, r.cursor, got[r.stream] \cup r.items))'
    BY <1>1, <2>1, <2>2, <2>3 DEF Honest, CursorOf, r
  <2> QED
    BY <1>1, <2>1, <2>2, <2>4, <2>5 DEF CursorOf, r
<1>10. KeyInv'
  BY <1>1, KeyKept
<1> QED
  BY <1>5, <1>8, <1>9, <1>10

\* In a new epoch no cursor of an older one promises anything.
LEMMA NewEpochInv == ASSUME FeedInv, NewEpoch PROVE FeedInv'
<1> USE DEF FeedInv
<1>1. /\ epoch' = epoch + 1 /\ epoch < MaxEpochs
      /\ UNCHANGED <<key, request, cursor, got, faults>>
  BY DEF NewEpoch
<1>2. PICK p \in [DOMAIN log -> DOMAIN log] : log' = [i \in DOMAIN log |-> log[p[i]]]
  BY DEF NewEpoch
<1>3. epoch \in Nat /\ MaxEpochs \in Nat /\ epoch + 1 \in 1 .. MaxEpochs
  BY <1>1, FeedAssumption DEF TypeOK
<1>4. log' \in Seq(Events) /\ Len(log') = Len(log)
  <2>1. /\ log \in Seq(Events) /\ Len(log) \in Nat /\ DOMAIN log = 1 .. Len(log)
        /\ \A i \in 1 .. Len(log) : log[i] \in Events
    BY DEF TypeOK
  <2>2. log' \in [1 .. Len(log) -> Events]
    BY <1>2, <2>1
  <2> QED
    BY <2>1, <2>2
<1>5. TypeOK'
  BY <1>1, <1>3, <1>4 DEF TypeOK
<1>6. \A c \in Cursors : c # NoCursor => c.epoch \in Nat
  BY DEF Cursors
<1>7. CursorInv'
  <2> SUFFICES ASSUME NEW s \in Streams PROVE CursorInv!(s)'
    BY DEF CursorInv
  <2>1. cursor[s] \in Cursors /\ Honest(s, cursor[s], got[s])
        /\ (cursor[s] # NoCursor => CursorOf(s, cursor[s]))
    BY DEF TypeOK, CursorInv
  <2> QED
    BY <1>1, <1>3, <1>6, <2>1 DEF Honest, CursorOf
<1>8. RequestInv'
  <2> SUFFICES ASSUME NEW h \in Handlers PROVE RequestInv!(h)'
    BY DEF RequestInv
  <2>1. RequestInv!(h) /\ request[h].cursor \in Cursors
    BY DEF RequestInv, TypeOK, Requests
  <2> QED
    BY <1>1, <1>3, <1>6, <2>1 DEF Honest, CursorOf
<1>9. KeyInv'
  BY <1>1, KeyKept
<1> QED
  BY <1>5, <1>7, <1>8, <1>9

\* A new HMAC key changes no cursor that was handed out.
LEMMA RebuildInv == ASSUME FeedInv, RebuildDatabase PROVE FeedInv'
<1> USE DEF FeedInv
<1>1. /\ UNCHANGED <<log, epoch, cursor, got>> /\ Fault /\ key' = key + 1
      /\ request' = [h \in Handlers |-> Idle]
  BY DEF RebuildDatabase
<1>2. KeyInv'
  BY <1>1, FeedAssumption DEF TypeOK, KeyInv, Fault
<1>3. TypeOK'
  <2>1. faults' \in 0 .. MaxFaults
    BY <1>1, FaultsTyped
  <2>2. key' \in 1 .. MaxFaults + 1
    <3>1. key' \in Nat \ {0} /\ key' <= faults' + 1
      BY <1>1, <1>2 DEF TypeOK, KeyInv
    <3>2. \A k \in Nat \ {0}, f \in 0 .. MaxFaults : k <= f + 1 => k \in 1 .. MaxFaults + 1
      BY FeedAssumption
    <3> QED
      BY <2>1, <3>1, <3>2, Zenon
  <2> QED
    BY <1>1, <2>1, <2>2, IdleTyped DEF TypeOK
<1>4. CursorInv'
  BY <1>1 DEF CursorInv, Honest, Wanted, CursorOf
<1>5. RequestInv'
  BY <1>1, IdleTyped DEF RequestInv
<1> QED
  BY <1>3, <1>4, <1>5, <1>2

\* Every step preserves the invariant.
LEMMA NextInv == FeedInv /\ [Next]_vars => FeedInv'
<1> SUFFICES ASSUME FeedInv, [Next]_vars PROVE FeedInv'
  OBVIOUS
<1>1. ASSUME NEW h \in Handlers, CheckReady(h) \/ Fails(h) \/ Receive(h) PROVE FeedInv'
  BY <1>1, CheckInv, ReceiveInv
<1>2. ASSUME NEW h \in Handlers, NEW size \in 1 .. PageSize, Fetch(h, size) PROVE FeedInv'
  BY <1>2, FetchInv
<1>3. CASE Polls \/ MixesUp
  BY <1>3, AskInv
<1>4. ASSUME NEW s \in Streams, Discard(s) PROVE FeedInv'
  BY <1>4, DiscardInv
<1>5. ASSUME NEW w \in Wallets, NEW kind \in Kinds, Deposit(w, kind) PROVE FeedInv'
  BY <1>5, DepositInv
<1>6. CASE NewEpoch \/ RebuildDatabase
  BY <1>6, NewEpochInv, RebuildInv
<1>7. CASE UNCHANGED vars
  <2> USE <1>7 DEF FeedInv, vars
  <2>1. TypeOK' /\ KeyInv'
    BY DEF TypeOK, KeyInv
  <2>2. CursorInv' /\ RequestInv'
    BY DEF CursorInv, RequestInv, Honest, Wanted, CursorOf
  <2> QED
    BY <2>1, <2>2
<1> QED
  BY <1>1, <1>2, <1>3, <1>4, <1>5, <1>6, <1>7 DEF Next

\* The gateway, the exchange and the scanner keep the invariant.
THEOREM FeedInvariant == Spec => []FeedInv
<1>1. Init => FeedInv
  BY InitInv
<1>2. FeedInv /\ [Next]_vars => FeedInv'
  BY NextInv
<1> QED
  BY <1>1, <1>2, PTL DEF Spec

\* However pages and limits cut the log, requests overlap and epochs change, a
\* committed cursor of the current epoch has passed nothing undelivered.
THEOREM FeedSkipsNothing == Spec => []NothingSkipped
<1>1. FeedInv => NothingSkipped
  BY DEF FeedInv, CursorInv, Honest, NothingSkipped, Delivered
<1> QED
  BY <1>1, FeedInvariant, PTL

-----------------------------------------------------------------------------
\* The cursor moves on.

\* A request that was accepted in this epoch starts within the log.
LEMMA StartsInLog ==
    ASSUME FeedInv, NEW h \in Handlers, request[h].pc = "fetch", request[h].epoch = epoch
    PROVE  request[h].cursor.position \in Nat /\ request[h].cursor.position <= Len(log)
<1> DEFINE r == request[h]
<1>1. /\ r \in Requests /\ r.cursor \in Cursors
      /\ Honest(r.stream, r.cursor, got[r.stream])
      /\ r.cursor # NoCursor => CursorOf(r.stream, r.cursor) /\ r.cursor.epoch = r.epoch
  BY DEF FeedInv, TypeOK, Requests, RequestInv
<1>2. CASE r.cursor = NoCursor
  <2>1. r.cursor.position = 0 /\ Len(log) \in Nat
    BY <1>2 DEF NoCursor, FeedInv, TypeOK
  <2> QED
    BY <2>1
<1>3. CASE r.cursor # NoCursor
  <2>1. r.cursor.position \in Nat
    BY <1>1, <1>3, FeedAssumption DEF Cursors
  <2> QED
    BY <1>1, <1>3, <2>1 DEF Honest
<1> QED
  BY <1>2, <1>3

\* A page of at least one event is empty only where the stream's events end.
LEMMA NextIsAhead ==
    ASSUME TypeOK, NEW s \in Streams, NEW position \in Nat, position <= Len(log),
           NEW size \in Nat \ {0}, NEW limit \in Limits
    PROVE  LET next == NextPosition(s, Page(s, position, size), limit, position)
           IN  IF Behind(s, position) # {}
               THEN next > position
               ELSE next = position
<1> DEFINE ids == Behind(s, position)
           page == Page(s, position, size)
           next == NextPosition(s, page, limit, position)
<1>1. Len(log) \in Nat /\ DOMAIN log = 1 .. Len(log)
  BY DEF TypeOK
<1>2. ids \subseteq 1 .. Len(log)
  BY <1>1 DEF Behind
<1>3. page = FirstOf(ids, size)
  BY DEF Page, FirstOf
<1>4. page \subseteq ids /\ (ids # {} => page # {})
  <2>1. page \subseteq ids
    BY <1>3 DEF FirstOf
  <2> HIDE DEF ids, page
  <2>2. ids # {} => page # {}
    BY <1>1, <1>2, <1>3, FirstElements
  <2> QED
    BY <2>1, <2>2
<1>5. page = {} => next = position
  BY DEF NextPosition
<1>6. page # {} => next \in page
  <2> SUFFICES ASSUME page # {} PROVE next \in page
    OBVIOUS
  <2> DEFINE wanted == Wanted(s, page)
             items == Items(s, page, limit)
  <2>1. page \subseteq 1 .. Len(log) /\ wanted \subseteq page
    BY <1>2, <1>4 DEF Wanted
  <2>2. items = FirstOf(wanted, limit) /\ items \subseteq wanted
    BY DEF Items, FirstOf
  <2>3. limit \in Nat /\ limit # 0
    BY FeedAssumption
  <2>4. wanted = {} => Cardinality(wanted) = 0
    BY FS_EmptySet
  <2>5. next = IF Cardinality(wanted) >= limit THEN Max(items) ELSE Max(page)
    BY DEF NextPosition
  <2> HIDE DEF page, next, wanted, items
  <2>6. wanted # {} => items # {}
    <3>1. wanted \subseteq 1 .. Len(log)
      BY <2>1
    <3> QED
      BY <1>1, <2>2, <2>3, <3>1, FirstElements
  <2>7. CASE Cardinality(wanted) >= limit
    <3>1. items # {} /\ items \subseteq 1 .. Len(log)
      <4>1. wanted # {}
        <5>1. ~(0 >= limit)
          BY <2>3
        <5> QED
          BY <2>4, <2>7, <5>1
      <4> QED
        BY <2>1, <2>2, <2>6, <4>1
    <3>2. Max(items) \in items
      BY <1>1, <3>1, MaxIsGreatest
    <3> QED
      BY <2>1, <2>2, <2>5, <2>7, <3>2
  <2>8. CASE ~(Cardinality(wanted) >= limit)
    <3>1. Max(page) \in page
      BY <1>1, <2>1, MaxIsGreatest
    <3> QED
      BY <2>5, <2>8, <3>1
  <2> QED
    BY <2>7, <2>8
<1> HIDE DEF page, next
<1>7. CASE ids = {}
  BY <1>4, <1>5, <1>7 DEF next, page
<1>8. CASE ids # {}
  <2>1. next \in ids
    BY <1>4, <1>6, <1>8
  <2>2. next > position
    BY <2>1 DEF Behind
  <2> QED
    BY <1>8, <2>2 DEF next, page
<1> QED
  BY <1>7, <1>8

\* No answer keeps the exchange at a cursor that has events for the stream behind it:
\* what handleDeposits leaves out it passes.
THEOREM FeedAdvances == Spec => AnswersAdvance
<1> DEFINE Moves(h) ==
       LET r == request[h]
           position == r.cursor.position
           answered == request'[h].cursor.position
       IN  r.pc = "fetch" /\ request'[h].pc = "page" =>
               IF Behind(r.stream, position) # {}
               THEN answered > position
               ELSE answered = position
<1>1. ASSUME FeedInv, [Next]_vars, NEW h \in Handlers PROVE Moves(h)
  <2> SUFFICES ASSUME request[h].pc = "fetch", request'[h].pc = "page" PROVE Moves(h)
    OBVIOUS
  <2>0. request \in [Handlers -> Requests] /\ Idle.pc = "idle"
    BY <1>1, IdleTyped DEF FeedInv, TypeOK
  <2>1. \E size \in 1 .. PageSize : Fetch(h, size)
    <3>1. request'[h] # request[h] /\ request'[h].pc # "ready" /\ request'[h].pc # "idle"
      OBVIOUS
    <3>2. ASSUME NEW g \in Handlers, CheckReady(g) \/ Fails(g) \/ Receive(g) PROVE FALSE
      BY <2>0, <3>1, <3>2 DEF CheckReady, Fails, Receive
    <3>3. ASSUME NEW g \in Handlers, NEW size \in 1 .. PageSize, Fetch(g, size), g # h PROVE FALSE
      BY <2>0, <3>1, <3>3 DEF Fetch
    <3>4. CASE Polls \/ MixesUp
      <4>1. PICK g \in Handlers : /\ request[g].pc = "idle"
                                  /\ \E n : request' = [request EXCEPT ![g] = n]
        BY <3>4 DEF Polls, MixesUp, Ask
      <4> QED
        BY <2>0, <3>1, <4>1
    <3>5. CASE \/ \E w \in Wallets, kind \in Kinds : Deposit(w, kind)
               \/ \E t \in Streams : Discard(t)
               \/ NewEpoch \/ UNCHANGED vars
      BY <3>1, <3>5 DEF Deposit, Discard, NewEpoch, vars
    <3>6. CASE RebuildDatabase
      BY <2>0, <3>1, <3>6 DEF RebuildDatabase
    <3> QED
      BY <1>1, <3>2, <3>3, <3>4, <3>5, <3>6 DEF Next
  <2>2. PICK size \in 1 .. PageSize : Fetch(h, size)
    BY <2>1
  <2> DEFINE s == request[h].stream
             position == request[h].cursor.position
             limit == request[h].limit
             next == NextPosition(s, Page(s, position, size), limit, position)
  <2>3. request[h].epoch = epoch
    BY <2>0, <2>2 DEF Fetch
  <2>4. request'[h].cursor.position = next
    BY <2>0, <2>2, <2>3 DEF Fetch, Encode, Requests
  <2>5. TypeOK /\ s \in Streams /\ limit \in Limits /\ size \in Nat \ {0}
    BY <1>1, <2>0, FeedAssumption DEF FeedInv, Requests
  <2>6. position \in Nat /\ position <= Len(log)
    BY <1>1, <2>3, StartsInLog
  <2> HIDE DEF s, position, limit
  <2>7. IF Behind(s, position) # {}
        THEN next > position
        ELSE next = position
    BY <2>5, <2>6, NextIsAhead
  <2> QED
    BY <2>4, <2>7 DEF s, position, limit
<1>2. FeedInv /\ [Next]_vars => [\A h \in Handlers : Moves(h)]_vars
  BY <1>1
<1> QED
  BY <1>2, FeedInvariant, PTL DEF Spec, AnswersAdvance
=============================================================================
