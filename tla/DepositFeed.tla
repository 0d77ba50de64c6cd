------------------------------ MODULE DepositFeed ------------------------------
(***************************************************************************)
(* The deposit feed: handleDeposits (internal/api/api.go), the signed      *)
(* cursors it hands out (internal/api/cursor.go), the scanner's event log, *)
(* whose epoch changes when the scanner starts over, and the exchange that *)
(* polls.                                                                  *)
(*                                                                         *)
(* One log holds the deposit events of all wallets; the id of an event is  *)
(* its place in the log.  An event is known by its serial, the stable      *)
(* deposit id and status, which survive a new epoch; ids do not.           *)
(*                                                                         *)
(* External: the scanner and the exchange.  The exchange commits the items *)
(* of a page and its cursor in one transaction, drops the cursor when the  *)
(* answer is cursor_reset_required, keeps it when the cursor is called     *)
(* invalid until an operator discards it, and may present the cursor of    *)
(* one stream for another.                                                 *)
(***************************************************************************)
EXTENDS Naturals, Sequences, FiniteSetsExt

CONSTANTS
    Streams,    \* what is polled: [wallet, filter]
    Kinds,      \* kinds of events, as the address and the filters tell them apart
    Registered, \* the kinds that are to addresses of the gateway
    Listed,     \* the kinds the scanner returns for each filter, which may name
                \* a transaction
    Matches,    \* the kinds that each filter, with its status and address, is for
    Handlers,   \* concurrent requests
    PageSize,   \* the most events a scanner page has (1000 in the code)
    Limits,     \* values of the limit parameter
    MaxEvents,  \* bound on the log
    MaxEpochs,  \* bound on the scanner's epochs
    MaxFaults   \* bound on lost answers, failed calls and database rebuilds

Wallets == {s.wallet : s \in Streams}
Filters == {s.filter : s \in Streams}
Serials == 1 .. MaxEvents

ASSUME FeedAssumption ==
    /\ Streams # {} /\ Streams \subseteq [wallet : Wallets, filter : Filters]
    /\ Registered \subseteq Kinds
    /\ Listed \in [Filters -> SUBSET Kinds]
    /\ Matches \in [Filters -> SUBSET Kinds]
    /\ \A f \in Filters : Matches[f] \subseteq Listed[f]
    /\ PageSize \in Nat \ {0}
    /\ Limits # {} /\ Limits \subseteq Nat \ {0}
    /\ MaxEvents \in Nat
    /\ MaxEpochs \in Nat \ {0}
    /\ MaxFaults \in Nat

VARIABLES
    log,     \* the scanner's events
    epoch,   \* its event_epoch
    key,     \* cursor_hmac_key of the gateway database
    request, \* the requests under way
    cursor,  \* the exchange's committed cursor of each stream
    got,     \* the events the exchange has seen on each stream
    faults

vars == <<log, epoch, key, request, cursor, got, faults>>

Events == [wallet : Wallets, kind : Kinds, serial : Serials]
NoCursor == [key |-> 0, wallet |-> "none", filter |-> "none", epoch |-> 0, position |-> 0]
Cursors ==
    {NoCursor} \cup
    [key : 1 .. MaxFaults + 1, wallet : Wallets, filter : Filters, epoch : 1 .. MaxEpochs,
     position : 0 .. MaxEvents]

\* 400 invalid_request, 409 cursor_reset_required, 409 cursor_filter_mismatch.
Refusals == {"invalid", "reset", "mismatch"}

Requests ==
    [pc : {"idle", "ready", "fetch", "page"} \cup Refusals, stream : Streams,
     cursor : Cursors, limit : Limits, epoch : 0 .. MaxEpochs, items : SUBSET Serials]

\* The type invariant.
TypeOK ==
    /\ log \in Seq(Events)
    /\ Len(log) <= MaxEvents
    /\ epoch \in 1 .. MaxEpochs
    /\ key \in 1 .. MaxFaults + 1
    /\ request \in [Handlers -> Requests]
    /\ cursor \in [Streams -> Cursors]
    /\ got \in [Streams -> SUBSET Serials]
    /\ faults \in 0 .. MaxFaults

Idle ==
    [pc |-> "idle", stream |-> CHOOSE s \in Streams : TRUE, cursor |-> NoCursor,
     limit |-> CHOOSE l \in Limits : TRUE, epoch |-> 0, items |-> {}]

Init ==
    /\ log = <<>>
    /\ epoch = 1
    /\ key = 1
    /\ request = [h \in Handlers |-> Idle]
    /\ cursor = [s \in Streams |-> NoCursor]
    /\ got = [s \in Streams |-> {}]
    /\ faults = 0

Fault == faults < MaxFaults /\ faults' = faults + 1

-----------------------------------------------------------------------------
\* handleDeposits.

\* Mutant: the cursor is not bound to the filters.
decodeAnyFilter(s, c, e) ==
    IF c = NoCursor THEN "fetch"
    ELSE IF c.key # key \/ c.wallet # s.wallet THEN "invalid"
    ELSE IF c.epoch # e THEN "reset"
    ELSE "fetch"

\* Mutant: the cursor is not bound to the wallet.
decodeAnyWallet(s, c, e) ==
    IF c = NoCursor THEN "fetch"
    ELSE IF c.key # key THEN "invalid"
    ELSE IF c.epoch # e THEN "reset"
    ELSE IF c.filter # s.filter THEN "mismatch"
    ELSE "fetch"

\* The request goes on with no cursor, or with one the gateway signed for this
\* wallet, epoch and filter.
decode(s, c, e) ==
    IF c = NoCursor THEN "fetch"
    ELSE IF c.key # key \/ c.wallet # s.wallet THEN "invalid"
    ELSE IF c.epoch # e THEN "reset"
    ELSE IF c.filter # s.filter THEN "mismatch"
    ELSE "fetch"

\* checkReady and decode.
CheckReady(h) ==
    LET r == request[h]
    IN  /\ r.pc = "ready"
        /\ request' = [request EXCEPT ![h] =
              [r EXCEPT !.pc = decode(r.stream, r.cursor, epoch), !.epoch = epoch]]
        /\ UNCHANGED <<log, epoch, key, cursor, got, faults>>

\* The events behind a position that the scanner has for the wallet and the
\* filter it is given.
Behind(s, position) ==
    {i \in DOMAIN log : /\ i > position
                        /\ log[i].wallet = s.wallet
                        /\ log[i].kind \in Listed[s.filter]}

\* The next of them, size if there are so many: the scanner may return a page
\* that is not full although more events follow.
Page(s, position, size) ==
    LET ids == Behind(s, position)
    IN  {i \in ids : Cardinality({j \in ids : j <= i}) <= size}

\* The events of a page that the caller asked for.
Wanted(s, page) ==
    {i \in page : log[i].kind \in Registered /\ log[i].kind \in Matches[s.filter]}

\* The first limit of them.
Items(s, page, limit) ==
    LET wanted == Wanted(s, page)
    IN  {i \in wanted : Cardinality({j \in wanted : j <= i}) <= limit}

\* Mutant: the cursor moves to the end of the page though items are left in it.
NextOfPage(s, page, limit, position) == IF page = {} THEN position ELSE Max(page)

\* Mutant: the cursor moves to the last item only.
NextOfItems(s, page, limit, position) ==
    IF Items(s, page, limit) = {} THEN position ELSE Max(Items(s, page, limit))

\* The last event looked at.
NextPosition(s, page, limit, position) ==
    IF page = {} THEN position
    ELSE IF Cardinality(Wanted(s, page)) >= limit THEN Max(Items(s, page, limit))
    ELSE Max(page)

Encode(s, e, position) ==
    [key |-> key, wallet |-> s.wallet, filter |-> s.filter, epoch |-> e, position |-> position]

\* The page and the answer made of it, unless the epoch changed since.
Fetch(h, size) ==
    LET r == request[h]
        page == Page(r.stream, r.cursor.position, size)
    IN  /\ r.pc = "fetch"
        /\ request' = [request EXCEPT ![h] =
              IF r.epoch # epoch THEN [r EXCEPT !.pc = "reset"]
              ELSE [r EXCEPT !.pc = "page",
                       !.items = {log[i].serial : i \in Items(r.stream, page, r.limit)},
                       !.cursor = Encode(r.stream, epoch,
                                         NextPosition(r.stream, page, r.limit,
                                                      r.cursor.position))]]
        /\ UNCHANGED <<log, epoch, key, cursor, got, faults>>

\* A call fails, the scanner's page is inconsistent, or the answer is lost.
Fails(h) ==
    /\ request[h].pc # "idle"
    /\ Fault
    /\ request' = [request EXCEPT ![h] = Idle]
    /\ UNCHANGED <<log, epoch, key, cursor, got>>

-----------------------------------------------------------------------------
\* The exchange.

Ask(h, s, c, limit) ==
    /\ request[h].pc = "idle"
    /\ request' = [request EXCEPT ![h] =
          [Idle EXCEPT !.pc = "ready", !.stream = s, !.cursor = c, !.limit = limit]]
    /\ UNCHANGED <<log, epoch, key, cursor, got, faults>>

Polls == \E h \in Handlers, s \in Streams, l \in Limits : Ask(h, s, cursor[s], l)

MixesUp ==
    /\ Fault
    /\ \E h \in Handlers, s, t \in Streams, l \in Limits :
          /\ s # t
          /\ request[h].pc = "idle"
          /\ request' = [request EXCEPT ![h] =
                [Idle EXCEPT !.pc = "ready", !.stream = s, !.cursor = cursor[t], !.limit = l]]
    /\ UNCHANGED <<log, epoch, key, cursor, got>>

\* A page is committed with its cursor; a reset means polling anew without one;
\* after a mismatch the exchange does that or restores its filters; a cursor that
\* is called invalid is never dropped automatically.
Receive(h) ==
    LET r == request[h]
    IN  /\ \/ /\ r.pc = "page"
              /\ got' = [got EXCEPT ![r.stream] = @ \cup r.items]
              /\ cursor' = [cursor EXCEPT ![r.stream] = r.cursor]
           \/ /\ r.pc \in {"reset", "mismatch"}
              /\ cursor' = [cursor EXCEPT ![r.stream] = NoCursor]
              /\ UNCHANGED got
           \/ /\ r.pc \in {"invalid", "mismatch"}
              /\ UNCHANGED <<cursor, got>>
        /\ request' = [request EXCEPT ![h] = Idle]
        /\ UNCHANGED <<log, epoch, key, faults>>

\* An audited recovery after the HMAC key was lost: the exchange's operator
\* discards the cursor that can no longer be honoured.
Discard(s) ==
    /\ cursor[s] # NoCursor
    /\ cursor[s].key # key
    /\ cursor' = [cursor EXCEPT ![s] = NoCursor]
    /\ UNCHANGED <<log, epoch, key, request, got, faults>>

-----------------------------------------------------------------------------
\* The scanner, and the gateway's operator.

Deposit(w, kind) ==
    /\ Len(log) < MaxEvents
    /\ log' = Append(log, [wallet |-> w, kind |-> kind, serial |-> Len(log) + 1])
    /\ UNCHANGED <<epoch, key, request, cursor, got, faults>>

\* The log is written anew, in whatever order the scanner finds the events.
NewEpoch ==
    /\ epoch < MaxEpochs
    /\ epoch' = epoch + 1
    /\ \E p \in [DOMAIN log -> DOMAIN log] :
          /\ {p[i] : i \in DOMAIN log} = DOMAIN log
          /\ log' = [i \in DOMAIN log |-> log[p[i]]]
    /\ UNCHANGED <<key, request, cursor, got, faults>>

\* The gateway database is rebuilt while no request is served: a new HMAC key.
RebuildDatabase ==
    /\ Fault
    /\ key' = key + 1
    /\ request' = [h \in Handlers |-> Idle]
    /\ UNCHANGED <<log, epoch, cursor, got>>

-----------------------------------------------------------------------------
Next ==
    \/ \E h \in Handlers : CheckReady(h) \/ Fails(h) \/ Receive(h)
    \/ \E h \in Handlers, size \in 1 .. PageSize : Fetch(h, size)
    \/ Polls \/ MixesUp \/ \E s \in Streams : Discard(s)
    \/ \E w \in Wallets, kind \in Kinds : Deposit(w, kind)
    \/ NewEpoch \/ RebuildDatabase

Spec == Init /\ [][Next]_vars

\* Requests are served and answered, every stream is polled, and a lost key is
\* followed by the audited recovery.
Fairness ==
    /\ \A h \in Handlers :
          /\ WF_vars(CheckReady(h))
          /\ WF_vars(\E size \in 1 .. PageSize : Fetch(h, size))
          /\ WF_vars(Receive(h))
    /\ \A s \in Streams :
          /\ SF_vars(\E h \in Handlers, l \in Limits : Ask(h, s, cursor[s], l))
          /\ WF_vars(Discard(s))

FairSpec == Spec /\ Fairness

-----------------------------------------------------------------------------
\* Properties.

Delivered(s, i) ==
    log[i].wallet = s.wallet /\ i \in Wanted(s, {i}) => log[i].serial \in got[s]

\* A cursor the gateway still honours stands behind nothing the exchange has
\* not been told: no page limit, filter, unregistered deposit or epoch change
\* makes it skip a deposit.
NothingSkipped ==
    \A s \in Streams :
        cursor[s] # NoCursor /\ cursor[s].epoch = epoch =>
            \A i \in 1 .. cursor[s].position : Delivered(s, i)

\* Whatever a page holds for the caller, the cursor of an answer is past the one
\* presented as long as the scanner has events for the stream behind it: pages of
\* unregistered or filtered deposits, short pages and the limit never keep an
\* exchange where it is.
AnswersAdvance ==
    [][\A h \in Handlers :
          LET r == request[h]
              position == r.cursor.position
              answered == request'[h].cursor.position
          IN  r.pc = "fetch" /\ request'[h].pc = "page" =>
                  IF Behind(r.stream, position) # {}
                  THEN answered > position
                  ELSE answered = position]_vars

\* The exchange catches up with every deposit on every stream it polls.
CatchesUp == \A s \in Streams : []<>(\A i \in DOMAIN log : Delivered(s, i))

-----------------------------------------------------------------------------
\* The inductive invariant behind NothingSkipped.

CursorOf(s, c) == c.wallet = s.wallet /\ c.filter = s.filter

\* A cursor of this epoch and stream stands behind nothing but these serials.
Honest(s, c, serials) ==
    c # NoCursor =>
        /\ c.epoch <= epoch
        /\ c.epoch = epoch /\ CursorOf(s, c) =>
              /\ c.position <= Len(log)
              /\ \A i \in 1 .. c.position :
                    log[i].wallet = s.wallet /\ i \in Wanted(s, {i}) => log[i].serial \in serials

CursorInv ==
    \A s \in Streams :
        /\ Honest(s, cursor[s], got[s])
        /\ cursor[s] # NoCursor => CursorOf(s, cursor[s])

\* A request carries an honest cursor, of the epoch it was accepted in; the
\* cursor of an answer is honest once the exchange has the answer's items.
RequestInv ==
    \A h \in Handlers : LET r == request[h] IN
        /\ r.pc \in {"ready", "fetch"} => Honest(r.stream, r.cursor, got[r.stream])
        /\ r.pc = "fetch" /\ r.cursor # NoCursor =>
              CursorOf(r.stream, r.cursor) /\ r.cursor.epoch = r.epoch
        /\ r.pc = "page" =>
              /\ Honest(r.stream, r.cursor, got[r.stream] \cup r.items)
              /\ CursorOf(r.stream, r.cursor)

\* Every HMAC key after the first cost a fault.
KeyInv == key <= faults + 1

FeedInv == TypeOK /\ KeyInv /\ CursorInv /\ RequestInv
=============================================================================
