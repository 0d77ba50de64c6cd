-------------------------- MODULE ScannerReadsProofs --------------------------
(***************************************************************************)
(* What the reads of the gateway answer is one scanner's truth, for every  *)
(* lag, page size, cap and expiry, and however far the chain, the log and  *)
(* the scanner's epochs go on between two answers; the amounts in it add   *)
(* up, whatever the width of the integers; and no more calls get as far as *)
(* that than their rate allows, in whatever order their times reach the    *)
(* limiter.                                                                *)
(***************************************************************************)
EXTENDS ScannerReads, NoteArithmetic, RateLimit, SequenceTheorems, TLAPS

-----------------------------------------------------------------------------
\* Sequences and their beginnings.

\* A beginning agrees with the whole wherever it is defined.
LEMMA PrefixElements ==
    ASSUME NEW S, NEW s \in Seq(S), NEW t \in Seq(S)
    PROVE  IsPrefix(s, t) <=> Len(s) <= Len(t) /\ \A i \in 1 .. Len(s) : s[i] = t[i]
<1>1. Len(s) \in Nat /\ Len(t) \in Nat
  OBVIOUS
<1>2. SubSeq(s, 1, Len(s)) = [i \in 1 .. Len(s) |-> s[i]]
  <2>1. SubSeq(s, 1, Len(s)) = s
    BY SubSeqFull
  <2> QED
    BY <2>1
<1>3. ASSUME Len(s) <= Len(t)
      PROVE  SubSeq(t, 1, Len(s)) = [i \in 1 .. Len(s) |-> t[i]]
  BY <1>1, <1>3
<1> QED
  BY <1>1, <1>2, <1>3 DEF IsPrefix

LEMMA PrefixOfAll ==
    ASSUME NEW S, NEW s \in Seq(S)
    PROVE  IsPrefix(s, s) /\ IsPrefix(<<>>, s)
<1>1. <<>> \in Seq(S) /\ Len(<<>>) = 0 /\ Len(s) \in Nat
  OBVIOUS
<1>2. IsPrefix(s, s)
  BY <1>1, PrefixElements
<1>3. IsPrefix(<<>>, s)
  <2>1. Len(<<>>) <= Len(s) /\ \A i \in 1 .. Len(<<>>) : <<>>[i] = s[i]
    BY <1>1
  <2> QED
    BY <1>1, <2>1, PrefixElements
<1> QED
  BY <1>2, <1>3

\* A beginning stays one when the whole grows.
LEMMA PrefixGrows ==
    ASSUME NEW S, NEW s \in Seq(S), NEW t \in Seq(S), NEW e \in S, IsPrefix(s, t)
    PROVE  Append(t, e) \in Seq(S) /\ IsPrefix(s, Append(t, e))
<1>1. Len(s) <= Len(t) /\ (\A i \in 1 .. Len(s) : s[i] = t[i]) /\ Len(s) \in Nat /\ Len(t) \in Nat
  BY PrefixElements
<1>2. /\ Append(t, e) \in Seq(S) /\ Len(Append(t, e)) = Len(t) + 1
      /\ \A i \in 1 .. Len(t) : Append(t, e)[i] = t[i]
  BY AppendProperties
<1>3. Len(s) <= Len(Append(t, e)) /\ \A i \in 1 .. Len(s) : i \in 1 .. Len(t)
  BY <1>1, <1>2
<1> QED
  BY <1>1, <1>2, <1>3, PrefixElements

\* The next part of a sequence, put behind a beginning of it, gives a longer
\* beginning, and all of it when the part reaches the end.
LEMMA PrefixExtends ==
    ASSUME NEW S, NEW s \in Seq(S), NEW t \in Seq(S), IsPrefix(s, t),
           NEW m \in Len(s) .. Len(t)
    PROVE  LET part == SubSeq(t, Len(s) + 1, m)
           IN  /\ part \in Seq(S) /\ Len(part) = m - Len(s)
               /\ s \o part \in Seq(S) /\ Len(s \o part) = m
               /\ IsPrefix(s \o part, t)
               /\ m = Len(t) => s \o part = t
<1> DEFINE part == SubSeq(t, Len(s) + 1, m)
           all == s \o part
<1>1. Len(s) <= Len(t) /\ (\A i \in 1 .. Len(s) : s[i] = t[i]) /\ Len(s) \in Nat /\ Len(t) \in Nat
  BY PrefixElements
<1>2. m \in Nat /\ Len(s) <= m /\ m <= Len(t)
  BY <1>1
<1>3. \A i \in Len(s) + 1 .. m : t[i] \in S
  BY <1>1, <1>2, ElementOfSeq
<1>4. /\ part \in Seq(S)
      /\ Len(part) = IF Len(s) + 1 <= m THEN m - (Len(s) + 1) + 1 ELSE 0
      /\ \A i \in 1 .. m - (Len(s) + 1) + 1 : part[i] = t[Len(s) + 1 + i - 1]
  <2>1. Len(s) + 1 \in Int /\ m \in Int
    BY <1>1, <1>2
  <2> QED
    BY <1>3, <2>1, SubSeqProperties
<1> HIDE DEF part
<1>5. Len(part) = m - Len(s) /\ \A i \in 1 .. m - Len(s) : part[i] = t[Len(s) + i]
  BY <1>1, <1>2, <1>4
<1>6. /\ all \in Seq(S) /\ Len(all) = Len(s) + Len(part)
      /\ \A i \in 1 .. Len(s) + Len(part) : all[i] = IF i <= Len(s) THEN s[i] ELSE part[i - Len(s)]
  BY <1>4, ConcatProperties
<1> HIDE DEF all
<1>7. Len(all) = m
  BY <1>1, <1>2, <1>5, <1>6
<1>8. \A i \in 1 .. m : all[i] = t[i]
  <2> SUFFICES ASSUME NEW i \in 1 .. m PROVE all[i] = t[i]
    OBVIOUS
  <2>1. CASE i <= Len(s)
    BY <1>1, <1>2, <1>5, <1>6, <2>1
  <2>2. CASE ~(i <= Len(s))
    <3>1. i - Len(s) \in 1 .. m - Len(s) /\ Len(s) + (i - Len(s)) = i /\ i \in 1 .. Len(s) + Len(part)
      BY <1>1, <1>2, <1>5, <2>2
    <3> QED
      BY <1>5, <1>6, <2>2, <3>1
  <2> QED
    BY <2>1, <2>2
<1>9. IsPrefix(all, t)
  BY <1>2, <1>6, <1>7, <1>8, PrefixElements
<1>10. m = Len(t) => all = t
  BY <1>6, <1>7, <1>8, SeqEqual
<1> QED
  BY <1>4, <1>5, <1>6, <1>7, <1>9, <1>10 DEF part, all

-----------------------------------------------------------------------------
\* The node and the scanner move under the request.

\* The fields of the state, each in its set.
LEMMA Fields ==
    ASSUME TypeOK
    PROVE  /\ scanner.view \in Chains /\ scanner.epoch \in Nat \ {0} /\ scanner.complete \in BOOLEAN
           /\ scanner.attested \in BOOLEAN /\ scanner.log \in Seq(Kinds)
           /\ request.pc \in Places /\ request.tip \in Nat /\ request.before \in Checks
           /\ request.ready \in Checks /\ request.snapshot \in [view : Chains, epoch : Nat]
           /\ request.effects \in Seq(Kinds) /\ request.state \in {"", "node"} \cup Terminal
           /\ history.log \in Seq(Kinds) /\ history.moved \in BOOLEAN /\ history.ready \in BOOLEAN
           /\ history.latest \in {""} \cup Kinds
           /\ history.gone \in BOOLEAN /\ history.absent \in BOOLEAN
           /\ request.before.epoch \in Nat /\ request.ready.epoch \in Nat
           /\ request.snapshot.epoch \in Nat
  BY DEF TypeOK, Checks

\* What a step of the node or the scanner may do to the invariant: it keeps the
\* epoch and what a request may rely on in it, or moves on to the next epoch.
LEMMA WorldMoves ==
    ASSUME ReadsInv, TypeOK', UNCHANGED <<ask, request>>,
           history'.log = history.log, history'.ready = history.ready,
           history'.latest = history.latest, history'.absent = history.absent,
           tx' \/ history'.gone,
           \/ /\ scanner'.epoch = scanner.epoch
              /\ scanner.complete => scanner'.complete
              /\ ask \in Snapshots /\ request.pc # "idle" =>
                    /\ history.moved => history'.moved
                    /\ scanner.attested => scanner'.attested \/ history'.moved
              /\ \/ scanner'.log = scanner.log
                 \/ \E kind \in Kinds : scanner'.log = Append(scanner.log, kind)
           \/ scanner'.epoch > scanner.epoch
    PROVE  ReadsInv'
<1>1. /\ scanner.epoch \in Nat /\ scanner'.epoch \in Nat /\ request.ready.epoch \in Nat
      /\ request.snapshot.epoch \in Nat /\ scanner.log \in Seq(Kinds) /\ scanner'.log \in Seq(Kinds)
      /\ request.effects \in Seq(Kinds) /\ history.log \in Seq(Kinds)
  <2>1. scanner'.epoch \in Nat /\ scanner'.log \in Seq(Kinds)
    BY DEF TypeOK
  <2> QED
    BY <2>1, Fields DEF ReadsInv
<1>2. request.ready.epoch <= scanner.epoch /\ request.snapshot.epoch <= scanner.epoch
  BY DEF ReadsInv, ProgressInv
<1>3. request.ready.epoch <= scanner'.epoch /\ request.snapshot.epoch <= scanner'.epoch
  BY <1>1, <1>2
<1>4. scanner'.epoch = request.ready.epoch => scanner'.epoch = scanner.epoch
  BY <1>1, <1>2
<1>5. ASSUME scanner'.epoch = scanner.epoch, NEW s \in Seq(Kinds), IsPrefix(s, scanner.log)
      PROVE  IsPrefix(s, scanner'.log)
  <2>1. CASE scanner'.log = scanner.log
    BY <1>5, <2>1
  <2>2. CASE \E kind \in Kinds : scanner'.log = Append(scanner.log, kind)
    BY <1>1, <1>5, <2>2, PrefixGrows
  <2>3. ~(scanner'.epoch > scanner.epoch)
    BY <1>1, <1>5
  <2> QED
    BY <2>1, <2>2, <2>3
<1>6. ProgressInv'
  BY <1>3 DEF ReadsInv, ProgressInv
<1>7. ASSUME ask \in Snapshots, request.pc # "idle", StillReady PROVE StillReady'
  <2>1. ~(scanner'.epoch > scanner.epoch) \/ scanner'.epoch # scanner.epoch
    BY <1>1
  <2> QED
    BY <1>4, <1>7, <2>1 DEF StillReady
<1>8. SnapshotInv'
  BY <1>7 DEF ReadsInv, SnapshotInv
<1>9. EffectsInv'
  BY <1>1, <1>4, <1>5 DEF ReadsInv, EffectsInv
<1>10. SnapshotIsReady'
  BY DEF ReadsInv, SnapshotIsReady
<1>11. EffectsComplete'
  BY <1>1, <1>4, <1>5 DEF ReadsInv, EffectsComplete
<1>12. TerminalIsLatest'
  BY DEF ReadsInv, TerminalIsLatest
<1> QED
  BY <1>6, <1>8, <1>9, <1>10, <1>11, <1>12 DEF ReadsInv, GoneInv

\* All but the last element, and the first elements, of a chain.
LEMMA ChainParts ==
    ASSUME NEW c \in Chains, NEW n \in 0 .. Len(c)
    PROVE  SubSeq(c, 1, n) \in Chains
<1>1. Len(c) \in Nat /\ \A i \in 1 .. n : c[i] \in Branches
  BY ElementOfSeq DEF Chains
<1> QED
  BY <1>1, SubSeqProperties DEF Chains

LEMMA ChainLength ==
    ASSUME NEW c \in Chains
    PROVE  Len(c) \in Nat
  BY LenProperties DEF Chains

LEMMA BlockStep ==
    ASSUME ReadsInv, NEW b \in Branches, Block(b)
    PROVE  ReadsInv'
<1>1. chain' \in Chains
  <2>1. chain \in Chains /\ Len(chain) \in Nat
    BY ChainLength DEF ReadsInv, TypeOK
  <2>2. CASE chain' = Append(chain, b)
    BY <2>1, <2>2 DEF Chains
  <2>3. CASE Len(chain) > 1 /\ chain' = Append(Front(chain), b)
    <3>1. Front(chain) \in Chains
      BY <2>1, <2>3, ChainParts DEF Front
    <3> QED
      BY <2>3, <3>1 DEF Chains
  <2> QED
    BY <2>2, <2>3 DEF Block
<1>2. UNCHANGED <<tx, scanner, ask, request, history>>
  BY DEF Block
<1>3. TypeOK'
  BY <1>1, <1>2 DEF ReadsInv, TypeOK
<1> QED
  BY <1>2, <1>3, WorldMoves DEF ReadsInv, GoneInv

\* A change of the history's flag of moves.
LEMMA MovedIs ==
    ASSUME TypeOK, NEW b \in BOOLEAN, history' = [history EXCEPT !.moved = b]
    PROVE  /\ history' \in [log : Seq(Kinds), moved : BOOLEAN, ready : BOOLEAN,
                            latest : {""} \cup Kinds, gone : BOOLEAN, absent : BOOLEAN]
           /\ history'.moved = b
           /\ history'.log = history.log /\ history'.ready = history.ready
           /\ history'.latest = history.latest /\ history'.absent = history.absent
           /\ history'.gone = history.gone
  BY DEF TypeOK

LEMMA IndexStep ==
    ASSUME ReadsInv, Index
    PROVE  ReadsInv'
<1> DEFINE v == scanner.view
           next == IF IsPrefix(v, chain) THEN SubSeq(chain, 1, Len(v) + 1) ELSE Front(v)
           m == request.pc # "idle" /\ ask \in Snapshots
<1>1. v \in Chains /\ chain \in Chains /\ v # chain /\ Len(v) \in Nat /\ Len(chain) \in Nat
  BY Fields, ChainLength DEF ReadsInv, TypeOK, Index
<1>2. next \in Chains
  <2>1. CASE IsPrefix(v, chain)
    <3>1. Len(v) <= Len(chain) /\ \A i \in 1 .. Len(v) : v[i] = chain[i]
      BY <1>1, <2>1, PrefixElements DEF Chains
    <3>2. Len(v) # Len(chain)
      BY <1>1, <3>1, SeqEqual DEF Chains
    <3>3. Len(v) + 1 \in 0 .. Len(chain)
      BY <1>1, <3>1, <3>2
    <3> QED
      BY <1>1, <2>1, <3>3, ChainParts
  <2>2. CASE ~IsPrefix(v, chain)
    <3>1. v # <<>>
      BY <1>1, <2>2, PrefixOfAll DEF Chains
    <3>2. Len(v) - 1 \in 0 .. Len(v)
      BY <1>1, <3>1 DEF Chains
    <3> QED
      BY <1>1, <2>2, <3>2, ChainParts DEF Front
  <2> QED
    BY <2>1, <2>2
<1>3. /\ scanner' = [scanner EXCEPT !.view = next, !.attested = FALSE]
      /\ history' = [history EXCEPT !.moved = m] /\ m \in BOOLEAN
      /\ UNCHANGED <<chain, tx, ask, request>>
  BY DEF Index
<1> HIDE DEF next, m
<1>4. /\ scanner' \in [view : Chains, epoch : Nat \ {0}, complete : BOOLEAN, attested : BOOLEAN,
                       log : Seq(Kinds)]
      /\ scanner'.epoch = scanner.epoch /\ scanner'.complete = scanner.complete
      /\ scanner'.log = scanner.log
  BY <1>2, <1>3 DEF ReadsInv, TypeOK
<1>5. /\ history' \in [log : Seq(Kinds), moved : BOOLEAN, ready : BOOLEAN,
                       latest : {""} \cup Kinds, gone : BOOLEAN, absent : BOOLEAN]
      /\ history'.moved = m
      /\ history'.log = history.log /\ history'.ready = history.ready
      /\ history'.latest = history.latest /\ history'.absent = history.absent
      /\ history'.gone = history.gone
  BY <1>3, MovedIs DEF ReadsInv
<1>6. TypeOK'
  BY <1>3, <1>4, <1>5 DEF ReadsInv, TypeOK
<1>7. tx' \/ history'.gone
  BY <1>3, <1>5 DEF ReadsInv, GoneInv
<1> QED
  BY <1>3, <1>4, <1>5, <1>6, <1>7, WorldMoves DEF m

LEMMA AttestStep ==
    ASSUME ReadsInv, Attest \/ Backfilled
    PROVE  ReadsInv'
<1>1. UNCHANGED <<chain, tx, ask, request, history>>
  BY DEF Attest, Backfilled
<1>2. /\ scanner' \in [view : Chains, epoch : Nat \ {0}, complete : BOOLEAN, attested : BOOLEAN,
                       log : Seq(Kinds)]
      /\ scanner'.epoch = scanner.epoch /\ scanner'.log = scanner.log
      /\ scanner.complete => scanner'.complete
      /\ scanner.attested => scanner'.attested
  BY DEF ReadsInv, TypeOK, Attest, Backfilled
<1>3. TypeOK'
  BY <1>1, <1>2 DEF ReadsInv, TypeOK
<1>4. tx' \/ history'.gone
  BY <1>1 DEF ReadsInv, GoneInv
<1> QED
  BY <1>1, <1>2, <1>3, <1>4, WorldMoves

LEMMA RestartStep ==
    ASSUME ReadsInv, Restart
    PROVE  ReadsInv'
<1> DEFINE m == request.pc # "idle" /\ ask \in Snapshots
<1>1. /\ history' = [history EXCEPT !.moved = m] /\ m \in BOOLEAN
      /\ UNCHANGED <<chain, tx, ask, request>>
  BY DEF Restart
<1>2. /\ scanner' \in [view : Chains, epoch : Nat \ {0}, complete : BOOLEAN, attested : BOOLEAN,
                       log : Seq(Kinds)]
      /\ scanner'.epoch = scanner.epoch + 1
  <2>1. scanner.epoch \in Nat \ {0} /\ scanner.epoch + 1 \in Nat \ {0} /\ <<>> \in Chains
        /\ <<>> \in Seq(Kinds)
    <3>1. scanner.epoch \in Nat \ {0}
      BY Fields DEF ReadsInv
    <3>2. <<>> \in Chains /\ <<>> \in Seq(Kinds)
      BY EmptySeq DEF Chains
    <3> QED
      BY <3>1, <3>2
  <2>2. CASE scanner' = [scanner EXCEPT !.epoch = @ + 1, !.attested = FALSE]
    BY <2>1, <2>2 DEF ReadsInv, TypeOK
  <2>3. CASE scanner' = [view |-> <<>>, epoch |-> scanner.epoch + 1, complete |-> FALSE,
                         attested |-> FALSE, log |-> <<>>]
    BY <2>1, <2>3
  <2> QED
    BY <2>2, <2>3 DEF Restart
<1>3. scanner'.epoch > scanner.epoch
  <2>1. scanner.epoch \in Nat
    BY Fields DEF ReadsInv
  <2> QED
    BY <1>2, <2>1
<1> HIDE DEF m
<1>4. /\ history' \in [log : Seq(Kinds), moved : BOOLEAN, ready : BOOLEAN,
                       latest : {""} \cup Kinds, gone : BOOLEAN, absent : BOOLEAN]
      /\ history'.log = history.log /\ history'.ready = history.ready
      /\ history'.latest = history.latest /\ history'.absent = history.absent
      /\ history'.gone = history.gone
  BY <1>1, MovedIs DEF ReadsInv
<1>5. TypeOK'
  BY <1>1, <1>2, <1>4 DEF ReadsInv, TypeOK
<1>6. tx' \/ history'.gone
  BY <1>1, <1>4 DEF ReadsInv, GoneInv
<1> QED
  BY <1>1, <1>3, <1>4, <1>5, <1>6, WorldMoves

\* A change of the history's flag of absence from the node.
LEMMA GoneIs ==
    ASSUME TypeOK, NEW b \in BOOLEAN, history' = [history EXCEPT !.gone = b]
    PROVE  /\ history' \in [log : Seq(Kinds), moved : BOOLEAN, ready : BOOLEAN,
                            latest : {""} \cup Kinds, gone : BOOLEAN, absent : BOOLEAN]
           /\ history'.gone = b
           /\ history'.log = history.log /\ history'.ready = history.ready
           /\ history'.latest = history.latest /\ history'.absent = history.absent
           /\ history'.moved = history.moved
  BY DEF TypeOK

LEMMA LogStep ==
    ASSUME ReadsInv, NEW kind \in Kinds, Log(kind)
    PROVE  ReadsInv'
<1>0. (~tx) \in BOOLEAN
  OBVIOUS
<1>1. /\ history' = [history EXCEPT !.gone = ~tx]
      /\ scanner' = [scanner EXCEPT !.log = Append(@, kind)]
      /\ UNCHANGED <<chain, tx, ask, request>>
  BY DEF Log
<1>2. /\ scanner' \in [view : Chains, epoch : Nat \ {0}, complete : BOOLEAN, attested : BOOLEAN,
                       log : Seq(Kinds)]
      /\ scanner'.epoch = scanner.epoch /\ scanner'.complete = scanner.complete
      /\ scanner'.attested = scanner.attested
      /\ scanner'.log = Append(scanner.log, kind)
  <2>1. scanner.log \in Seq(Kinds)
    BY Fields DEF ReadsInv
  <2>2. Append(scanner.log, kind) \in Seq(Kinds)
    BY <2>1, AppendProperties
  <2> QED
    BY <1>1, <2>2 DEF ReadsInv, TypeOK
<1>3. /\ history' \in [log : Seq(Kinds), moved : BOOLEAN, ready : BOOLEAN,
                       latest : {""} \cup Kinds, gone : BOOLEAN, absent : BOOLEAN]
      /\ history'.gone = ~tx
      /\ history'.log = history.log /\ history'.ready = history.ready
      /\ history'.latest = history.latest /\ history'.absent = history.absent
      /\ history'.moved = history.moved
  BY <1>0, <1>1, GoneIs DEF ReadsInv
<1>4. TypeOK'
  BY <1>1, <1>2, <1>3 DEF ReadsInv, TypeOK
<1>5. tx' \/ history'.gone
  BY <1>1, <1>3
<1> QED
  BY <1>1, <1>2, <1>3, <1>4, <1>5, WorldMoves

LEMMA TxMovesStep ==
    ASSUME ReadsInv, TxMoves
    PROVE  ReadsInv'
<1> DEFINE b == history.gone \/ tx
<1>1. /\ history' = [history EXCEPT !.gone = b] /\ b \in BOOLEAN
      /\ tx' = ~tx /\ UNCHANGED <<chain, scanner, ask, request>>
  BY DEF TxMoves
<1>2. tx' \/ b
  BY <1>1
<1> HIDE DEF b
<1>3. /\ history' \in [log : Seq(Kinds), moved : BOOLEAN, ready : BOOLEAN,
                       latest : {""} \cup Kinds, gone : BOOLEAN, absent : BOOLEAN]
      /\ history'.gone = b
      /\ history'.log = history.log /\ history'.ready = history.ready
      /\ history'.latest = history.latest /\ history'.absent = history.absent
      /\ history'.moved = history.moved
  BY <1>1, GoneIs DEF ReadsInv
<1>4. TypeOK'
  BY <1>1, <1>3 DEF ReadsInv, TypeOK
<1> QED
  BY <1>1, <1>2, <1>3, <1>4, WorldMoves

-----------------------------------------------------------------------------
\* The request moves.

Requests == [pc : Places, tip : Nat, before : Checks, ready : Checks,
             snapshot : [view : Chains, epoch : Nat], effects : Seq(Kinds),
             state : {"", "node"} \cup Terminal]
Histories == [log : Seq(Kinds), moved : BOOLEAN, ready : BOOLEAN,
              latest : {""} \cup Kinds, gone : BOOLEAN, absent : BOOLEAN]

\* The handler's variables at the start.
LEMMA IdleFields ==
    /\ Idle \in Requests
    /\ Idle.pc = "idle" /\ Idle.before = NotChecked /\ Idle.ready.epoch = 0
    /\ Idle.snapshot.epoch = 0 /\ Idle.effects = <<>> /\ Idle.state = ""
    /\ NotChecked \in Checks /\ NotChecked.epoch = 0
<1>1. <<>> \in Chains /\ <<>> \in Seq(Kinds)
  BY EmptySeq DEF Chains
<1>2. NotChecked \in Checks /\ NotChecked.epoch = 0
  BY <1>1 DEF NotChecked, Checks
<1>3. [view |-> <<>>, epoch |-> 0] \in [view : Chains, epoch : Nat]
  BY <1>1
<1> QED
  BY <1>1, <1>2, <1>3 DEF Idle, Requests, Places

\* The world under a step of the handler.
LEMMA SameWorld ==
    ASSUME ReadsInv, UNCHANGED <<world, ask>>, request' \in Requests, history' \in Histories
    PROVE  TypeOK' /\ UNCHANGED <<chain, tx, scanner, ask>>
  BY DEF ReadsInv, TypeOK, world, Requests, Histories

LEMMA ForgetStep ==
    ASSUME ReadsInv, Forget, UNCHANGED <<world, ask>>
    PROVE  ReadsInv'
<1>1. request' = Idle /\ history' = Fresh(history.gone) /\ history.gone \in BOOLEAN
  BY Fields DEF Forget, ReadsInv
<1>2. /\ request' \in Requests /\ request'.pc = "idle" /\ request'.before = NotChecked
      /\ request'.ready.epoch = 0 /\ request'.snapshot.epoch = 0 /\ request'.state = ""
  BY <1>1, IdleFields
<1>3. history' \in Histories /\ history'.gone = history.gone
  <2>1. <<>> \in Seq(Kinds)
    BY EmptySeq
  <2> QED
    BY <1>1, <2>1 DEF Fresh, Histories
<1>4. TypeOK' /\ UNCHANGED <<chain, tx, scanner, ask>>
  BY <1>2, <1>3, SameWorld
<1>5. 0 <= scanner.epoch
  <2>1. scanner.epoch \in Nat
    BY Fields DEF ReadsInv
  <2> QED
    BY <2>1
<1>6. ProgressInv'
  BY <1>1, <1>2, <1>4, <1>5 DEF ProgressInv
<1>7. SnapshotInv' /\ EffectsInv' /\ SnapshotIsReady' /\ EffectsComplete'
  BY <1>2 DEF SnapshotInv, EffectsInv, SnapshotIsReady, EffectsComplete
<1>8. TerminalIsLatest'
  BY <1>2 DEF TerminalIsLatest, Terminal
<1>9. GoneInv'
  BY <1>3, <1>4 DEF ReadsInv, GoneInv
<1> QED
  BY <1>4, <1>6, <1>7, <1>8, <1>9 DEF ReadsInv

LEMMA StartStep ==
    ASSUME ReadsInv, Start
    PROVE  ReadsInv'
<1>1. request = Idle /\ request' = [request EXCEPT !.pc = "tip"] /\ UNCHANGED <<world, ask, history>>
  BY DEF Start, ReadsInv, ProgressInv
<1>2. /\ request' \in Requests /\ request'.pc = "tip" /\ request'.before = NotChecked
      /\ request'.ready.epoch = 0 /\ request'.snapshot.epoch = 0 /\ request'.state = ""
      /\ request'.effects = <<>>
  BY <1>1, IdleFields DEF Requests, Places
<1>3. history \in Histories
  BY DEF ReadsInv, TypeOK, Histories
<1>4. TypeOK' /\ UNCHANGED <<chain, tx, scanner, ask>>
  BY <1>1, <1>2, <1>3, SameWorld
<1>5. 0 <= scanner.epoch
  <2>1. scanner.epoch \in Nat
    BY Fields DEF ReadsInv
  <2> QED
    BY <2>1
<1>6. ProgressInv'
  BY <1>1, <1>2, <1>4, <1>5 DEF ProgressInv
<1>7. SnapshotInv' /\ EffectsInv' /\ SnapshotIsReady' /\ EffectsComplete'
  BY <1>2 DEF SnapshotInv, EffectsInv, SnapshotIsReady, EffectsComplete
<1>8. TerminalIsLatest'
  BY <1>2 DEF TerminalIsLatest, Terminal
<1>9. GoneInv'
  BY <1>1, <1>4 DEF ReadsInv, GoneInv
<1> QED
  BY <1>4, <1>6, <1>7, <1>8, <1>9 DEF ReadsInv

LEMMA ReadyTipStep ==
    ASSUME ReadsInv, ReadyTip
    PROVE  ReadsInv'
<1>1. /\ request.pc = "tip" /\ request' = [request EXCEPT !.pc = "health", !.tip = Len(chain)]
      /\ UNCHANGED <<world, ask, history>>
  BY DEF ReadyTip
<1>2. Len(chain) \in Nat
  BY ChainLength DEF ReadsInv, TypeOK
<1>3. /\ request' \in Requests /\ request'.pc = "health" /\ request'.before = request.before
      /\ request'.ready = request.ready /\ request'.snapshot = request.snapshot
      /\ request'.state = request.state /\ request'.effects = request.effects
  BY <1>1, <1>2 DEF ReadsInv, TypeOK, Requests, Places
<1>4. TypeOK' /\ UNCHANGED <<chain, tx, scanner, ask, history>>
  <2>1. history \in Histories
    BY DEF ReadsInv, TypeOK, Histories
  <2> QED
    BY <1>1, <1>3, <2>1, SameWorld
<1>5. ProgressInv'
  BY <1>1, <1>3, <1>4 DEF ReadsInv, ProgressInv
<1>6. SnapshotInv'
  BY <1>1, <1>3, <1>4 DEF ReadsInv, SnapshotInv
<1>7. EffectsInv' /\ SnapshotIsReady' /\ EffectsComplete'
  BY <1>1, <1>3, <1>4 DEF ReadsInv, EffectsInv, SnapshotIsReady, EffectsComplete
<1>8. TerminalIsLatest' /\ GoneInv'
  BY <1>3, <1>4 DEF ReadsInv, TerminalIsLatest, GoneInv
<1> QED
  BY <1>4, <1>5, <1>6, <1>7, <1>8 DEF ReadsInv

LEMMA ReadyHealthStep ==
    ASSUME ReadsInv, ReadyHealth
    PROVE  ReadsInv'
<1>1. CASE ~HealthIsReady(request.tip)
  BY <1>1, ForgetStep DEF ReadyHealth, Refused
<1>2. CASE HealthIsReady(request.tip)
  <2> DEFINE r == [tip |-> request.tip, view |-> scanner.view,
                   epoch |-> scanner.epoch, lag |-> request.tip - Len(scanner.view)]
  <2>1. /\ request.pc = "health" /\ request' = [request EXCEPT !.pc = "hash", !.ready = r]
        /\ history' = IF request.before = NotChecked
                      THEN [history EXCEPT !.log = scanner.log, !.moved = FALSE] ELSE history
        /\ UNCHANGED <<world, ask>>
    BY <1>2 DEF ReadyHealth
  <2>2. r \in Checks /\ r.epoch = scanner.epoch
    <3>1. /\ request.tip \in Nat /\ scanner.view \in Chains /\ scanner.epoch \in Nat
          /\ Len(scanner.view) \in Nat
      BY Fields, ChainLength DEF ReadsInv
    <3> QED
      BY <3>1 DEF Checks
  <2> HIDE DEF r
  <2>3. /\ request' \in Requests /\ request'.pc = "hash" /\ request'.before = request.before
        /\ request'.ready = r /\ request'.snapshot = request.snapshot
        /\ request'.state = request.state /\ request'.effects = request.effects
    BY <2>1, <2>2 DEF ReadsInv, TypeOK, Requests, Places
  <2>4. /\ history' \in Histories /\ history'.gone = history.gone /\ history'.ready = history.ready
        /\ history'.latest = history.latest /\ history'.absent = history.absent
        /\ request.before = NotChecked => history'.log = scanner.log
    BY <2>1, Fields DEF ReadsInv, TypeOK, Histories
  <2>5. TypeOK' /\ UNCHANGED <<chain, tx, scanner, ask>>
    BY <2>1, <2>3, <2>4, SameWorld
  <2>6. /\ scanner.epoch \in Nat \ {0} /\ request.snapshot.epoch \in Nat
        /\ scanner.log \in Seq(Kinds)
    BY Fields DEF ReadsInv
  <2>7. ProgressInv'
    <3>1. scanner.epoch <= scanner.epoch /\ scanner.epoch # 0
      BY <2>6
    <3> QED
      BY <2>1, <2>2, <2>3, <2>5, <3>1 DEF ReadsInv, ProgressInv
  <2>8. SnapshotInv'
    <3>1. StillReady'
      BY <1>2, <2>5 DEF HealthIsReady, StillReady
    <3>2. request.snapshot.epoch <= r.epoch
      BY <2>2 DEF ReadsInv, ProgressInv
    <3> QED
      BY <2>1, <2>3, <2>4, <2>5, <3>1, <3>2 DEF ReadsInv, SnapshotInv
  <2>9. EffectsInv'
    <3>1. IsPrefix(scanner.log, scanner.log)
      BY <2>6, PrefixOfAll
    <3> QED
      BY <2>1, <2>3, <2>4, <2>5, <3>1 DEF ReadsInv, EffectsInv
  <2>10. SnapshotIsReady' /\ EffectsComplete'
    BY <2>3 DEF SnapshotIsReady, EffectsComplete
  <2>11. TerminalIsLatest' /\ GoneInv'
    BY <2>3, <2>4, <2>5 DEF ReadsInv, TerminalIsLatest, GoneInv
  <2> QED
    BY <2>5, <2>7, <2>8, <2>9, <2>10, <2>11 DEF ReadsInv
<1> QED
  BY <1>1, <1>2

LEMMA ReadyHashStep ==
    ASSUME ReadsInv, ReadyHash
    PROVE  ReadsInv'
<1>1. CASE ~IsPrefix(request.ready.view, chain)
  BY <1>1, ForgetStep DEF ReadyHash, Refused
<1>2. CASE IsPrefix(request.ready.view, chain)
  <2>1. /\ request.pc = "hash" /\ request' = [request EXCEPT !.pc = "wallets"]
        /\ UNCHANGED <<world, ask, history>>
    BY <1>2 DEF ReadyHash
  <2>2. /\ request' \in Requests /\ request'.pc = "wallets" /\ request'.before = request.before
        /\ request'.ready = request.ready /\ request'.snapshot = request.snapshot
        /\ request'.state = request.state /\ request'.effects = request.effects
    BY <2>1 DEF ReadsInv, TypeOK, Requests, Places
  <2>3. TypeOK' /\ UNCHANGED <<chain, tx, scanner, ask, history>>
    <3>1. history \in Histories
      BY DEF ReadsInv, TypeOK, Histories
    <3> QED
      BY <2>1, <2>2, <3>1, SameWorld
  <2>4. ProgressInv'
    BY <2>1, <2>2, <2>3 DEF ReadsInv, ProgressInv
  <2>5. SnapshotInv'
    BY <2>1, <2>2, <2>3 DEF ReadsInv, SnapshotInv, StillReady
  <2>6. EffectsInv' /\ SnapshotIsReady' /\ EffectsComplete'
    BY <2>1, <2>2, <2>3 DEF ReadsInv, EffectsInv, SnapshotIsReady, EffectsComplete
  <2>7. TerminalIsLatest' /\ GoneInv'
    BY <2>2, <2>3 DEF ReadsInv, TerminalIsLatest, GoneInv
  <2> QED
    BY <2>3, <2>4, <2>5, <2>6, <2>7 DEF ReadsInv
<1> QED
  BY <1>1, <1>2

\* The second check ends in a snapshot's answer: between two checks of one epoch
\* there is no other epoch, so the snapshot is of theirs.
LEMMA SnapshotStands ==
    ASSUME ReadsInv, ask \in Snapshots, request.pc = "wallets", request.before # NotChecked,
           SnapshotUnchanged
    PROVE  /\ request.snapshot = [view |-> request.ready.view, epoch |-> request.ready.epoch]
           /\ history.ready
<1>1. /\ request.snapshot.view = request.before.view /\ request.ready.view = request.before.view
      /\ request.ready.epoch = request.before.epoch
  BY DEF SnapshotUnchanged, SummaryUnchanged, StatusesUnchanged
<1>2. /\ request.before.epoch <= request.snapshot.epoch
      /\ request.snapshot.epoch = request.before.epoch => history.ready
      /\ request.snapshot.epoch <= request.ready.epoch
  BY DEF ReadsInv, SnapshotInv
<1>3. /\ request.before.epoch \in Nat /\ request.snapshot.epoch \in Nat
      /\ request.snapshot \in [view : Chains, epoch : Nat]
  BY Fields DEF ReadsInv
<1>4. request.snapshot.epoch = request.before.epoch
  BY <1>1, <1>2, <1>3
<1>5. request.snapshot = [view |-> request.snapshot.view, epoch |-> request.snapshot.epoch]
  BY <1>3
<1> QED
  BY <1>1, <1>2, <1>4, <1>5

LEMMA ReadyWalletsStep ==
    ASSUME ReadsInv, ReadyWallets
    PROVE  ReadsInv'
<1> DEFINE ok == scanner.complete /\ (request.before # NotChecked => SnapshotUnchanged)
<1>1. CASE ~ok
  BY <1>1, ForgetStep DEF ReadyWallets, Refused
<1>2. CASE ok
  <2> DEFINE next == CASE request.before # NotChecked -> "done"
                       [] ask = "transaction" -> "node"
                       [] OTHER -> "read"
  <2>1. /\ request.pc = "wallets"
        /\ request' = [request EXCEPT !.before = request.ready, !.pc = next]
        /\ UNCHANGED <<world, ask, history>>
    BY <1>2 DEF ReadyWallets
  <2>0. ask = "transaction" => request.before = NotChecked
    BY <2>1 DEF ReadsInv, EffectsInv
  <2>2. /\ next \in {"done", "node", "read"}
        /\ next = "done" <=> request.before # NotChecked
        /\ next = "node" => ask = "transaction"
        /\ next = "read" => ask # "transaction"
    <3>1. CASE request.before # NotChecked
      <4>1. ask # "transaction" /\ next = "done"
        BY <2>0, <3>1
      <4> QED
        BY <3>1, <4>1
    <3>2. CASE request.before = NotChecked /\ ask = "transaction"
      <4>1. next = "node"
        BY <3>2
      <4> QED
        BY <3>2, <4>1
    <3>3. CASE request.before = NotChecked /\ ask # "transaction"
      <4>1. next = "read"
        BY <3>3
      <4> QED
        BY <3>3, <4>1
    <3> QED
      BY <3>1, <3>2, <3>3
  <2> HIDE DEF next
  <2>3. /\ request' \in Requests /\ request'.pc = next /\ request'.before = request.ready
        /\ request'.ready = request.ready /\ request'.snapshot = request.snapshot
        /\ request'.state = request.state /\ request'.effects = request.effects
    BY <2>1, <2>2 DEF ReadsInv, TypeOK, Requests, Places
  <2>4. TypeOK' /\ UNCHANGED <<chain, tx, scanner, ask, history>>
    <3>1. history \in Histories
      BY DEF ReadsInv, TypeOK, Histories
    <3> QED
      BY <2>1, <2>3, <3>1, SameWorld
  <2>5. request.ready.epoch # 0 /\ request.ready # NotChecked /\ request.state = ""
    BY <2>1, IdleFields DEF ReadsInv, ProgressInv
  <2>7. ProgressInv'
    BY <2>1, <2>2, <2>3, <2>4, <2>5 DEF ReadsInv, ProgressInv
  <2>8. SnapshotInv'
    <3>1. ask \in Snapshots /\ next = "read" => StillReady
      BY <2>1, <2>2 DEF ReadsInv, SnapshotInv
    <3> QED
      BY <2>2, <2>3, <2>4, <2>5, <3>1 DEF SnapshotInv, StillReady
  <2>9. EffectsInv'
    BY <2>1, <2>2, <2>3, <2>4 DEF ReadsInv, EffectsInv
  <2>10. SnapshotIsReady'
    BY <1>2, <2>1, <2>2, <2>3, <2>4, SnapshotStands DEF SnapshotIsReady
  <2>11. EffectsComplete'
    BY <2>2, <2>3, <2>4, <2>0 DEF EffectsComplete
  <2>12. TerminalIsLatest' /\ GoneInv'
    BY <2>3, <2>4 DEF ReadsInv, TerminalIsLatest, GoneInv
  <2> QED
    BY <2>4, <2>7, <2>8, <2>9, <2>10, <2>11, <2>12 DEF ReadsInv
<1> QED
  BY <1>1, <1>2

LEMMA ReadsStep ==
    ASSUME ReadsInv, NEW next \in {"tip", "done"}, Reads(next),
           next = "tip" => ask \in Snapshots, next = "done" => ask = "balance"
    PROVE  ReadsInv'
<1> DEFINE snap == [view |-> scanner.view, epoch |-> scanner.epoch]
           now == scanner.complete /\ (scanner.attested \/ history.moved)
<1>1. /\ request.pc = "read" /\ request' = [request EXCEPT !.pc = next, !.snapshot = snap]
      /\ history' = [history EXCEPT !.ready = now] /\ now \in BOOLEAN
      /\ UNCHANGED <<world, ask>>
  BY DEF Reads
<1>2. /\ snap \in [view : Chains, epoch : Nat] /\ snap.epoch = scanner.epoch
      /\ scanner.epoch \in Nat
  <2>1. scanner.view \in Chains /\ scanner.epoch \in Nat
    BY Fields DEF ReadsInv
  <2> QED
    BY <2>1
<1>3. StillReady /\ scanner.epoch = request.ready.epoch => now
  BY DEF StillReady
<1> HIDE DEF snap, now
<1>4. /\ request' \in Requests /\ request'.pc = next /\ request'.before = request.before
      /\ request'.ready = request.ready /\ request'.snapshot = snap
      /\ request'.state = request.state /\ request'.effects = request.effects
  BY <1>1, <1>2 DEF ReadsInv, TypeOK, Requests, Places
<1>5. /\ history' \in Histories /\ history'.gone = history.gone /\ history'.ready = now
      /\ history'.latest = history.latest /\ history'.absent = history.absent
  BY <1>1 DEF ReadsInv, TypeOK, Histories
<1>6. TypeOK' /\ UNCHANGED <<chain, tx, scanner, ask>>
  BY <1>1, <1>4, <1>5, SameWorld
<1>7. request.state = "" /\ request.ready.epoch <= scanner.epoch /\ scanner.epoch <= scanner.epoch
  <2>1. scanner.epoch <= scanner.epoch
    BY <1>2
  <2>2. request.state = "" /\ request.ready.epoch <= scanner.epoch
    BY <1>1 DEF ReadsInv, ProgressInv
  <2> QED
    BY <2>1, <2>2
<1>8. ProgressInv'
  BY <1>2, <1>4, <1>6, <1>7 DEF ReadsInv, ProgressInv
<1>9. SnapshotInv'
  BY <1>1, <1>2, <1>3, <1>4, <1>5, <1>6, <1>7 DEF ReadsInv, SnapshotInv, Snapshots
<1>10. EffectsInv' /\ EffectsComplete'
  BY <1>6 DEF EffectsInv, EffectsComplete, Snapshots
<1>11. SnapshotIsReady'
  BY <1>4, <1>6 DEF SnapshotIsReady, Snapshots
<1>12. TerminalIsLatest' /\ GoneInv'
  BY <1>4, <1>5, <1>6, <1>7 DEF ReadsInv, TerminalIsLatest, GoneInv, Terminal
<1> QED
  BY <1>6, <1>8, <1>9, <1>10, <1>11, <1>12 DEF ReadsInv

LEMMA ReadyNodeStep ==
    ASSUME ReadsInv, ReadyNode
    PROVE  ReadsInv'
<1>1. /\ request.pc = "node" /\ request' = [request EXCEPT !.pc = "page"]
      /\ UNCHANGED <<world, ask, history>>
  BY DEF ReadyNode
<1>2. /\ request' \in Requests /\ request'.pc = "page" /\ request'.before = request.before
      /\ request'.ready = request.ready /\ request'.snapshot = request.snapshot
      /\ request'.state = request.state /\ request'.effects = request.effects
  BY <1>1 DEF ReadsInv, TypeOK, Requests, Places
<1>3. TypeOK' /\ UNCHANGED <<chain, tx, scanner, ask, history>>
  <2>1. history \in Histories
    BY DEF ReadsInv, TypeOK, Histories
  <2> QED
    BY <1>1, <1>2, <2>1, SameWorld
<1>4. ask = "transaction" /\ request.effects = <<>>
  BY <1>1 DEF ReadsInv, ProgressInv, EffectsInv
<1>5. Len(request.effects) <= MaxEffects /\ IsPrefix(request.effects, scanner.log)
  <2>1. scanner.log \in Seq(Kinds) /\ Len(<<>>) = 0 /\ MaxEffects \in Nat
    BY Fields, ReadsAssumption DEF ReadsInv
  <2> QED
    BY <1>4, <2>1, PrefixOfAll
<1>6. ProgressInv'
  BY <1>1, <1>2, <1>3, <1>4 DEF ReadsInv, ProgressInv
<1>7. SnapshotInv' /\ SnapshotIsReady' /\ EffectsComplete'
  BY <1>2 DEF SnapshotInv, SnapshotIsReady, EffectsComplete
<1>8. EffectsInv'
  BY <1>1, <1>2, <1>3, <1>5 DEF ReadsInv, EffectsInv
<1>9. TerminalIsLatest' /\ GoneInv'
  BY <1>2, <1>3 DEF ReadsInv, TerminalIsLatest, GoneInv
<1> QED
  BY <1>3, <1>6, <1>7, <1>8, <1>9 DEF ReadsInv

\* A page of the log of the epoch that was checked: it is put behind the ones
\* before it, and a page that is short ends at the end of the log.
LEMMA PageOfLog ==
    ASSUME ReadsInv, request.pc = "page", PageIsCurrent
    PROVE  LET collected == Len(request.effects)
               limit == PageLimit(collected)
               page == SubSeq(scanner.log, collected + 1,
                              Smaller(Len(scanner.log), collected + limit))
               effects == request.effects \o page
           IN  /\ effects \in Seq(Kinds) /\ Len(effects) \in Nat
               /\ IsPrefix(effects, scanner.log)
               /\ Len(page) \in Nat /\ limit \in Nat /\ Len(page) <= limit
               /\ Len(page) < limit => effects = scanner.log
<1> DEFINE e == request.effects
           log == scanner.log
           limit == PageLimit(Len(e))
           m == Smaller(Len(log), Len(e) + limit)
           page == SubSeq(log, Len(e) + 1, m)
<1>1. e \in Seq(Kinds) /\ log \in Seq(Kinds)
  BY Fields DEF ReadsInv
<1>2. Len(e) <= MaxEffects /\ IsPrefix(e, log)
  BY DEF ReadsInv, ProgressInv, EffectsInv, PageIsCurrent
<1> HIDE DEF e, log
<1>3. Len(e) \in Nat /\ Len(log) \in Nat /\ Len(e) <= Len(log)
  BY <1>1, <1>2, LenProperties, PrefixElements
<1>4. limit \in Nat
  BY <1>2, <1>3, ReadsAssumption DEF PageLimit, Smaller
<1> HIDE DEF limit
<1>5. m \in Len(e) .. Len(log) /\ m <= Len(e) + limit /\ (m < Len(e) + limit => m = Len(log))
  BY <1>3, <1>4 DEF Smaller
<1> HIDE DEF m
<1>6. /\ page \in Seq(Kinds) /\ Len(page) = m - Len(e)
      /\ e \o page \in Seq(Kinds) /\ Len(e \o page) = m
      /\ IsPrefix(e \o page, log)
      /\ m = Len(log) => e \o page = log
  BY <1>1, <1>2, <1>5, PrefixExtends
<1> HIDE DEF page
<1>7. Len(page) \in Nat /\ Len(page) <= limit /\ Len(e \o page) \in Nat
  BY <1>3, <1>4, <1>5, <1>6
<1>8. Len(page) < limit => e \o page = log
  BY <1>3, <1>4, <1>5, <1>6
<1> QED
  BY <1>4, <1>6, <1>7, <1>8 DEF page, m, limit, e, log

LEMMA WalletEffectsStep ==
    ASSUME ReadsInv, WalletEffects
    PROVE  ReadsInv'
<1> DEFINE collected == Len(request.effects)
           limit == PageLimit(collected)
           page == SubSeq(scanner.log, collected + 1,
                          Smaller(Len(scanner.log), collected + limit))
           effects == request.effects \o page
           next == IF Len(page) < limit THEN "lookup" ELSE "page"
           last == IF Len(page) = limit \/ scanner.log = <<>> THEN "" ELSE Last(scanner.log)
<1>1. /\ request.pc = "page" /\ UNCHANGED <<world, ask>>
      /\ ~PageIsCurrent => Forget
      /\ PageIsCurrent /\ Len(effects) > MaxEffects =>
            request' = [Idle EXCEPT !.pc = "over"] /\ UNCHANGED history
      /\ PageIsCurrent /\ ~(Len(effects) > MaxEffects) =>
            /\ request' = [request EXCEPT !.effects = effects, !.pc = next]
            /\ history' = [history EXCEPT !.latest = last]
  BY DEF WalletEffects, Refused
<1>2. CASE ~PageIsCurrent
  BY <1>1, <1>2, ForgetStep
<1>3. PageIsCurrent =>
         /\ effects \in Seq(Kinds) /\ Len(effects) \in Nat
         /\ IsPrefix(effects, scanner.log)
         /\ Len(page) \in Nat /\ limit \in Nat /\ Len(page) <= limit
         /\ Len(page) < limit => effects = scanner.log
  BY <1>1, PageOfLog
<1> HIDE DEF collected, limit, page, effects
<1>4. CASE PageIsCurrent /\ Len(effects) > MaxEffects
  <2>1. /\ request' \in Requests /\ request'.pc = "over" /\ request'.before = NotChecked
        /\ request'.ready.epoch = 0 /\ request'.snapshot.epoch = 0 /\ request'.state = ""
    BY <1>1, <1>4, IdleFields DEF Requests, Places
  <2>2. TypeOK' /\ UNCHANGED <<chain, tx, scanner, ask, history>>
    <3>1. history \in Histories
      BY DEF ReadsInv, TypeOK, Histories
    <3> QED
      BY <1>1, <1>4, <2>1, <3>1, SameWorld
  <2>3. 0 <= scanner.epoch
    <3>1. scanner.epoch \in Nat
      BY Fields DEF ReadsInv
    <3> QED
      BY <3>1
  <2>4. ProgressInv'
    BY <2>1, <2>2, <2>3 DEF ProgressInv
  <2>5. SnapshotInv' /\ EffectsInv' /\ SnapshotIsReady' /\ EffectsComplete'
    BY <2>1 DEF SnapshotInv, EffectsInv, SnapshotIsReady, EffectsComplete
  <2>6. TerminalIsLatest' /\ GoneInv'
    BY <2>1, <2>2 DEF ReadsInv, TerminalIsLatest, GoneInv, Terminal
  <2> QED
    BY <2>2, <2>4, <2>5, <2>6 DEF ReadsInv
<1>5. CASE PageIsCurrent /\ ~(Len(effects) > MaxEffects)
  <2>1. scanner.log \in Seq(Kinds) /\ history.log \in Seq(Kinds)
    BY Fields DEF ReadsInv
  <2>2. last \in {""} \cup Kinds
    <3>1. scanner.log # <<>> => Last(scanner.log) \in Kinds
      <4>1. Len(scanner.log) \in Nat /\ (scanner.log # <<>> => Len(scanner.log) # 0)
        BY <2>1, LenProperties, EmptySeq
      <4>2. scanner.log # <<>> => Len(scanner.log) \in 1 .. Len(scanner.log)
        BY <4>1
      <4> QED
        BY <2>1, <4>2, ElementOfSeq DEF Last
    <3> QED
      BY <3>1
  <2>3. /\ next \in {"lookup", "page"}
        /\ next = "lookup" => effects = scanner.log
        /\ next = "lookup" /\ effects # <<>> => last = Last(effects)
    <3>1. CASE Len(page) < limit
      <4>1. Len(page) # limit /\ effects = scanner.log /\ next = "lookup"
        BY <1>3, <1>5, <3>1
      <4> QED
        BY <4>1
    <3>2. CASE ~(Len(page) < limit)
      <4>1. next = "page"
        BY <3>2
      <4> QED
        BY <4>1
    <3> QED
      BY <3>1, <3>2
  <2> HIDE DEF next, last
  <2>4. /\ request' \in Requests /\ request'.pc = next /\ request'.before = request.before
        /\ request'.ready = request.ready /\ request'.snapshot = request.snapshot
        /\ request'.state = request.state /\ request'.effects = effects
    BY <1>1, <1>3, <1>5, <2>3 DEF ReadsInv, TypeOK, Requests, Places
  <2>5. /\ history' \in Histories /\ history'.gone = history.gone /\ history'.ready = history.ready
        /\ history'.latest = last /\ history'.absent = history.absent /\ history'.log = history.log
    BY <1>1, <1>5, <2>2 DEF ReadsInv, TypeOK, Histories
  <2>6. TypeOK' /\ UNCHANGED <<chain, tx, scanner, ask>>
    BY <1>1, <2>4, <2>5, SameWorld
  <2>7. /\ ask = "transaction" /\ request.state = ""
        /\ IsPrefix(history.log, scanner.log)
    BY <1>1, <1>5 DEF ReadsInv, ProgressInv, EffectsInv, PageIsCurrent
  <2>8. Len(effects) <= MaxEffects
    BY <1>3, <1>5, ReadsAssumption
  <2>9. ProgressInv'
    BY <1>1, <2>3, <2>4, <2>6, <2>7 DEF ReadsInv, ProgressInv
  <2>10. SnapshotInv' /\ SnapshotIsReady'
    BY <2>3, <2>4 DEF SnapshotInv, SnapshotIsReady
  <2>11. EffectsInv'
    BY <1>3, <1>5, <2>3, <2>4, <2>5, <2>6, <2>7, <2>8 DEF EffectsInv
  <2>12. EffectsComplete'
    BY <1>3, <1>5, <2>3, <2>4, <2>5, <2>6, <2>7 DEF EffectsComplete
  <2>13. TerminalIsLatest' /\ GoneInv'
    BY <2>4, <2>5, <2>6, <2>7 DEF ReadsInv, TerminalIsLatest, GoneInv, Terminal
  <2> QED
    BY <2>6, <2>9, <2>10, <2>11, <2>12, <2>13 DEF ReadsInv
<1> QED
  BY <1>2, <1>4, <1>5

LEMMA LookupStep ==
    ASSUME ReadsInv, Lookup
    PROVE  ReadsInv'
<1> DEFINE s == IF tx THEN "node" ELSE TerminalState(request.effects)
           none == s = "" \/ (s = "expired" /\ request.ready.tip <= Expiry)
<1>1. /\ request.pc = "lookup" /\ UNCHANGED <<world, ask>>
      /\ none => Forget
      /\ ~none => /\ request' = [request EXCEPT !.pc = "done", !.state = s]
                  /\ history' = [history EXCEPT !.absent = history.gone]
  BY DEF Lookup, Refused
<1>2. CASE none
  BY <1>1, <1>2, ForgetStep
<1>3. CASE ~none
  <2>1. /\ s \in {"", "node"} \cup Terminal
        /\ s \in Terminal => ~tx /\ request.effects # <<>> /\ s = Last(request.effects)
    BY DEF TerminalState, Terminal
  <2> HIDE DEF s, none
  <2>2. /\ request' \in Requests /\ request'.pc = "done" /\ request'.before = request.before
        /\ request'.ready = request.ready /\ request'.snapshot = request.snapshot
        /\ request'.state = s /\ request'.effects = request.effects
    BY <1>1, <1>3, <2>1 DEF ReadsInv, TypeOK, Requests, Places
  <2>3. /\ history' \in Histories /\ history'.gone = history.gone /\ history'.ready = history.ready
        /\ history'.latest = history.latest /\ history'.absent = history.gone
        /\ history'.log = history.log
    BY <1>1, <1>3 DEF ReadsInv, TypeOK, Histories
  <2>4. TypeOK' /\ UNCHANGED <<chain, tx, scanner, ask>>
    BY <1>1, <2>2, <2>3, SameWorld
  <2>5. ask = "transaction"
    BY <1>1 DEF ReadsInv, ProgressInv
  <2>6. ProgressInv'
    BY <2>2, <2>4, <2>5 DEF ReadsInv, ProgressInv
  <2>7. SnapshotInv' /\ SnapshotIsReady'
    BY <2>4, <2>5 DEF SnapshotInv, SnapshotIsReady, Snapshots
  <2>8. EffectsInv' /\ EffectsComplete'
    BY <1>1, <2>2, <2>3, <2>4 DEF ReadsInv, EffectsInv, EffectsComplete
  <2>9. TerminalIsLatest' /\ GoneInv'
    BY <1>1, <2>1, <2>2, <2>3, <2>4, <2>5 DEF ReadsInv, EffectsInv, TerminalIsLatest, GoneInv
  <2> QED
    BY <2>4, <2>6, <2>7, <2>8, <2>9 DEF ReadsInv
<1> QED
  BY <1>2, <1>3

-----------------------------------------------------------------------------
\* The theorems.

\* The invariant of the reads holds in every reachable state.
THEOREM ReadsInvariant == Spec => []ReadsInv
<1>1. Init => ReadsInv
  <2> SUFFICES ASSUME Init PROVE ReadsInv
    OBVIOUS
  <2>1. chain \in Chains /\ <<>> \in Seq(Kinds)
    BY EmptySeq DEF Init, Chains, Branches
  <2>2. /\ request \in Requests /\ request = Idle
        /\ request.pc = "idle" /\ request.before = NotChecked /\ request.ready.epoch = 0
        /\ request.snapshot.epoch = 0 /\ request.state = ""
    BY IdleFields DEF Init
  <2>3. history \in Histories /\ history.gone = ~tx /\ tx \in BOOLEAN
    BY <2>1 DEF Init, Fresh, Histories
  <2>4. /\ scanner \in [view : Chains, epoch : Nat \ {0}, complete : BOOLEAN, attested : BOOLEAN,
                        log : Seq(Kinds)]
        /\ scanner.epoch = 1
    BY <2>1 DEF Init
  <2>5. TypeOK
    BY <2>1, <2>2, <2>3, <2>4 DEF Init, TypeOK, Requests, Histories
  <2>6. ProgressInv
    <3>1. 0 <= scanner.epoch
      BY <2>4
    <3> QED
      BY <2>2, <3>1 DEF ProgressInv
  <2>7. SnapshotInv /\ EffectsInv /\ SnapshotIsReady /\ EffectsComplete
    BY <2>2 DEF SnapshotInv, EffectsInv, SnapshotIsReady, EffectsComplete
  <2>8. TerminalIsLatest /\ GoneInv
    BY <2>2, <2>3 DEF TerminalIsLatest, GoneInv, Terminal
  <2> QED
    BY <2>5, <2>6, <2>7, <2>8 DEF ReadsInv
<1>2. ReadsInv /\ [Next]_vars => ReadsInv'
  <2> SUFFICES ASSUME ReadsInv, [Next]_vars PROVE ReadsInv'
    OBVIOUS
  <2>1. CASE \E b \in Branches : Block(b)
    BY <2>1, BlockStep
  <2>2. CASE \E kind \in Kinds : Log(kind)
    BY <2>2, LogStep
  <2>3. CASE Index \/ Attest \/ Backfilled \/ Restart \/ TxMoves
    BY <2>3, IndexStep, AttestStep, RestartStep, TxMovesStep
  <2>4. CASE Start \/ ReadyTip \/ ReadyHealth \/ ReadyHash \/ ReadyWallets
    BY <2>4, StartStep, ReadyTipStep, ReadyHealthStep, ReadyHashStep, ReadyWalletsStep
  <2>5. CASE ReadSummary \/ ReadStatuses \/ ReadBalance
    <3>1. CASE ReadSummary \/ ReadStatuses
      BY <3>1, ReadsStep DEF ReadSummary, ReadStatuses, Snapshots
    <3>2. CASE ReadBalance
      BY <3>2, ReadsStep DEF ReadBalance
    <3> QED
      BY <2>5, <3>1, <3>2
  <2>6. CASE ReadyNode \/ WalletEffects \/ Lookup
    BY <2>6, ReadyNodeStep, WalletEffectsStep, LookupStep
  <2>7. CASE Unavailable \/ Finish
    BY <2>7, ForgetStep DEF Unavailable, Finish, Refused
  <2>8. CASE UNCHANGED vars
    <3>1. UNCHANGED <<chain, tx, scanner, ask, request, history>>
      BY <2>8 DEF vars
    <3>2. TypeOK' /\ ProgressInv' /\ GoneInv'
      <4>1. TypeOK'
        BY <3>1 DEF ReadsInv, TypeOK
      <4>2. ProgressInv'
        BY <3>1 DEF ReadsInv, ProgressInv
      <4>3. GoneInv'
        BY <3>1 DEF ReadsInv, GoneInv
      <4> QED
        BY <4>1, <4>2, <4>3
    <3>3. SnapshotInv' /\ EffectsInv'
      BY <3>1 DEF ReadsInv, SnapshotInv, StillReady, EffectsInv
    <3>4. SnapshotIsReady' /\ EffectsComplete' /\ TerminalIsLatest'
      BY <3>1 DEF ReadsInv, SnapshotIsReady, EffectsComplete, TerminalIsLatest
    <3> QED
      BY <3>2, <3>3, <3>4 DEF ReadsInv
  <2> QED
    BY <2>1, <2>2, <2>3, <2>4, <2>5, <2>6, <2>7, <2>8 DEF Next
<1> QED
  BY <1>1, <1>2, PTL DEF Spec

\* handleNoteSummary and handleNoteStatuses answer from the view they checked,
\* read from a scanner that was ready.
THEOREM SnapshotsAreReady == Spec => []SnapshotIsReady
<1>1. ReadsInv => SnapshotIsReady
  BY DEF ReadsInv
<1> QED
  BY <1>1, ReadsInvariant, PTL

\* walletEffects answers with a gapless beginning of one epoch's log that holds
\* everything the log held at the readiness check.
THEOREM EffectsAreComplete == Spec => []EffectsComplete
<1>1. ReadsInv => EffectsComplete
  BY DEF ReadsInv
<1> QED
  BY <1>1, ReadsInvariant, PTL

\* handleTransaction reports a terminal state only if it was the latest event and
\* the node has been without the transaction since.
THEOREM TerminalStateIsLatest == Spec => []TerminalIsLatest
<1>1. ReadsInv => TerminalIsLatest
  BY DEF ReadsInv
<1> QED
  BY <1>1, ReadsInvariant, PTL

-----------------------------------------------------------------------------
\* The amounts in an answer (Balance.ValidFor, WalletNoteSummary.ValidFor), for
\* integers of any width.

\* A whole number that fits the width is not changed by it.
LEMMA WrapExact ==
    ASSUME NEW n \in Int, -(MaxInt + 1) <= n, n <= MaxInt
    PROVE  Wrap(n) = n
<1>1. ASSUME NEW m \in Nat \ {0}, NEW k \in Nat, k < m
      PROVE  k % m = k
  BY <1>1
<1>2. MaxInt \in Nat
  BY WidthAssumption
<1> QED
  BY <1>1, <1>2 DEF Wrap

\* The test that is made before a product decides whether the product fits.
LEMMA DivBound ==
    ASSUME NEW M \in Nat, NEW c \in Nat \ {0}, NEW x \in Int
    PROVE  x <= M \div c <=> x * c <= M
<1> DEFINE q == M \div c
           r == M % c
<1>1. q \in Int /\ r \in Int /\ 0 <= r /\ r < c /\ M = c * q + r
  OBVIOUS
<1> HIDE DEF q, r
<1>2. CASE x <= q
  <2>1. x * c <= q * c
    BY <1>1, <1>2
  <2> QED
    BY <1>1, <1>2, <2>1 DEF q
<1>3. CASE x >= q + 1
  <2>1. x * c >= q * c + c
    BY <1>1, <1>3
  <2> QED
    BY <1>1, <1>3, <2>1 DEF q
<1> QED
  BY <1>1, <1>2, <1>3

\* THEOREM.  The parts of every balance that Balance.ValidFor accepts add up to its
\* total as whole numbers, although its sums are computed in integers that wrap.
THEOREM BalancesAddUp == \A b \in Balances : BalanceIsExact(b)
<1> SUFFICES ASSUME NEW b \in Balances, BalanceValid(b)
             PROVE  b.available + b.incoming + b.outgoing = b.total
  BY DEF BalanceIsExact
<1>1. MaxInt \in Nat /\ b.available \in Int /\ b.incoming \in Int /\ b.outgoing \in Int
      /\ b.total \in Int
  BY WidthAssumption DEF Amount, Balances
<1>2. Wrap(b.available + b.incoming) = b.available + b.incoming
  BY <1>1, WrapExact DEF BalanceValid
<1>3. Wrap(b.available + b.incoming + b.outgoing) = b.available + b.incoming + b.outgoing
  BY <1>1, <1>2, WrapExact DEF BalanceValid
<1> QED
  BY <1>2, <1>3 DEF BalanceValid

\* A running sum that has not wrapped.
Adds(sum) == sum.count \in 0 .. MaxInt /\ sum.value \in 0 .. MaxInt

\* A turn of the loop that is not refused adds its bucket as a whole number.
LEMMA BucketAdds ==
    ASSUME NEW sum, Adds(sum), NEW bucket, bucket.count \in Int, bucket.value \in Int,
           AddBucket(sum, bucket).ok
    PROVE  /\ sum.ok /\ Adds(AddBucket(sum, bucket))
           /\ AddBucket(sum, bucket).count = sum.count + bucket.count
           /\ AddBucket(sum, bucket).value = sum.value + bucket.value
           /\ bucket.count >= 0 /\ bucket.value >= 0
<1>1. MaxInt \in Nat /\ sum.count \in Nat /\ sum.value \in Nat
  BY WidthAssumption DEF Adds
<1>2. /\ sum.ok /\ bucket.count >= 0 /\ bucket.value >= 0
      /\ sum.count <= MaxInt - bucket.count /\ sum.value <= MaxInt - bucket.value
  BY DEF AddBucket
<1>3. /\ Wrap(sum.count + bucket.count) = sum.count + bucket.count
      /\ Wrap(sum.value + bucket.value) = sum.value + bucket.value
  BY <1>1, <1>2, WrapExact
<1>4. /\ AddBucket(sum, bucket).count = sum.count + bucket.count
      /\ AddBucket(sum, bucket).value = sum.value + bucket.value
  BY <1>3 DEF AddBucket
<1> QED
  BY <1>1, <1>2, <1>4 DEF Adds

\* The smallest and the largest spendable note bound the value of the bucket.
LEMMA SpendableFits ==
    ASSUME NEW count \in 1 .. MaxInt, NEW value \in 0 .. MaxInt,
           NEW smallest \in Amount \cup {None}, NEW largest \in Amount \cup {None}, NEW minNote \in Int,
           SpendableValid([count |-> count, value |-> value, smallest |-> smallest,
                           largest |-> largest], minNote)
    PROVE  count * smallest <= value /\ value <= count * largest
<1>1. /\ MaxInt \in Nat /\ count \in Nat \ {0} /\ value \in Nat /\ value <= MaxInt
      /\ None \notin Int
  BY WidthAssumption
<1>2. /\ smallest # None /\ largest # None /\ 0 < smallest /\ smallest <= largest
      /\ smallest <= MaxInt \div count /\ Wrap(smallest * count) <= value
      /\ largest <= MaxInt \div count => Wrap(largest * count) >= value
  BY <1>1 DEF SpendableValid
<1>3. smallest \in Nat /\ largest \in Nat
  BY <1>1, <1>2 DEF Amount
<1> DEFINE low == smallest * count
           high == largest * count
<1>4. low \in Nat /\ high \in Nat
  BY <1>1, <1>3
<1>5. low <= MaxInt
  BY <1>1, <1>2, <1>3, DivBound
<1>6. largest <= MaxInt \div count <=> high <= MaxInt
  BY <1>1, <1>3, DivBound
<1>7. low = count * smallest /\ high = count * largest
  BY <1>1, <1>3
<1>8. Wrap(low) <= value /\ (high <= MaxInt => Wrap(high) >= value)
  BY <1>2, <1>6
<1> HIDE DEF low, high
<1>9. low <= value /\ value <= high
  BY <1>1, <1>4, <1>5, <1>8, WrapExact
<1> QED
  BY <1>7, <1>9

\* Notes below the minimum are worth at most one less than it each.
LEMMA BelowFits ==
    ASSUME NEW count \in 0 .. MaxInt, NEW value \in 0 .. MaxInt, NEW minNote \in 0 .. MaxInt,
           BelowValid([count |-> count, value |-> value], minNote)
    PROVE  value <= count * Max({minNote - 1, 0})
<1>1. MaxInt \in Nat /\ count \in Nat /\ value \in Nat /\ value <= MaxInt /\ minNote \in Nat
  BY WidthAssumption
<1>2. minNote = 0 => Max({minNote - 1, 0}) = 0
  BY DEF Max
<1>3. minNote # 0 => Max({minNote - 1, 0}) = minNote - 1
  BY <1>1 DEF Max
<1>4. CASE count = 0 \/ minNote = 0 \/ minNote = 1
  <2>1. value = 0
    BY <1>4 DEF BelowValid
  <2>2. Max({minNote - 1, 0}) \in Nat
    BY <1>1, <1>2, <1>3
  <2> QED
    BY <1>1, <2>1, <2>2
<1>5. CASE ~(count = 0 \/ minNote = 0 \/ minNote = 1)
  <2> DEFINE per == minNote - 1
             most == count * per
  <2>1. per \in Nat \ {0} /\ most \in Nat
    BY <1>1, <1>5
  <2>2. count > MaxInt \div per \/ value <= Wrap(most)
    BY <1>5 DEF BelowValid
  <2>3. count <= MaxInt \div per <=> most <= MaxInt
    BY <1>1, <2>1, DivBound
  <2>4. MaxInt \div per \in Int
    BY <1>1, <2>1
  <2>5. Max({minNote - 1, 0}) = per
    BY <1>3, <1>5
  <2> HIDE DEF most
  <2>6. value <= most
    BY <1>1, <2>1, <2>2, <2>3, <2>4, WrapExact
  <2> QED
    BY <2>5, <2>6 DEF most
<1> QED
  BY <1>4, <1>5

\* THEOREM.  The buckets of every summary that WalletNoteSummary.ValidFor accepts add
\* up to its totals as whole numbers, its spendable notes are worth what their number
\* and their extremes allow, and the notes below the minimum are: no test is passed
\* because a sum or a product wrapped.
THEOREM SummariesAddUp ==
    \A s \in Summaries, minNote \in 0 .. MaxInt, maxNotes \in Nat :
        SummaryIsExact(s, minNote, maxNotes)
<1> SUFFICES ASSUME NEW s \in Summaries, NEW minNote \in 0 .. MaxInt, NEW maxNotes \in Nat,
                    SummaryValid(s, minNote, maxNotes)
             PROVE  SummaryIsExact(s, minNote, maxNotes)
  BY DEF SummaryIsExact
<1> DEFINE one == AddBucket(NoSum, s.spendable)
           two == AddBucket(one, s.immature)
           three == AddBucket(two, s.pending)
           four == AddBucket(three, s.below)
           five == AddBucket(four, s.unwitnessed)
<1>1. five.ok /\ five.count = s.total.count /\ five.value = s.total.value
      /\ SpendableValid(s.spendable, minNote) /\ BelowValid(s.below, minNote)
  BY DEF SummaryValid
<1>2. \A b \in {s.spendable, s.immature, s.pending, s.below, s.unwitnessed} :
         b.count \in Amount /\ b.value \in Amount
  BY DEF Summaries, Buckets
<1>3. \A b \in {s.spendable, s.immature, s.pending, s.below, s.unwitnessed} :
         b.count \in Int /\ b.value \in Int
  BY <1>2, WidthAssumption DEF Amount
<1>4. NoSum.count = 0 /\ NoSum.value = 0 /\ Adds(NoSum)
  BY WidthAssumption DEF NoSum, Adds
<1>5. four.ok /\ three.ok /\ two.ok /\ one.ok
  BY <1>1 DEF AddBucket
<1> HIDE DEF five
<1>6. /\ Adds(one) /\ one.count = s.spendable.count /\ one.value = s.spendable.value
      /\ s.spendable.count >= 0 /\ s.spendable.value >= 0
  BY <1>3, <1>4, <1>5, BucketAdds
<1> HIDE DEF one
<1>7. /\ Adds(two) /\ two.count = one.count + s.immature.count
      /\ two.value = one.value + s.immature.value
  BY <1>3, <1>5, <1>6, BucketAdds
<1> HIDE DEF two
<1>8. /\ Adds(three) /\ three.count = two.count + s.pending.count
      /\ three.value = two.value + s.pending.value
  BY <1>3, <1>5, <1>7, BucketAdds
<1> HIDE DEF three
<1>9. /\ Adds(four) /\ four.count = three.count + s.below.count
      /\ four.value = three.value + s.below.value
      /\ s.below.count >= 0 /\ s.below.value >= 0
  BY <1>3, <1>5, <1>8, BucketAdds
<1> HIDE DEF four
<1>10. /\ five.count = four.count + s.unwitnessed.count
       /\ five.value = four.value + s.unwitnessed.value
  BY <1>1, <1>3, <1>9, BucketAdds DEF five
<1>11. ASSUME s.spendable.count > 0
       PROVE  /\ s.spendable.count * s.spendable.smallest <= s.spendable.value
              /\ s.spendable.value <= s.spendable.count * s.spendable.largest
  <2>1. /\ s.spendable.count \in 1 .. MaxInt /\ s.spendable.value \in 0 .. MaxInt
        /\ s.spendable.smallest \in Amount \cup {None}
        /\ s.spendable.largest \in Amount \cup {None}
        /\ minNote \in Int
    BY <1>2, <1>6, <1>11 DEF Amount, Summaries
  <2>2. s.spendable = [count |-> s.spendable.count, value |-> s.spendable.value,
                       smallest |-> s.spendable.smallest, largest |-> s.spendable.largest]
    BY DEF Summaries
  <2> QED
    BY <1>1, <2>1, <2>2, SpendableFits
<1>12. s.below.value <= s.below.count * Max({minNote - 1, 0})
  <2>1. s.below.count \in 0 .. MaxInt /\ s.below.value \in 0 .. MaxInt
    BY <1>2, <1>9 DEF Amount
  <2>2. s.below = [count |-> s.below.count, value |-> s.below.value]
    BY DEF Summaries, Buckets
  <2> QED
    BY <1>1, <2>1, <2>2, BelowFits
<1> QED
  BY <1>1, <1>3, <1>6, <1>7, <1>8, <1>9, <1>10, <1>11, <1>12 DEF SummaryIsExact

-----------------------------------------------------------------------------
\* The summaries of an honest scanner, note by note.

\* One more note, which is worth no less than the smallest and no more than the
\* largest, keeps a bucket between its extremes.
LEMMA OneMore ==
    ASSUME NEW c \in Nat, NEW v \in Nat, NEW x \in Nat, NEW low \in Nat, NEW newLow \in Nat,
           NEW high \in Nat, NEW newHigh \in Nat, c * low <= v, v <= c * high,
           newLow <= low, newLow <= x, high <= newHigh, x <= newHigh
    PROVE  (c + 1) * newLow <= v + x /\ v + x <= (c + 1) * newHigh
<1>1. c * newLow <= c * low /\ c * high <= c * newHigh
  OBVIOUS
<1>2. /\ (c + 1) * newLow = c * newLow + newLow /\ (c + 1) * newHigh = c * newHigh + newHigh
      /\ c * newLow \in Nat /\ c * newHigh \in Nat /\ c * low \in Nat /\ c * high \in Nat
  OBVIOUS
<1> QED
  BY <1>1, <1>2

\* The constants, each in its set.
LEMMA WidthConstants ==
    /\ MaxInt \in Nat \ {0} /\ None \notin Int /\ MaxNotes \in Nat /\ MaxNotes <= MaxInt
    /\ Horizon \in Nat /\ MinNotes \subseteq 0 .. MaxInt
  BY WidthAssumption

\* The larger of a number and a bound.
LEMMA MaxOfTwo ==
    ASSUME NEW a \in Int, NEW b \in Int
    PROVE  Max({a, b}) = IF a >= b THEN a ELSE b
  BY DEF Max

\* A summary with a new total and one new bucket.
LEMMA NewBucket ==
    ASSUME NEW a, a = [f \in NoteFields |-> a[f]], NEW g \in NoteFields \ {"total"},
           NEW T, NEW B, NEW n, n = [a EXCEPT !["total"] = T, ![g] = B]
    PROVE  /\ n = [f \in NoteFields |-> n[f]]
           /\ n["total"] = T /\ n[g] = B
           /\ \A f \in NoteFields \ {"total", g} : n[f] = a[f]
<1>1. "total" \in NoteFields
  BY DEF NoteFields, NoNotes
<1> QED
  BY <1>1

\* The fields of a summary.
LEMMA NoteFieldsAre ==
    NoteFields = {"kind", "minNote", "height", "total", "spendable", "immature", "pending",
                  "below", "unwitnessed"}
  BY DEF NoteFields, NoNotes

\* What a note changes besides its own bucket.
LEMMA RoomForOne ==
    ASSUME HonestInv(answer), NEW value \in 0 .. MaxInt, Room(value), NEW g \in
               {"spendable", "immature", "pending", "below", "unwitnessed"}, NEW B,
           answer' = [answer EXCEPT !["total"] = NextTotal(value), ![g] = B],
           B.count = answer[g].count + 1, B.value = answer[g].value + value
    PROVE  /\ answer'.kind = "notes" /\ answer'.minNote = answer.minNote
           /\ answer'.height = answer.height
           /\ answer' = [f \in NoteFields |-> answer'[f]]
           /\ TotalsInv(answer')
           /\ answer'[g] = B
           /\ \A f \in {"spendable", "immature", "pending", "below", "unwitnessed"} \ {g} :
                 answer'[f] = answer[f]
<1> USE NoteFieldsAre
<1>1. /\ answer' = [f \in NoteFields |-> answer'[f]]
      /\ answer'["total"] = NextTotal(value) /\ answer'[g] = B
      /\ \A f \in NoteFields \ {"total", g} : answer'[f] = answer[f]
  BY NewBucket DEF HonestInv
<1>2. answer'.kind = "notes" /\ answer'.minNote = answer.minNote /\ answer'.height = answer.height
  BY <1>1 DEF HonestInv
<1>3. \A f \in {"spendable", "immature", "pending", "below", "unwitnessed"} \ {g} :
         answer'[f] = answer[f]
  BY <1>1
<1>4. TotalsInv(answer) /\ value \in Nat /\ answer.total.count < MaxNotes
      /\ answer.total.value + value <= MaxInt
  BY DEF HonestInv, Room
<1>5. answer'.total.count = answer.total.count + 1 /\ answer'.total.value = answer.total.value + value
  BY <1>1 DEF NextTotal, Bucket
<1> DEFINE C(f) == answer[f].count
           V(f) == answer[f].value
           D(f) == answer'[f].count
           W(f) == answer'[f].value
<1>6. \A f \in {"spendable", "immature", "pending", "below", "unwitnessed"} :
         /\ C(f) \in Nat /\ V(f) \in Nat /\ (C(f) = 0 => V(f) = 0)
         /\ D(f) = (IF f = g THEN C(f) + 1 ELSE C(f))
         /\ W(f) = (IF f = g THEN V(f) + value ELSE V(f))
  <2> SUFFICES ASSUME NEW f \in {"spendable", "immature", "pending", "below", "unwitnessed"}
               PROVE  /\ C(f) \in Nat /\ V(f) \in Nat /\ (C(f) = 0 => V(f) = 0)
                      /\ D(f) = (IF f = g THEN C(f) + 1 ELSE C(f))
                      /\ W(f) = (IF f = g THEN V(f) + value ELSE V(f))
    OBVIOUS
  <2>1. answer[f].count \in Nat /\ answer[f].value \in Nat
        /\ (answer[f].count = 0 => answer[f].value = 0)
    BY <1>4 DEF TotalsInv
  <2>2. ASSUME f = g
        PROVE  D(f) = (IF f = g THEN C(f) + 1 ELSE C(f))
               /\ W(f) = (IF f = g THEN V(f) + value ELSE V(f))
    <3>1. D(f) = C(f) + 1 /\ W(f) = V(f) + value
      BY <1>1, <2>2
    <3> HIDE DEF C, D, V, W
    <3> QED
      BY <2>2, <3>1
  <2>3. ASSUME f # g
        PROVE  D(f) = (IF f = g THEN C(f) + 1 ELSE C(f))
               /\ W(f) = (IF f = g THEN V(f) + value ELSE V(f))
    <3>1. D(f) = C(f) /\ W(f) = V(f)
      BY <1>3, <2>3
    <3> HIDE DEF C, D, V, W
    <3> QED
      BY <2>3, <3>1
  <2>4. C(f) \in Nat /\ V(f) \in Nat /\ (C(f) = 0 => V(f) = 0)
    BY <2>1
  <2> HIDE DEF C, D, V, W
  <2> QED
    BY <2>2, <2>3, <2>4
<1>7. /\ answer.total.count = C("spendable") + C("immature") + C("pending")
                                + C("below") + C("unwitnessed")
      /\ answer.total.value = V("spendable") + V("immature") + V("pending")
                                + V("below") + V("unwitnessed")
  BY <1>4 DEF TotalsInv
<1> HIDE DEF C, V, D, W
<1>8. \A f \in {"spendable", "immature", "pending", "below", "unwitnessed"} :
         D(f) \in Nat /\ W(f) \in Nat /\ (D(f) = 0 => W(f) = 0)
  BY <1>4, <1>6
<1>9. answer'.total.count = D("spendable") + D("immature") + D("pending")
                              + D("below") + D("unwitnessed")
  BY <1>5, <1>6, <1>7
<1>10. answer'.total.value = V("spendable") + V("immature") + V("pending")
                               + V("below") + V("unwitnessed") + value
  BY <1>4, <1>5, <1>6, <1>7
<1>11. answer'.total.value = W("spendable") + W("immature") + W("pending")
                               + W("below") + W("unwitnessed")
  BY <1>4, <1>6, <1>10
<1>12. answer'.total.count <= MaxNotes /\ answer'.total.value <= MaxInt
  <2>1. answer.total.count \in Nat
    BY <1>6, <1>7
  <2> QED
    BY <1>4, <1>5, <2>1, WidthConstants
<1>13. TotalsInv(answer')
  BY <1>8, <1>9, <1>11, <1>12 DEF TotalsInv, D, W
<1> QED
  BY <1>1, <1>2, <1>3, <1>13

\* A spendable note stays between the smallest and the largest.
LEMMA SpendableKept ==
    ASSUME HonestInv(answer), NEW value \in 0 .. MaxInt, AddSpendable(value)
    PROVE  HonestInv(answer')
<1> DEFINE b == answer.spendable
           B == [count |-> b.count + 1, value |-> b.value + value,
                 smallest |-> Lower(b.smallest, value), largest |-> Higher(b.largest, value)]
<1>1. Room(value) /\ value >= Max({answer.minNote, 1})
      /\ answer' = [answer EXCEPT !["total"] = NextTotal(value), !["spendable"] = B]
  BY DEF AddSpendable
<1>2. B.count = b.count + 1 /\ B.value = b.value + value
  OBVIOUS
<1>3. /\ answer'.kind = "notes" /\ answer'.minNote = answer.minNote
      /\ answer'.height = answer.height /\ answer' = [f \in NoteFields |-> answer'[f]]
      /\ TotalsInv(answer') /\ answer'.spendable = B /\ answer'.pending = answer.pending
      /\ answer'.below = answer.below
  BY <1>1, <1>2, RoomForOne
<1>4. answer.minNote \in Nat /\ value \in Nat /\ value >= answer.minNote /\ value >= 1
  <2>1. answer.minNote \in Nat /\ value \in Nat
    BY WidthConstants DEF HonestInv
  <2>2. Max({answer.minNote, 1}) = IF answer.minNote >= 1 THEN answer.minNote ELSE 1
    BY <2>1, MaxOfTwo
  <2> QED
    BY <1>1, <2>1, <2>2
<1>5. b.count \in Nat /\ b.value \in Nat /\ (b.count = 0 => b.value = 0)
      /\ SpendableInv(b, answer.minNote)
  BY DEF HonestInv, TotalsInv
<1>6. SpendableInv(B, answer.minNote)
  <2>1. CASE b.count = 0
    <3>1. B = [count |-> 1, value |-> value, smallest |-> value, largest |-> value]
      BY <1>4, <1>5, <2>1 DEF SpendableInv, Lower, Higher
    <3> QED
      BY <1>4, <3>1 DEF SpendableInv
  <2>2. CASE b.count # 0
    <3>1. /\ b.smallest \in Nat \ {0} /\ b.largest \in Nat
          /\ answer.minNote <= b.smallest /\ b.smallest <= b.largest /\ b.largest <= b.value
          /\ b.count * b.smallest <= b.value /\ b.value <= b.count * b.largest
      BY <1>5, <2>2 DEF SpendableInv
    <3>2. b.smallest # None /\ b.largest # None
      BY <3>1, WidthConstants
    <3>3. B.smallest = (IF value < b.smallest THEN value ELSE b.smallest)
          /\ B.largest = (IF value > b.largest THEN value ELSE b.largest)
      BY <3>2 DEF Lower, Higher
    <3> HIDE DEF B, b
    <3>4. /\ B.smallest \in Nat \ {0} /\ B.largest \in Nat /\ B.smallest <= b.smallest
          /\ B.smallest <= value /\ b.largest <= B.largest /\ value <= B.largest
          /\ answer.minNote <= B.smallest /\ B.smallest <= B.largest /\ B.largest <= b.value + value
      BY <1>4, <1>5, <3>1, <3>3
    <3>5. /\ (b.count + 1) * B.smallest <= b.value + value
          /\ b.value + value <= (b.count + 1) * B.largest
      BY <1>4, <1>5, <3>1, <3>4, OneMore
    <3> QED
      BY <1>2, <1>5, <3>4, <3>5 DEF SpendableInv
  <2> QED
    BY <2>1, <2>2
<1> QED
  BY <1>3, <1>6 DEF HonestInv

\* A note below the minimum is worth at most one less than it.
LEMMA BelowKept ==
    ASSUME HonestInv(answer), NEW value \in 0 .. MaxInt, AddBelow(value)
    PROVE  HonestInv(answer')
<1> DEFINE b == answer.below
           B == Bucket(b.count + 1, b.value + value)
           most == Max({answer.minNote - 1, 0})
<1>1. Room(value) /\ value < Max({answer.minNote, 1})
      /\ answer' = [answer EXCEPT !["total"] = NextTotal(value), !["below"] = B]
  BY DEF AddBelow
<1>2. B.count = b.count + 1 /\ B.value = b.value + value
  BY DEF Bucket
<1>3. /\ answer'.kind = "notes" /\ answer'.minNote = answer.minNote
      /\ answer'.height = answer.height /\ answer' = [f \in NoteFields |-> answer'[f]]
      /\ TotalsInv(answer') /\ answer'.below = B /\ answer'.pending = answer.pending
      /\ answer'.spendable = answer.spendable
  BY <1>1, <1>2, RoomForOne
<1>4. answer.minNote \in Nat /\ value \in Nat /\ most \in Nat /\ value <= most
  <2>1. answer.minNote \in Nat /\ value \in Nat /\ answer.minNote - 1 \in Int
    BY WidthConstants DEF HonestInv
  <2>2. Max({answer.minNote, 1}) = IF answer.minNote >= 1 THEN answer.minNote ELSE 1
    BY <2>1, MaxOfTwo
  <2>3. most = IF answer.minNote - 1 >= 0 THEN answer.minNote - 1 ELSE 0
    BY <2>1, MaxOfTwo
  <2> HIDE DEF most
  <2> QED
    BY <1>1, <2>1, <2>2, <2>3
<1>5. b.count \in Nat /\ b.value \in Nat /\ b.value <= b.count * most
  BY DEF HonestInv, TotalsInv, BelowInv
<1> HIDE DEF B, b, most
<1>6. b.value + value <= (b.count + 1) * most
  <2>1. (b.count + 1) * most = b.count * most + most /\ b.count * most \in Nat
    BY <1>4, <1>5
  <2> QED
    BY <1>4, <1>5, <2>1
<1>7. BelowInv(B, answer.minNote)
  BY <1>2, <1>6 DEF BelowInv, most
<1> QED
  BY <1>3, <1>7 DEF HonestInv, B, b

\* An immature note and one without a witness only count.
LEMMA ImmatureKept ==
    ASSUME HonestInv(answer), NEW value \in 0 .. MaxInt,
           AddImmature(value) \/ AddUnwitnessed(value)
    PROVE  HonestInv(answer')
<1>1. ASSUME NEW g \in {"immature", "unwitnessed"}, Room(value),
             answer' = [answer EXCEPT !["total"] = NextTotal(value),
                         ![g] = Bucket(answer[g].count + 1, answer[g].value + value)]
      PROVE  HonestInv(answer')
  <2> DEFINE B == Bucket(answer[g].count + 1, answer[g].value + value)
  <2>1. B.count = answer[g].count + 1 /\ B.value = answer[g].value + value
    BY DEF Bucket
  <2> HIDE DEF B
  <2>2. /\ answer'.kind = "notes" /\ answer'.minNote = answer.minNote
        /\ answer'.height = answer.height /\ answer' = [f \in NoteFields |-> answer'[f]]
        /\ TotalsInv(answer') /\ answer'.below = answer.below /\ answer'.pending = answer.pending
        /\ answer'.spendable = answer.spendable
    BY <1>1, <2>1, RoomForOne DEF B
  <2> QED
    BY <2>2 DEF HonestInv
<1>2. CASE AddImmature(value)
  BY <1>1, <1>2 DEF AddImmature
<1>3. CASE AddUnwitnessed(value)
  BY <1>1, <1>3 DEF AddUnwitnessed
<1> QED
  BY <1>2, <1>3

\* A pending spend may be known to expire.
LEMMA PendingKept ==
    ASSUME HonestInv(answer), NEW value \in 0 .. MaxInt, NEW expiry \in 0 .. Horizon \cup {None},
           AddPending(value, expiry)
    PROVE  HonestInv(answer')
<1> DEFINE b == answer.pending
           B == [count |-> b.count + 1, value |-> b.value + value,
                 known |-> IF expiry # None THEN b.known + 1 ELSE b.known,
                 next |-> IF expiry # None THEN Lower(b.next, expiry) ELSE b.next,
                 last |-> IF expiry # None THEN Higher(b.last, expiry) ELSE b.last]
<1>1. Room(value) /\ (expiry # None => expiry >= answer.height)
      /\ answer' = [answer EXCEPT !["total"] = NextTotal(value), !["pending"] = B]
  BY DEF AddPending
<1>2. B.count = b.count + 1 /\ B.value = b.value + value
  OBVIOUS
<1> HIDE DEF B
<1>3. /\ answer'.kind = "notes" /\ answer'.minNote = answer.minNote
      /\ answer'.height = answer.height /\ answer' = [f \in NoteFields |-> answer'[f]]
      /\ TotalsInv(answer') /\ answer'.pending = B /\ answer'.below = answer.below
      /\ answer'.spendable = answer.spendable
  BY <1>1, <1>2, RoomForOne
<1>4. b.count \in Nat /\ PendingInv(b, answer.height) /\ answer.height \in Nat
  BY DEF HonestInv, TotalsInv
<1>5. PendingInv(B, answer.height)
  <2>1. CASE expiry = None
    <3>1. B.known = b.known /\ B.next = b.next /\ B.last = b.last
      BY <2>1 DEF B
    <3> QED
      BY <1>2, <1>4, <3>1 DEF PendingInv
  <2>2. CASE expiry # None
    <3>1. expiry \in Int /\ expiry >= answer.height
      BY <1>1, <2>2, WidthConstants
    <3>2. B.known = b.known + 1 /\ B.next = Lower(b.next, expiry) /\ B.last = Higher(b.last, expiry)
      BY <2>2 DEF B
    <3>3. b.known \in Nat /\ B.known \in 0 .. B.count /\ B.known # 0
      BY <1>2, <1>4, <3>2 DEF PendingInv
    <3>4. \/ b.next = None /\ b.last = None
          \/ /\ b.next \in Int /\ b.last \in Int
             /\ answer.height <= b.next /\ b.next <= b.last
      BY <1>4 DEF PendingInv
    <3>5. B.next \in Int /\ B.last \in Int /\ answer.height <= B.next /\ B.next <= B.last
      <4>1. CASE b.next = None /\ b.last = None
        BY <1>4, <3>1, <3>2, <4>1 DEF Lower, Higher
      <4>2. CASE /\ b.next \in Int /\ b.last \in Int
                 /\ answer.height <= b.next /\ b.next <= b.last
        BY <1>4, <3>1, <3>2, <4>2, WidthConstants DEF Lower, Higher
      <4> QED
        BY <3>4, <4>1, <4>2
    <3> QED
      BY <3>3, <3>5 DEF PendingInv
  <2> QED
    BY <2>1, <2>2
<1> QED
  BY <1>3, <1>5 DEF HonestInv

\* A bucket that fits is added.
LEMMA BucketFits ==
    ASSUME NEW sum, Adds(sum), sum.ok, NEW bucket, bucket.count \in Nat, bucket.value \in Nat,
           bucket.count = 0 => bucket.value = 0,
           sum.count + bucket.count <= MaxInt, sum.value + bucket.value <= MaxInt
    PROVE  /\ AddBucket(sum, bucket).ok /\ Adds(AddBucket(sum, bucket))
           /\ AddBucket(sum, bucket).count = sum.count + bucket.count
           /\ AddBucket(sum, bucket).value = sum.value + bucket.value
<1>1. sum.count \in Nat /\ sum.value \in Nat
  BY WidthConstants DEF Adds
<1>2. sum.count <= MaxInt - bucket.count /\ sum.value <= MaxInt - bucket.value
  BY <1>1, WidthConstants
<1>3. AddBucket(sum, bucket).ok
  BY <1>2 DEF AddBucket
<1>4. bucket.count \in Int /\ bucket.value \in Int
  OBVIOUS
<1> QED
  BY <1>3, <1>4, BucketAdds

\* The tests on the spendable bucket refuse no notes that are there.
LEMMA SpendableAccepted ==
    ASSUME NEW b, NEW minNote \in Nat, b.count \in Nat, b.count <= MaxInt, b.value \in Nat,
           b.value <= MaxInt, SpendableInv(b, minNote)
    PROVE  SpendableValid(b, minNote)
<1>1. CASE b.count = 0
  BY <1>1 DEF SpendableInv, SpendableValid
<1>2. CASE b.count # 0
  <2> DEFINE low == b.smallest * b.count
             high == b.largest * b.count
  <2>1. /\ b.smallest \in Nat \ {0} /\ b.largest \in Nat
        /\ minNote <= b.smallest /\ b.smallest <= b.largest /\ b.largest <= b.value
        /\ b.count * b.smallest <= b.value /\ b.value <= b.count * b.largest
    BY <1>2 DEF SpendableInv
  <2>2. low \in Nat /\ high \in Nat /\ low = b.count * b.smallest /\ high = b.count * b.largest
    BY <2>1
  <2>3. /\ b.smallest <= MaxInt \div b.count <=> low <= MaxInt
        /\ b.largest <= MaxInt \div b.count <=> high <= MaxInt
    BY <1>2, <2>1, WidthConstants, DivBound
  <2>4. b.smallest # None /\ b.largest # None
    BY <2>1, WidthConstants
  <2> HIDE DEF low, high
  <2>5. low <= b.value /\ b.value <= high /\ low <= MaxInt
    BY <2>1, <2>2, WidthConstants
  <2>6. Wrap(low) <= b.value /\ b.smallest <= MaxInt \div b.count
    BY <2>2, <2>3, <2>5, WidthConstants, WrapExact
  <2>7. b.largest <= MaxInt \div b.count => Wrap(high) >= b.value
    BY <2>2, <2>3, <2>5, WidthConstants, WrapExact
  <2>8. b.smallest > 0 /\ b.smallest >= minNote
    BY <2>1
  <2> QED
    BY <1>2, <2>1, <2>4, <2>6, <2>7, <2>8 DEF SpendableValid, low, high
<1> QED
  BY <1>1, <1>2

\* Nor do the tests on the notes below the minimum.
LEMMA BelowAccepted ==
    ASSUME NEW b, NEW minNote \in Nat, b.count \in Nat, b.count <= MaxInt, b.value \in Nat,
           b.value <= MaxInt, b.count = 0 => b.value = 0, BelowInv(b, minNote)
    PROVE  BelowValid(b, minNote)
<1>1. Max({minNote - 1, 0}) = IF minNote - 1 >= 0 THEN minNote - 1 ELSE 0
  BY MaxOfTwo
<1>2. CASE b.count = 0
  BY <1>2 DEF BelowValid
<1>3. CASE minNote = 0 \/ minNote = 1
  <2>1. Max({minNote - 1, 0}) = 0
    BY <1>1, <1>3
  <2>2. b.value <= b.count * 0
    BY <2>1 DEF BelowInv
  <2>3. b.value = 0
    BY <2>2
  <2> QED
    BY <1>3, <2>3 DEF BelowValid
<1>4. CASE b.count # 0 /\ minNote # 0 /\ minNote # 1
  <2> DEFINE per == minNote - 1
             most == b.count * per
  <2>1. per \in Nat \ {0} /\ most \in Nat /\ b.value <= most
    BY <1>1, <1>4 DEF BelowInv
  <2>2. b.count <= MaxInt \div per <=> most <= MaxInt
    <3>1. MaxInt \in Nat /\ per \in Nat \ {0} /\ b.count \in Int
      BY <2>1, WidthConstants
    <3> HIDE DEF per
    <3> QED
      BY <3>1, DivBound
  <2>3. MaxInt \div per \in Int
    BY <2>1, WidthConstants
  <2> HIDE DEF most, per
  <2>4. b.count > MaxInt \div per \/ b.value <= Wrap(most)
    BY <2>1, <2>2, <2>3, WidthConstants, WrapExact
  <2> QED
    BY <1>4, <2>4 DEF BelowValid, per, most
<1> QED
  BY <1>2, <1>3, <1>4

\* The summary of the notes of a wallet is accepted.
LEMMA HonestAccepted ==
    ASSUME NEW s, HonestInv(s)
    PROVE  SummaryValid(s, s.minNote, MaxNotes)
<1> DEFINE one == AddBucket(NoSum, s.spendable)
           two == AddBucket(one, s.immature)
           three == AddBucket(two, s.pending)
           four == AddBucket(three, s.below)
           five == AddBucket(four, s.unwitnessed)
<1>1. /\ \A b \in {s.spendable, s.immature, s.pending, s.below, s.unwitnessed} :
            b.count \in Nat /\ b.value \in Nat /\ (b.count = 0 => b.value = 0)
      /\ s.total.count = s.spendable.count + s.immature.count + s.pending.count
                            + s.below.count + s.unwitnessed.count
      /\ s.total.value = s.spendable.value + s.immature.value + s.pending.value
                            + s.below.value + s.unwitnessed.value
      /\ s.total.count <= MaxNotes /\ s.total.value <= MaxInt /\ s.minNote \in Nat
      /\ s.total.count <= MaxInt
  <2>1. TotalsInv(s) /\ s.minNote \in Nat
    BY WidthConstants DEF HonestInv
  <2>2. s.total.count \in Nat
    BY <2>1 DEF TotalsInv
  <2> QED
    BY <2>1, <2>2, WidthConstants DEF TotalsInv
<1>2. NoSum.count = 0 /\ NoSum.value = 0 /\ NoSum.ok /\ Adds(NoSum)
  BY WidthConstants DEF NoSum, Adds
<1>3. /\ one.ok /\ Adds(one) /\ one.count = s.spendable.count /\ one.value = s.spendable.value
  <2>1. NoSum.count + s.spendable.count <= MaxInt /\ NoSum.value + s.spendable.value <= MaxInt
    BY <1>1, <1>2, WidthConstants
  <2> QED
    BY <1>1, <1>2, <2>1, BucketFits
<1> HIDE DEF one
<1>4. /\ two.ok /\ Adds(two) /\ two.count = one.count + s.immature.count
      /\ two.value = one.value + s.immature.value
  <2>1. one.count + s.immature.count <= MaxInt /\ one.value + s.immature.value <= MaxInt
    BY <1>1, <1>3, WidthConstants
  <2> QED
    BY <1>1, <1>3, <2>1, BucketFits
<1> HIDE DEF two
<1>5. /\ three.ok /\ Adds(three) /\ three.count = two.count + s.pending.count
      /\ three.value = two.value + s.pending.value
  <2>1. two.count + s.pending.count <= MaxInt /\ two.value + s.pending.value <= MaxInt
    BY <1>1, <1>3, <1>4, WidthConstants
  <2> QED
    BY <1>1, <1>4, <2>1, BucketFits
<1> HIDE DEF three
<1>6. /\ four.ok /\ Adds(four) /\ four.count = three.count + s.below.count
      /\ four.value = three.value + s.below.value
  <2>1. three.count + s.below.count <= MaxInt /\ three.value + s.below.value <= MaxInt
    BY <1>1, <1>3, <1>4, <1>5, WidthConstants
  <2> QED
    BY <1>1, <1>5, <2>1, BucketFits
<1> HIDE DEF four
<1>7. /\ five.ok /\ five.count = four.count + s.unwitnessed.count
      /\ five.value = four.value + s.unwitnessed.value
  <2>1. four.count + s.unwitnessed.count <= MaxInt /\ four.value + s.unwitnessed.value <= MaxInt
    BY <1>1, <1>3, <1>4, <1>5, <1>6, WidthConstants
  <2> QED
    BY <1>1, <1>6, <2>1, BucketFits
<1> HIDE DEF five
<1>8. five.count = s.total.count /\ five.value = s.total.value
      /\ s.total.count >= 0 /\ s.total.value >= 0
  BY <1>1, <1>3, <1>4, <1>5, <1>6, <1>7
<1>9. /\ s.spendable.count <= MaxInt /\ s.spendable.value <= MaxInt
      /\ s.below.count <= MaxInt /\ s.below.value <= MaxInt
  BY <1>1, WidthConstants
<1>10. SpendableValid(s.spendable, s.minNote)
  BY <1>1, <1>9, SpendableAccepted DEF HonestInv
<1>11. BelowValid(s.below, s.minNote)
  BY <1>1, <1>9, BelowAccepted DEF HonestInv
<1>12. PendingValid(s.pending, s.height)
  <2>1. PendingInv(s.pending, s.height) /\ s.height \in Nat /\ s.pending.count \in Nat
    BY <1>1 DEF HonestInv
  <2> QED
    BY <2>1, WidthConstants DEF PendingInv, PendingValid
<1>13. s.height >= 0 /\ MaxNotes >= 1
  <2>1. s.height \in Nat
    BY DEF HonestInv
  <2>2. MaxNotes \in 1 .. MaxInt
    BY WidthAssumption
  <2> QED
    BY <2>1, <2>2
<1> QED
  BY <1>1, <1>7, <1>8, <1>10, <1>11, <1>12, <1>13
     DEF SummaryValid, one, two, three, four, five

\* The invariant holds, and implies what the checks are for.
LEMMA AmountsStep == AmountsInv /\ [AmountsNext]_answer => AmountsInv'
<1> SUFFICES ASSUME AmountsInv, [AmountsNext]_answer PROVE AmountsInv'
  OBVIOUS
<1>1. CASE Receive
  BY <1>1, WidthAssumption DEF Receive, AmountsInv
<1>2. CASE SumUp
  <2>1. PICK minNote \in MinNotes, height \in 0 .. Horizon : answer' = NoNotes(minNote, height)
    BY <1>2 DEF SumUp
  <2>2. HonestInv(answer')
    <3> DEFINE s == NoNotes(minNote, height)
    <3>1. s = [f \in NoteFields |-> s[f]]
      BY NoteFieldsAre DEF NoNotes
    <3>2. minNote \in 0 .. MaxInt /\ minNote \in Nat /\ height \in Nat
      BY WidthConstants
    <3>3. TotalsInv(s)
      BY WidthConstants DEF TotalsInv, NoNotes, Nothing, Bucket
    <3>4. SpendableInv(s.spendable, minNote) /\ PendingInv(s.pending, height)
      BY DEF SpendableInv, PendingInv, NoNotes
    <3>5. BelowInv(s.below, minNote)
      <4>1. Max({minNote - 1, 0}) \in Int
        BY <3>2, MaxOfTwo
      <4> QED
        BY <4>1 DEF BelowInv, NoNotes, Nothing, Bucket
    <3>6. s.kind = "notes" /\ s.minNote = minNote /\ s.height = height
      BY DEF NoNotes
    <3> HIDE DEF s
    <3> QED
      BY <2>1, <3>1, <3>2, <3>3, <3>4, <3>5, <3>6 DEF HonestInv, s
  <2> QED
    BY <2>2 DEF AmountsInv
<1>3. CASE AddNote
  <2>1. answer.kind = "notes"
    BY <1>3 DEF AddNote, AddSpendable, AddBelow, AddImmature, AddUnwitnessed, AddPending, Room
  <2>2. HonestInv(answer)
    BY <2>1 DEF AmountsInv, Balances, Summaries
  <2>3. PICK value \in 0 .. MaxInt :
           \/ AddSpendable(value) \/ AddBelow(value) \/ AddImmature(value) \/ AddUnwitnessed(value)
           \/ \E expiry \in 0 .. Horizon \cup {None} : AddPending(value, expiry)
    BY <1>3 DEF AddNote
  <2>4. HonestInv(answer')
    BY <2>2, <2>3, SpendableKept, BelowKept, ImmatureKept, PendingKept
  <2> QED
    BY <2>4 DEF AmountsInv
<1>4. CASE UNCHANGED answer
  BY <1>4 DEF AmountsInv
<1> QED
  BY <1>1, <1>2, <1>3, <1>4 DEF AmountsNext

\* THEOREM.  Balance.ValidFor and WalletNoteSummary.ValidFor accept nothing that does
\* not add up, and refuse no summary that an honest scanner makes of its notes, one
\* by one, for every width of the integers and every number of notes.
THEOREM AmountsExact == AmountsSpec => []AmountsAreExact
<1>1. AmountsInit => AmountsInv
  BY DEF AmountsInit, AmountsInv
<1>2. AmountsInv => AmountsAreExact
  <2> SUFFICES ASSUME AmountsInv PROVE AmountsAreExact
    OBVIOUS
  <2>1. ASSUME answer.kind = "balance" PROVE BalanceIsExact(answer)
    <3>1. answer \in Balances
      BY <2>1 DEF AmountsInv, HonestInv, Summaries
    <3> QED
      BY <3>1, BalancesAddUp
  <2>2. ASSUME answer.kind = "summary" PROVE SummaryIsExact(answer, answer.minNote, MaxNotes)
    <3>1. answer \in Summaries
      BY <2>2 DEF AmountsInv, HonestInv, Balances
    <3>2. answer.minNote \in 0 .. MaxInt
      BY <3>1 DEF Summaries
    <3> QED
      BY <3>1, <3>2, WidthConstants, SummariesAddUp
  <2>3. ASSUME answer.kind = "notes" PROVE SummaryValid(answer, answer.minNote, MaxNotes)
    <3>1. HonestInv(answer)
      BY <2>3 DEF AmountsInv, Balances, Summaries
    <3> QED
      BY <3>1, HonestAccepted
  <2> QED
    BY <2>1, <2>2, <2>3 DEF AmountsAreExact
<1> QED
  BY <1>1, <1>2, AmountsStep, PTL DEF AmountsSpec

-----------------------------------------------------------------------------
\* The token buckets in front of the servers (limiter.allow,
\* coordinatorLimiter.allow), for every rate, burst and skew.

\* What a time earns adds up and grows with it.
LEMMA EarnAdds ==
    ASSUME NEW r \in Nat, NEW x \in Int, NEW y \in Int
    PROVE  /\ x * r \in Int /\ (x + y) * r = x * r + y * r /\ (x - y) * r = x * r - y * r
           /\ x <= y => x * r <= y * r
           /\ x >= 0 => x * r \in Nat
<1>1. x * r \in Int /\ y * r \in Int
  OBVIOUS
<1>2. (x + y) * r = x * r + y * r /\ (x - y) * r = x * r - y * r
  OBVIOUS
<1>3. ASSUME x <= y PROVE x * r <= y * r
  BY <1>3
<1>4. ASSUME x >= 0 PROVE x * r >= 0
  BY <1>4
<1> QED
  BY <1>1, <1>2, <1>3, <1>4

\* The constants, each in its set, and what the idle time has to earn.
LEMMA LimitConstants ==
    /\ Unit \in Nat \ {0} /\ Rate \in Nat \ {0} /\ Burst \in Nat \ {0}
    /\ IdleTime \in Nat /\ Skew \in Nat /\ MaxTime \in Nat /\ CleanupEvery \in Nat
    /\ Burst * Unit \in Nat \ {0} /\ Skew * Rate \in Nat
    /\ Unit <= Burst * Unit
    /\ Burst * Unit + 2 * (Skew * Rate) <= IdleTime * Rate
<1>1. /\ Unit \in Nat \ {0} /\ Rate \in Nat \ {0} /\ Burst \in Nat \ {0}
      /\ IdleTime \in Nat /\ Skew \in Nat /\ MaxTime \in Nat /\ CleanupEvery \in Nat
      /\ Burst * Unit <= Rate * (IdleTime - 2 * Skew)
  BY LimitAssumption
<1>2. Burst * Unit \in Nat /\ Skew * Rate \in Nat /\ Unit <= Burst * Unit
  BY <1>1
<1>3. Rate * (IdleTime - 2 * Skew) = IdleTime * Rate - 2 * (Skew * Rate)
  BY <1>1
<1> QED
  BY <1>1, <1>2, <1>3

\* A late call sets a bucket back by what the skew earns at most.
LEMMA SetBack ==
    ASSUME NEW r \in Nat, NEW skew \in Nat, NEW tokens \in Int, NEW updated \in Int,
           NEW before \in Nat, NEW last \in Nat, NEW now \in Nat,
           tokens + (before - updated) * r >= 0, before <= last, last <= now + skew
    PROVE  /\ tokens + (now - updated) * r + (last - now) * r >= 0
           /\ -(skew * r) <= tokens + (now - updated) * r
<1>1. last * r <= (now + skew) * r
  <2>1. now + skew \in Int
    OBVIOUS
  <2> QED
    BY <2>1, EarnAdds
<1>2. /\ (last - now) * r = last * r - now * r /\ (now - updated) * r = now * r - updated * r
      /\ (before - updated) * r = before * r - updated * r
      /\ (now + skew) * r = now * r + skew * r /\ before * r <= last * r
      /\ last * r \in Int /\ now * r \in Int /\ updated * r \in Int /\ before * r \in Int
      /\ skew * r \in Int
  BY EarnAdds
<1> QED
  BY <1>1, <1>2

\* The bucket of a key after a call at a time, before a cleanup.
LEMMA TakeTokens ==
    ASSUME LimitTypeOK, TokensInv, NEW key \in Keys, NEW now \in Nat, now >= latest - Skew,
           NEW last \in Nat, last = IF now > latest THEN now ELSE latest
    PROVE  LET b == Take(buckets[key], now) IN
           /\ b \in [tokens : Int, updated : Int] /\ b # NoBucket
           /\ b.updated = now /\ now <= last /\ latest <= last
           /\ -(Skew * Rate) <= b.tokens /\ b.tokens <= Burst * Unit
           /\ b.tokens + (last - now) * Rate >= 0
           /\ Allowed(buckets[key], now) => b.tokens >= 0
<1> DEFINE old == buckets[key]
           new == Refill(old, now)
           taken == Take(old, now)
<1>1. old \in [tokens : Int, updated : Int] /\ latest \in Nat
  BY DEF LimitTypeOK
<1>2. now <= last /\ latest <= last /\ last - now \in Nat /\ (last - now) * Rate \in Nat
      /\ last <= now + Skew
  <2>1. now <= last /\ latest <= last /\ last <= now + Skew
    BY <1>1, LimitConstants
  <2>2. last - now \in Nat
    BY <2>1
  <2>3. (last - now) * Rate \in Nat
    BY <2>2, LimitConstants, EarnAdds
  <2> QED
    BY <2>1, <2>2, <2>3
<1>3. /\ new = [tokens |-> new.tokens, updated |-> now] /\ new.tokens \in Int
      /\ -(Skew * Rate) <= new.tokens /\ new.tokens <= Burst * Unit
      /\ new.tokens + (last - now) * Rate >= 0
  <2>1. CASE old = NoBucket \/ new.tokens = Burst * Unit
    <3>1. new = [tokens |-> Burst * Unit, updated |-> now]
      BY <2>1 DEF Refill
    <3> QED
      BY <1>2, <3>1, LimitConstants
  <2>2. CASE old # NoBucket /\ new.tokens # Burst * Unit
    <3> DEFINE earned == (now - old.updated) * Rate
    <3>1. /\ old.tokens \in Int /\ old.updated \in Int /\ old.updated <= latest
          /\ old.tokens + (latest - old.updated) * Rate >= 0
      BY <1>1, <2>2 DEF TokensInv
    <3>2. earned \in Int
      BY <3>1, LimitConstants
    <3>3. /\ new = [tokens |-> old.tokens + earned, updated |-> now]
          /\ old.tokens + earned <= Burst * Unit
      BY <2>2, <3>1, <3>2, LimitConstants DEF Refill, Clamped
    <3>4. /\ old.tokens + earned + (last - now) * Rate >= 0
          /\ -(Skew * Rate) <= old.tokens + earned
      BY <1>1, <1>2, <3>1, LimitConstants, SetBack
    <3> HIDE DEF earned
    <3> QED
      BY <3>1, <3>2, <3>3, <3>4
  <2> QED
    BY <2>1, <2>2
<1>4. CASE ~Allowed(old, now)
  <2>1. taken = new
    BY <1>4 DEF Take
  <2> QED
    BY <1>2, <1>3, <1>4, <2>1 DEF NoBucket
<1>5. CASE Allowed(old, now)
  <2>1. new.tokens >= Unit /\ taken = [tokens |-> new.tokens - Unit, updated |-> now]
    BY <1>3, <1>5 DEF Take, Allowed
  <2> DEFINE gain == (last - now) * Rate
  <2>2. gain \in Nat
    BY <1>2
  <2> HIDE DEF gain
  <2>3. /\ taken.tokens = new.tokens - Unit /\ taken.updated = now /\ taken.tokens \in Int
        /\ taken.tokens >= 0 /\ taken.tokens <= Burst * Unit
    BY <1>3, <2>1, LimitConstants
  <2>4. taken.tokens + gain >= 0 /\ -(Skew * Rate) <= taken.tokens
    BY <2>2, <2>3, LimitConstants
  <2>5. taken # NoBucket
    BY <2>1 DEF NoBucket
  <2> QED
    BY <1>2, <2>1, <2>3, <2>4, <2>5 DEF gain
<1> QED
  BY <1>4, <1>5

\* A debt that is paid at one time, with the tokens left, is paid at another one.
LEMMA PaidAtAnotherTime ==
    ASSUME NEW r \in Nat, NEW full \in Int, NEW cost \in Int, NEW tokens \in Int,
           NEW updated \in Int, NEW t \in Int, NEW now \in Int, NEW refilled \in Int,
           cost + tokens <= full + (updated - t) * r,
           refilled <= tokens + (now - updated) * r
    PROVE  cost + refilled <= full + (now - t) * r
<1>1. /\ (updated - t) * r = updated * r - t * r /\ (now - updated) * r = now * r - updated * r
      /\ (now - t) * r = now * r - t * r
      /\ updated * r \in Int /\ t * r \in Int /\ now * r \in Int
  BY EarnAdds
<1> QED
  BY <1>1

\* What was owed by an idle bucket is paid before any call that may follow.
LEMMA PaidByIdling ==
    ASSUME NEW r \in Nat, NEW full \in Int, NEW skew \in Nat, NEW idle \in Nat,
           NEW cost \in Int, NEW tokens \in Int, NEW updated \in Int, NEW t \in Int, NEW last \in Int,
           full + 2 * (skew * r) <= idle * r, -(skew * r) <= tokens, updated + idle <= last,
           cost + tokens <= full + (updated - t) * r
    PROVE  cost <= (last - skew - t) * r
<1>1. (last - skew - t) * r = (last - skew) * r - t * r
  <2>1. last - skew \in Int
    OBVIOUS
  <2> QED
    BY <2>1, EarnAdds
<1>2. (updated + idle) * r <= last * r
  <2>1. updated + idle \in Int
    OBVIOUS
  <2> QED
    BY <2>1, EarnAdds
<1>3. /\ (last - skew) * r = last * r - skew * r /\ (updated + idle) * r = updated * r + idle * r
      /\ (updated - t) * r = updated * r - t * r
      /\ updated * r \in Int /\ t * r \in Int /\ last * r \in Int /\ skew * r \in Int
      /\ idle * r \in Int
  BY EarnAdds
<1> QED
  BY <1>1, <1>2, <1>3

\* What the calls of a key from the i-th on cost.
Cost(key, i) == (Len(admitted[key]) - i + 1) * Unit

\* The history of a key.
LEMMA AdmittedTypes ==
    ASSUME LimitTypeOK, NEW key \in Keys, NEW i \in DOMAIN admitted[key]
    PROVE  /\ admitted[key] \in Seq(Int) /\ Len(admitted[key]) \in Nat
           /\ i \in 1 .. Len(admitted[key]) /\ admitted[key][i] \in Int /\ Cost(key, i) \in Int
<1>1. admitted[key] \in Seq(Int)
  BY DEF LimitTypeOK
<1>2. Len(admitted[key]) \in Nat /\ DOMAIN admitted[key] = 1 .. Len(admitted[key])
  BY <1>1, LenProperties
<1>3. admitted[key][i] \in Int
  BY <1>1, <1>2, ElementOfSeq
<1> DEFINE n == Len(admitted[key])
<1> HIDE DEF n
<1>4. n \in Nat /\ i \in 1 .. n
  BY <1>2 DEF n
<1>5. (n - i + 1) * Unit \in Int
  BY <1>4, LimitConstants
<1> QED
  BY <1>1, <1>2, <1>3, <1>5 DEF Cost, n

\* A refilled bucket has paid for every call admitted so far.
LEMMA RefillPays ==
    ASSUME LimitTypeOK, PaidInv, NEW key \in Keys, NEW now \in Nat,
           now >= latest - Skew, NEW i \in DOMAIN admitted[key]
    PROVE  /\ Refill(buckets[key], now).tokens \in Int
           /\ Cost(key, i) + Refill(buckets[key], now).tokens
                <= Burst * Unit + (now - admitted[key][i]) * Rate
<1> DEFINE old == buckets[key]
           new == Refill(old, now)
           t == admitted[key][i]
           cost == Cost(key, i)
           full == Burst * Unit
<1>1. old \in [tokens : Int, updated : Int] /\ latest \in Nat
  BY DEF LimitTypeOK
<1>2. t \in Int /\ cost \in Int /\ full \in Nat
  BY AdmittedTypes, LimitConstants
<1>3. IF old = NoBucket THEN cost <= (latest - Skew - t) * Rate
      ELSE cost + old.tokens <= full + (old.updated - t) * Rate
  BY DEF PaidInv, Cost
<1>4. old = NoBucket => new.tokens = full
  BY DEF Refill
<1>5. old # NoBucket => new.tokens = Clamped(old.tokens + (now - old.updated) * Rate)
  BY DEF Refill
<1>6. \A x \in Int : Clamped(x) \in Int /\ Clamped(x) <= x
  BY LimitConstants DEF Clamped
<1> HIDE DEF old, new, t, cost, full
<1>7. CASE old = NoBucket
  <2>1. latest - Skew - t \in Int /\ now - t \in Int /\ latest - Skew - t <= now - t
    BY <1>1, <1>2, LimitConstants
  <2>2. (latest - Skew - t) * Rate <= (now - t) * Rate
        /\ (latest - Skew - t) * Rate \in Int /\ (now - t) * Rate \in Int
    BY <2>1, LimitConstants, EarnAdds
  <2>3. cost + new.tokens <= full + (now - t) * Rate /\ new.tokens \in Int
    BY <1>2, <1>3, <1>4, <1>7, <2>2
  <2> QED
    BY <2>3 DEF old, new, t, cost, full
<1>8. CASE old # NoBucket
  <2>1. old.tokens \in Int /\ old.updated \in Int /\ (now - old.updated) * Rate \in Int
    <3>1. old.tokens \in Int /\ old.updated \in Int /\ now - old.updated \in Int
      BY <1>1
    <3> QED
      BY <3>1, LimitConstants, EarnAdds
  <2>2. new.tokens \in Int /\ new.tokens <= old.tokens + (now - old.updated) * Rate
    BY <1>5, <1>6, <1>8, <2>1
  <2>3. cost + new.tokens <= full + (now - t) * Rate
    BY <1>2, <1>3, <1>8, <2>1, <2>2, LimitConstants, PaidAtAnotherTime
  <2> QED
    BY <2>2, <2>3 DEF old, new, t, cost, full
<1> QED
  BY <1>7, <1>8

\* A bucket that is idle would be full for every call that may follow.
LEMMA IdleIsFull ==
    ASSUME LimitTypeOK, PaidInv, TokensInv, NEW key \in Keys, NEW now \in Nat, NEW last \in Nat,
           now <= last, IsIdle(buckets[key], now), NEW i \in DOMAIN admitted[key]
    PROVE  Cost(key, i) <= (last - Skew - admitted[key][i]) * Rate
<1> DEFINE old == buckets[key]
           t == admitted[key][i]
           cost == Cost(key, i)
           full == Burst * Unit
<1>1. old.tokens \in Int /\ old.updated \in Int /\ t \in Int /\ cost \in Int /\ full \in Nat
  BY AdmittedTypes, LimitConstants DEF LimitTypeOK
<1>2. /\ old # NoBucket /\ now - old.updated > IdleTime
      /\ cost + old.tokens <= full + (old.updated - t) * Rate
      /\ -(Skew * Rate) <= old.tokens
  BY DEF IsIdle, PaidInv, TokensInv, Cost
<1>3. full + 2 * (Skew * Rate) <= IdleTime * Rate
  BY LimitConstants
<1> HIDE DEF old, t, cost, full
<1>4. old.updated + IdleTime <= last
  BY <1>1, <1>2, LimitConstants
<1>5. cost <= (last - Skew - t) * Rate
  BY <1>1, <1>2, <1>3, <1>4, LimitConstants, PaidByIdling
<1> QED
  BY <1>5 DEF t, cost

\* What a call does to the buckets and to the history.
LEMMA CallChanges ==
    ASSUME LimitTypeOK, TokensInv, NEW key \in Keys, NEW now \in 0 .. MaxTime, allow(key, now)
    PROVE  /\ LimitTypeOK' /\ latest <= latest' /\ now <= latest'
           /\ latest' = IF now > latest THEN now ELSE latest
           /\ buckets'[key] = Take(buckets[key], now)
           /\ \A k \in Keys \ {key} :
                 /\ admitted'[k] = admitted[k]
                 /\ buckets'[k] # buckets[k] => buckets'[k] = NoBucket /\ IsIdle(buckets[k], now)
           /\ admitted'[key] = IF Allowed(buckets[key], now) THEN Append(admitted[key], now)
                               ELSE admitted[key]
<1>1. now \in Nat /\ latest \in Nat /\ now >= latest - Skew
      /\ latest' = IF now > latest THEN now ELSE latest
  BY LimitConstants DEF LimitTypeOK, allow
<1>2. latest' \in Nat /\ latest <= latest' /\ now <= latest'
  BY <1>1
<1> DEFINE mine == Take(buckets[key], now)
           taken == [buckets EXCEPT ![key] = mine]
<1>3. mine \in [tokens : Int, updated : Int] /\ mine.updated = now
  BY <1>1, <1>2, TakeTokens
<1>4. taken \in [Keys -> [tokens : Int, updated : Int]] /\ taken[key] = mine
      /\ \A k \in Keys \ {key} : taken[k] = buckets[k]
  BY <1>3 DEF LimitTypeOK
<1>5. NoBucket \in [tokens : Int, updated : Int]
  BY DEF NoBucket
<1>6. \/ buckets' = taken
      \/ buckets' = [k \in Keys |-> IF IsIdle(taken[k], now) THEN NoBucket ELSE taken[k]]
  BY DEF allow
<1>7. ~IsIdle(mine, now)
  BY <1>1, <1>3, LimitConstants DEF IsIdle
<1> HIDE DEF taken, mine
<1>8. /\ buckets' \in [Keys -> [tokens : Int, updated : Int]]
      /\ buckets'[key] = mine
      /\ \A k \in Keys \ {key} :
            buckets'[k] # buckets[k] => buckets'[k] = NoBucket /\ IsIdle(buckets[k], now)
  BY <1>4, <1>5, <1>6, <1>7
<1>9. /\ cleans' \in BOOLEAN /\ lastCleanup' \in Int
  BY <1>1 DEF LimitTypeOK, allow
<1>10. /\ admitted' \in [Keys -> Seq(Int)]
       /\ \A k \in Keys \ {key} : admitted'[k] = admitted[k]
       /\ admitted'[key] = IF Allowed(buckets[key], now) THEN Append(admitted[key], now)
                           ELSE admitted[key]
  <2>1. admitted \in [Keys -> Seq(Int)] /\ Append(admitted[key], now) \in Seq(Int)
    BY <1>1, AppendProperties DEF LimitTypeOK
  <2> QED
    BY <2>1 DEF allow
<1> QED
  BY <1>1, <1>2, <1>8, <1>9, <1>10 DEF LimitTypeOK, mine

\* The tokens stay within their bounds.
LEMMA CallKeepsTokens ==
    ASSUME LimitTypeOK, TokensInv, NEW key \in Keys, NEW now \in 0 .. MaxTime, allow(key, now)
    PROVE  TokensInv'
<1> SUFFICES ASSUME NEW k \in Keys, buckets'[k] # NoBucket
             PROVE  /\ buckets'[k].updated >= 0 /\ buckets'[k].updated <= latest'
                    /\ -(Skew * Rate) <= buckets'[k].tokens /\ buckets'[k].tokens <= Burst * Unit
                    /\ buckets'[k].tokens + (latest' - buckets'[k].updated) * Rate >= 0
  BY DEF TokensInv
<1>1. now \in Nat /\ now >= latest - Skew /\ latest \in Nat /\ latest' \in Nat
      /\ latest <= latest' /\ latest' = IF now > latest THEN now ELSE latest
  BY CallChanges DEF allow, LimitTypeOK
<1>2. CASE k = key
  <2>1. buckets'[k] = Take(buckets[key], now)
    BY <1>2, CallChanges
  <2> QED
    BY <1>1, <2>1, TakeTokens
<1>3. CASE k # key
  <2>1. buckets'[k] = buckets[k]
    BY <1>3, CallChanges
  <2> DEFINE b == buckets[k]
  <2>2. /\ b.updated \in Int /\ b.tokens \in Int /\ b.updated >= 0 /\ b.updated <= latest
        /\ -(Skew * Rate) <= b.tokens /\ b.tokens <= Burst * Unit
        /\ b.tokens + (latest - b.updated) * Rate >= 0
    BY <2>1 DEF TokensInv, LimitTypeOK
  <2> HIDE DEF b
  <2>3. b.updated <= latest'
    BY <1>1, <2>2
  <2>4. (latest - b.updated) * Rate <= (latest' - b.updated) * Rate
        /\ (latest - b.updated) * Rate \in Int /\ (latest' - b.updated) * Rate \in Int
    <3>1. latest - b.updated \in Int /\ latest' - b.updated \in Int
          /\ latest - b.updated <= latest' - b.updated
      BY <1>1, <2>2
    <3> QED
      BY <3>1, LimitConstants, EarnAdds
  <2>5. b.tokens + (latest' - b.updated) * Rate >= 0
    BY <2>2, <2>4
  <2> QED
    BY <2>1, <2>2, <2>3, <2>5 DEF b
<1> QED
  BY <1>2, <1>3

\* A key that does not call still has paid, also if its bucket is removed.
LEMMA OthersPaid ==
    ASSUME LimitTypeOK, TokensInv, PaidInv, NEW key \in Keys, NEW now \in 0 .. MaxTime,
           allow(key, now), NEW k \in Keys \ {key}, NEW i \in DOMAIN admitted[k]
    PROVE  IF buckets'[k] = NoBucket
           THEN Cost(k, i) <= (latest' - Skew - admitted[k][i]) * Rate
           ELSE Cost(k, i) + buckets'[k].tokens
                   <= Burst * Unit + (buckets'[k].updated - admitted[k][i]) * Rate
<1>1. now \in Nat /\ latest \in Nat /\ latest' \in Nat /\ latest <= latest' /\ now <= latest'
  BY CallChanges DEF LimitTypeOK
<1>2. CASE buckets'[k] # buckets[k]
  <2>1. buckets'[k] = NoBucket /\ IsIdle(buckets[k], now)
    BY <1>2, CallChanges
  <2> QED
    BY <1>1, <2>1, IdleIsFull
<1>3. CASE buckets'[k] = buckets[k] /\ buckets[k] # NoBucket
  BY <1>3 DEF PaidInv, Cost
<1>4. CASE buckets'[k] = buckets[k] /\ buckets[k] = NoBucket
  <2> DEFINE t == admitted[k][i]
             cost == Cost(k, i)
  <2>1. t \in Int /\ cost \in Int
    BY AdmittedTypes
  <2>2. cost <= (latest - Skew - t) * Rate
    BY <1>4 DEF PaidInv, Cost
  <2> HIDE DEF t, cost
  <2>3. latest - Skew - t \in Int /\ latest' - Skew - t \in Int
        /\ latest - Skew - t <= latest' - Skew - t
    <3>1. \A x, y \in Nat : x <= y => /\ x - Skew - t \in Int /\ y - Skew - t \in Int
                                      /\ x - Skew - t <= y - Skew - t
      BY <2>1, LimitConstants
    <3> QED
      BY <1>1, <3>1
  <2>4. (latest - Skew - t) * Rate <= (latest' - Skew - t) * Rate
        /\ (latest - Skew - t) * Rate \in Int /\ (latest' - Skew - t) * Rate \in Int
    BY <2>3, LimitConstants, EarnAdds
  <2>5. cost <= (latest' - Skew - t) * Rate
    BY <2>1, <2>2, <2>4
  <2> QED
    BY <1>4, <2>5 DEF t, cost
<1> QED
  BY <1>2, <1>3, <1>4

\* The history of a key with one more call.
AppendedTo(seq, now) ==
    /\ Len(Append(seq, now)) = Len(seq) + 1
    /\ DOMAIN Append(seq, now) = 1 .. Len(seq) + 1
    /\ \A j \in 1 .. Len(seq) : Append(seq, now)[j] = seq[j]
    /\ Append(seq, now)[Len(seq) + 1] = now

\* It has the old calls, and the new one at its end.
LEMMA AppendedCalls ==
    ASSUME NEW seq \in Seq(Int), NEW now \in Int
    PROVE  AppendedTo(seq, now)
<1>1. Append(seq, now) \in Seq(Int) /\ Len(Append(seq, now)) = Len(seq) + 1
      /\ \A j \in 1 .. Len(seq) : Append(seq, now)[j] = seq[j]
      /\ Append(seq, now)[Len(seq) + 1] = now
  BY AppendProperties
<1>2. DOMAIN Append(seq, now) = 1 .. Len(Append(seq, now))
  BY <1>1, LenProperties
<1> QED
  BY <1>1, <1>2 DEF AppendedTo

\* The key that calls has paid for what it was admitted before, and for this call.
LEMMA CallerPaid ==
    ASSUME LimitTypeOK, TokensInv, PaidInv, NEW key \in Keys, NEW now \in 0 .. MaxTime,
           allow(key, now), NEW i \in DOMAIN admitted'[key]
    PROVE  /\ Cost(key, i)' \in Int /\ admitted'[key][i] \in Int
           /\ Cost(key, i)' + buckets'[key].tokens
                 <= Burst * Unit + (now - admitted'[key][i]) * Rate
<1> DEFINE seq == admitted[key]
           n == Len(seq)
           new == Refill(buckets[key], now)
           full == Burst * Unit
<1>1. now \in Nat /\ now >= latest - Skew /\ seq \in Seq(Int) /\ n \in Nat
      /\ DOMAIN seq = 1 .. n
  BY LenProperties DEF allow, LimitTypeOK
<1>2. \A j \in DOMAIN seq : /\ seq[j] \in Int /\ Cost(key, j) \in Int /\ new.tokens \in Int
                            /\ Cost(key, j) + new.tokens <= full + (now - seq[j]) * Rate
                            /\ Cost(key, j) = (n - j + 1) * Unit
  BY <1>1, RefillPays, AdmittedTypes DEF Cost
<1>3. buckets'[key] = Take(buckets[key], now)
  BY CallChanges
<1>4. CASE ~Allowed(buckets[key], now)
  <2>1. admitted'[key] = seq
    BY <1>4, CallChanges
  <2>2. buckets'[key] = new
    BY <1>3, <1>4 DEF Take
  <2>3. Cost(key, i)' = Cost(key, i)
    BY <2>1 DEF Cost
  <2> QED
    BY <1>2, <2>1, <2>2, <2>3
<1>5. CASE Allowed(buckets[key], now)
  <2>1. /\ admitted'[key] = Append(seq, now) /\ Len(Append(seq, now)) = n + 1
        /\ \A j \in 1 .. n : Append(seq, now)[j] = seq[j]
        /\ Append(seq, now)[n + 1] = now
        /\ i \in 1 .. n + 1
    <3>1. admitted'[key] = Append(seq, now)
      BY <1>5, CallChanges
    <3>2. now \in Int
      BY <1>1
    <3>3. AppendedTo(seq, now)
      BY <1>1, <3>2, AppendedCalls
    <3> QED
      BY <3>1, <3>3 DEF AppendedTo
  <2>2. Cost(key, i)' = (n + 1 - i + 1) * Unit
    BY <2>1 DEF Cost
  <2>3. new.tokens \in Int /\ new.tokens <= full /\ buckets'[key].tokens = new.tokens - Unit
    <3>1. buckets[key].tokens \in Int /\ buckets[key].updated \in Int
      BY DEF LimitTypeOK
    <3>2. (now - buckets[key].updated) * Rate \in Int
      BY <1>1, <3>1, LimitConstants
    <3>3. \A x \in Int : Clamped(x) \in Int /\ Clamped(x) <= full
      BY LimitConstants DEF Clamped
    <3>4. new = [tokens |-> full, updated |-> now]
          \/ new = [tokens |-> Clamped(buckets[key].tokens + (now - buckets[key].updated) * Rate),
                    updated |-> now]
      BY DEF Refill
    <3> HIDE DEF new
    <3>5. new.tokens \in Int /\ new.tokens <= full
      BY <3>1, <3>2, <3>3, <3>4, LimitConstants
    <3>6. Take(buckets[key], now) = [new EXCEPT !.tokens = @ - Unit]
      BY <1>5 DEF Take, new
    <3> QED
      BY <1>3, <3>4, <3>5, <3>6
  <2> HIDE DEF new, full, n, seq
  <2>4. CASE i \in 1 .. n
    <3> DEFINE cost == (n - i + 1) * Unit
    <3>1. cost \in Int /\ cost + new.tokens <= full + (now - seq[i]) * Rate /\ seq[i] \in Int
          /\ admitted'[key][i] = seq[i]
      BY <1>1, <1>2, <2>1, <2>4
    <3>2. (n + 1 - i + 1) * Unit = cost + Unit
      BY <1>1, <2>4, LimitConstants
    <3> HIDE DEF cost
    <3>3. Cost(key, i)' \in Int
          /\ Cost(key, i)' + buckets'[key].tokens = cost + new.tokens
      BY <2>2, <2>3, <3>1, <3>2, LimitConstants
    <3> QED
      BY <3>1, <3>3 DEF full
  <2>5. CASE i = n + 1
    <3>1. Cost(key, i)' = Unit
      BY <1>1, <2>2, <2>5, LimitConstants
    <3>2. admitted'[key][i] = now
      BY <2>1, <2>5
    <3>3. (now - now) * Rate = 0
      BY <1>1, LimitConstants
    <3> QED
      BY <1>1, <2>3, <3>1, <3>2, <3>3, LimitConstants DEF full
  <2> QED
    BY <1>1, <2>1, <2>4, <2>5
<1> QED
  BY <1>4, <1>5

\* A call that is admitted leaves what it is paid from at zero or more.
LEMMA CallKeepsRate ==
    ASSUME LimitInv, NEW key \in Keys, NEW now \in 0 .. MaxTime, allow(key, now)
    PROVE  RateIsBounded'
<1> USE DEF LimitInv
<1> SUFFICES ASSUME NEW k \in Keys, NEW i \in DOMAIN admitted'[k], NEW j \in DOMAIN admitted'[k],
                    i <= j
             PROVE  (j - i + 1) * Unit
                       <= Burst * Unit + (admitted'[k][j] - admitted'[k][i]) * Rate
  BY DEF RateIsBounded
<1>1. CASE admitted'[k] = admitted[k]
  BY <1>1 DEF RateIsBounded
<1>2. CASE admitted'[k] # admitted[k]
  <2>1. k = key /\ Allowed(buckets[key], now) /\ admitted'[k] = Append(admitted[key], now)
    BY <1>2, CallChanges
  <2> DEFINE n == Len(admitted[key])
  <2>2. n \in Nat /\ now \in Int /\ now \in Nat /\ now >= latest - Skew
        /\ admitted[key] \in Seq(Int) /\ DOMAIN admitted[key] = 1 .. n
    BY LenProperties DEF LimitTypeOK, allow
  <2>3. AppendedTo(admitted[key], now)
    BY <2>2, AppendedCalls
  <2>4. i \in 1 .. n + 1 /\ j \in 1 .. n + 1
    BY <2>1, <2>3 DEF AppendedTo
  <2>5. CASE j \in 1 .. n
    <3>1. i \in 1 .. n
      BY <2>2, <2>4, <2>5
    <3>2. admitted'[k][i] = admitted[key][i] /\ admitted'[k][j] = admitted[key][j]
      BY <2>1, <2>3, <2>5, <3>1 DEF AppendedTo
    <3> QED
      BY <2>2, <2>5, <3>1, <3>2 DEF RateIsBounded
  <2>6. CASE j = n + 1
    <3>1. admitted'[k][j] = now
      BY <2>1, <2>3, <2>6 DEF AppendedTo
    <3>2. Cost(key, i)' = (j - i + 1) * Unit
      <4>1. Len(admitted'[key]) = j
        BY <2>1, <2>3, <2>6 DEF AppendedTo
      <4> QED
        BY <4>1 DEF Cost
    <3>3. /\ Cost(key, i)' \in Int /\ admitted'[k][i] \in Int
          /\ Cost(key, i)' + buckets'[key].tokens
                 <= Burst * Unit + (now - admitted'[k][i]) * Rate
      BY <2>1, CallerPaid
    <3>4. buckets'[key].tokens >= 0 /\ buckets'[key].tokens \in Int
      <4>1. buckets'[key] = Take(buckets[key], now) /\ latest' \in Nat
            /\ latest' = IF now > latest THEN now ELSE latest
        BY CallChanges DEF LimitTypeOK
      <4> QED
        BY <2>1, <2>2, <4>1, TakeTokens
    <3>5. (now - admitted'[k][i]) * Rate \in Int
      <4>1. now - admitted'[k][i] \in Int
        BY <2>2, <3>3
      <4> QED
        BY <4>1, LimitConstants, EarnAdds
    <3> QED
      BY <3>1, <3>2, <3>3, <3>4, <3>5, LimitConstants
  <2> QED
    BY <2>2, <2>4, <2>5, <2>6
<1> QED
  BY <1>1, <1>2

\* Every call that was admitted has been paid for, after a call as before it.
LEMMA CallKeepsPaid ==
    ASSUME LimitInv, NEW key \in Keys, NEW now \in 0 .. MaxTime, allow(key, now)
    PROVE  PaidInv'
<1> USE DEF LimitInv
<1> SUFFICES ASSUME NEW k \in Keys, NEW i \in DOMAIN admitted'[k]
             PROVE  IF buckets'[k] = NoBucket
                    THEN Cost(k, i)' <= (latest' - Skew - admitted'[k][i]) * Rate
                    ELSE Cost(k, i)' + buckets'[k].tokens
                            <= Burst * Unit + (buckets'[k].updated - admitted'[k][i]) * Rate
  BY DEF PaidInv, Cost
<1>1. CASE k = key
  <2>1. buckets'[key] # NoBucket /\ buckets'[key].updated = now
    <3>1. /\ buckets'[key] = Take(buckets[key], now) /\ latest' \in Nat
          /\ latest' = IF now > latest THEN now ELSE latest
      BY CallChanges DEF LimitTypeOK
    <3>2. now \in Nat /\ now >= latest - Skew
      BY DEF allow
    <3> QED
      BY <3>1, <3>2, TakeTokens
  <2> QED
    BY <1>1, <2>1, CallerPaid
<1>2. CASE k # key
  <2>1. admitted'[k] = admitted[k]
    BY <1>2, CallChanges
  <2>2. Cost(k, i)' = Cost(k, i)
    BY <2>1 DEF Cost
  <2> QED
    BY <1>2, <2>1, <2>2, OthersPaid
<1> QED
  BY <1>1, <1>2

\* No call, nothing to pay for.
LEMMA LimitInit == newLimiter => LimitInv
<1> SUFFICES ASSUME newLimiter PROVE LimitInv
  OBVIOUS
<1>1. \A k \in Keys : admitted[k] = <<>> /\ buckets[k] = NoBucket
  BY DEF newLimiter
<1>2. DOMAIN <<>> = {} /\ <<>> \in Seq(Int)
  OBVIOUS
<1>3. LimitTypeOK
  BY <1>2, LimitConstants DEF newLimiter, LimitTypeOK, NoBucket
<1>4. TokensInv
  BY <1>1 DEF TokensInv
<1>5. PaidInv /\ RateIsBounded
  BY <1>1, <1>2 DEF PaidInv, RateIsBounded
<1> QED
  BY <1>3, <1>4, <1>5 DEF LimitInv

\* The invariant is inductive.
LEMMA LimitStep == LimitInv /\ [LimitNext]_limitVars => LimitInv'
<1> SUFFICES ASSUME LimitInv, [LimitNext]_limitVars PROVE LimitInv'
  OBVIOUS
<1>1. CASE LimitNext
  <2>1. PICK key \in Keys, now \in 0 .. MaxTime : allow(key, now)
    BY <1>1 DEF LimitNext
  <2>2. LimitTypeOK'
    BY <2>1, CallChanges DEF LimitInv
  <2>3. TokensInv'
    BY <2>1, CallKeepsTokens DEF LimitInv
  <2>4. PaidInv'
    BY <2>1, CallKeepsPaid
  <2>5. RateIsBounded'
    BY <2>1, CallKeepsRate
  <2> QED
    BY <2>2, <2>3, <2>4, <2>5 DEF LimitInv
<1>2. CASE UNCHANGED limitVars
  BY <1>2 DEF limitVars, LimitInv, LimitTypeOK, TokensInv, PaidInv, RateIsBounded
<1> QED
  BY <1>1, <1>2

\* THEOREM.  limiter.allow and coordinatorLimiter.allow never admit more calls of a key
\* between two of them than a full bucket and the time between them pay for, for
\* every rate, burst and skew, in whatever order the calls get the mutex and
\* whichever idle buckets a cleanup removes.
THEOREM RateBounded == LimitSpec => []RateIsBounded
<1>1. LimitInv => RateIsBounded
  BY DEF LimitInv
<1> QED
  BY <1>1, LimitInit, LimitStep, PTL DEF LimitSpec
=============================================================================
