----------------------- MODULE RecoverySchedulerProofs -----------------------
(***************************************************************************)
(* The recovery scan misses no row twice, for every number of attempts and *)
(* workers, every capacity of the channel and every size of its pages.     *)
(***************************************************************************)
EXTENDS RecoveryScheduler, FiniteSetTheorems, FunctionTheorems, WellFoundedInduction, TLAPS

-----------------------------------------------------------------------------
\* Ranks in a finite set of numbers, and the first elements of one.

Rank(S, a) == Cardinality({b \in S : b <= a})
Upper(S, limit) == {a \in S : Rank(S, a) <= limit}
Ranked(S, i) == CHOOSE a \in S : Rank(S, a) = i

\* A nonempty set of natural numbers has a least element.
LEMMA LeastElement ==
    ASSUME NEW S, S \subseteq Nat, S # {}
    PROVE  \E x \in S : \A y \in S : x <= y
<1>1. PICK x \in S : \A y \in S : ~(<<y, x>> \in OpToRel(<, Nat))
  BY NatLessThanWellFounded, WFMin
<1>2. \A y \in S : ~(y < x)
  BY <1>1 DEF OpToRel
<1> QED
  BY <1>2

\* A nonempty set of numbers below a bound has a greatest element.
LEMMA GreatestElement ==
    ASSUME NEW n \in Nat, NEW S, S \subseteq 1 .. n, S # {}
    PROVE  \E x \in S : \A y \in S : y <= x
<1> DEFINE T == {n - y : y \in S}
<1>1. \A y \in S : y \in Nat /\ n - y \in Nat
  OBVIOUS
<1>2. T \subseteq Nat /\ T # {}
  BY <1>1
<1>3. PICK t \in T : \A u \in T : t <= u
  BY <1>2, LeastElement
<1>4. PICK x \in S : t = n - x
  BY <1>3
<1>5. ASSUME NEW y \in S PROVE y <= x
  <2>1. n - x <= n - y
    BY <1>3, <1>4
  <2> QED
    BY <1>1, <2>1
<1> QED
  BY <1>5

\* Ranks are positive numbers up to the size of the set, and they grow.
LEMMA RankGrows ==
    ASSUME NEW n \in Nat, NEW S, S \subseteq 1 .. n
    PROVE  /\ IsFiniteSet(S) /\ Cardinality(S) \in Nat
           /\ \A a \in S : Rank(S, a) \in 1 .. Cardinality(S)
           /\ \A a, b \in S : a < b => Rank(S, a) < Rank(S, b)
           /\ \A a, b \in S : Rank(S, a) = Rank(S, b) => a = b
<1> DEFINE Below(a) == {b \in S : b <= a}
<1>0. \A a \in S : a \in Nat
  OBVIOUS
<1>1. IsFiniteSet(S) /\ Cardinality(S) \in Nat
  <2>1. IsFiniteSet(1 .. n)
    BY FS_Interval
  <2>2. IsFiniteSet(S)
    BY <2>1, FS_Subset
  <2> QED
    BY <2>2, FS_CardinalityType
<1>2. ASSUME NEW a \in S
      PROVE  /\ IsFiniteSet(Below(a)) /\ Cardinality(Below(a)) \in Nat
             /\ Cardinality(Below(a)) <= Cardinality(S) /\ Cardinality(Below(a)) # 0
             /\ a \in Below(a)
  <2>1. Below(a) \in SUBSET S /\ a \in Below(a)
    BY <1>0
  <2> HIDE DEF Below
  <2>2. IsFiniteSet(Below(a)) /\ Cardinality(Below(a)) <= Cardinality(S)
    BY <1>1, <2>1, FS_Subset
  <2> QED
    BY <2>1, <2>2, FS_CardinalityType, FS_EmptySet
<1>3. ASSUME NEW a \in S, NEW b \in S, a < b
      PROVE  Cardinality(Below(a)) < Cardinality(Below(b))
  <2>1. Below(a) \in SUBSET Below(b)
    <3>1. \A x, y, z \in Nat : x <= y /\ y < z => x <= z
      OBVIOUS
    <3> QED
      BY <1>0, <1>3, <3>1
  <2>2. b \in Below(b) /\ b \notin Below(a)
    BY <1>0, <1>3
  <2>3. Below(a) # Below(b)
    BY <2>2
  <2>4. /\ IsFiniteSet(Below(b)) /\ Cardinality(Below(b)) \in Nat
        /\ Cardinality(Below(a)) \in Nat
    BY <1>2
  <2> HIDE DEF Below
  <2>5. Cardinality(Below(a)) <= Cardinality(Below(b)) /\ Cardinality(Below(b)) # Cardinality(Below(a))
    BY <2>1, <2>3, <2>4, FS_Subset
  <2> QED
    BY <2>4, <2>5
<1>4. \A a \in S : Rank(S, a) = Cardinality(Below(a))
  BY DEF Rank
<1> HIDE DEF Below
<1>5. \A a \in S : Rank(S, a) \in 1 .. Cardinality(S)
  BY <1>1, <1>2, <1>4
<1>6. \A a, b \in S : a < b => Rank(S, a) < Rank(S, b)
  BY <1>3, <1>4
<1>7. ASSUME NEW a \in S, NEW b \in S, Rank(S, a) = Rank(S, b) PROVE a = b
  <2>1. a \in Nat /\ b \in Nat /\ Rank(S, a) \in Nat
    BY <1>0, <1>5
  <2>2. ~(a < b) /\ ~(b < a)
    BY <1>6, <1>7, <2>1
  <2> QED
    BY <2>1, <2>2
<1> QED
  BY <1>1, <1>5, <1>6, <1>7

\* Every rank up to the size of the set is somebody's.
LEMMA RankIsOnto ==
    ASSUME NEW n \in Nat, NEW S, S \subseteq 1 .. n, NEW i \in 1 .. Cardinality(S)
    PROVE  Ranked(S, i) \in S /\ Rank(S, Ranked(S, i)) = i
<1> DEFINE c == Cardinality(S)
           f == [a \in S |-> Rank(S, a)]
           T == (1 .. c) \ {i}
<1>1. /\ IsFiniteSet(S) /\ c \in Nat
      /\ \A a \in S : Rank(S, a) \in 1 .. c
      /\ \A a, b \in S : Rank(S, a) = Rank(S, b) => a = b
  BY RankGrows
<1>2. \E a \in S : Rank(S, a) = i
  <2> SUFFICES ASSUME \A a \in S : Rank(S, a) # i PROVE FALSE
    OBVIOUS
  <2>1. f \in [S -> T]
    BY <1>1
  <2>2. IsFiniteSet(T) /\ Cardinality(T) = c - 1
    <3>1. IsFiniteSet(1 .. c) /\ Cardinality(1 .. c) = c
      BY <1>1, FS_Interval
    <3> QED
      BY <3>1, FS_RemoveElement
  <2>3. Cardinality(T) < c
    BY <1>1, <2>2
  <2> HIDE DEF f, T
  <2>4. \E x, y \in S : x # y /\ f[x] = f[y]
    BY <1>1, <2>1, <2>2, <2>3, FS_PigeonHole
  <2> QED
    BY <1>1, <2>4 DEF f
<1> QED
  BY <1>2 DEF Ranked

\* The first elements of a set: no more than the limit, all of them if there are
\* fewer, none only of the empty set, and those left out come after them.
LEMMA FirstOfSet ==
    ASSUME NEW n \in Nat, NEW S, S \subseteq 1 .. n, NEW limit \in Nat \ {0}
    PROVE  /\ Upper(S, limit) \subseteq S
           /\ Cardinality(Upper(S, limit)) \in Nat
           /\ Cardinality(Upper(S, limit)) <= limit
           /\ S # {} => Upper(S, limit) # {}
           /\ Cardinality(Upper(S, limit)) < limit => Upper(S, limit) = S
           /\ \A a \in S \ Upper(S, limit), b \in Upper(S, limit) : b < a
<1> DEFINE P == Upper(S, limit)
<1>0. \A a \in S : a \in Nat
  OBVIOUS
<1>1. /\ IsFiniteSet(S) /\ Cardinality(S) \in Nat
      /\ \A a \in S : Rank(S, a) \in Nat
      /\ \A a, b \in S : a < b => Rank(S, a) < Rank(S, b)
  <2>1. /\ IsFiniteSet(S) /\ Cardinality(S) \in Nat
        /\ \A a \in S : Rank(S, a) \in 1 .. Cardinality(S)
        /\ \A a, b \in S : a < b => Rank(S, a) < Rank(S, b)
    BY RankGrows
  <2> QED
    BY <2>1
<1>2. P \subseteq S /\ \A a \in S : a \in P <=> Rank(S, a) <= limit
  BY DEF Upper
<1> HIDE DEF P
<1>3. IsFiniteSet(P) /\ Cardinality(P) \in Nat
  <2>1. IsFiniteSet(P)
    BY <1>1, <1>2, FS_Subset
  <2> QED
    BY <2>1, FS_CardinalityType
<1>4. ASSUME NEW a \in S \ P, NEW b \in P PROVE b < a
  <2>1. a \in Nat /\ b \in Nat /\ Rank(S, a) \in Nat /\ Rank(S, b) \in Nat
    BY <1>0, <1>1, <1>2
  <2>2. Rank(S, b) <= limit /\ ~(Rank(S, a) <= limit)
    BY <1>2
  <2>3. ~(a < b)
    BY <1>1, <1>2, <2>1, <2>2
  <2>4. a # b
    OBVIOUS
  <2> QED
    BY <2>1, <2>3, <2>4
<1>5. Cardinality(P) <= limit
  <2>1. CASE P = {}
    BY <2>1, FS_EmptySet
  <2>2. CASE P # {}
    <3>1. P \subseteq 1 .. n
      BY <1>2
    <3>2. PICK x \in P : \A y \in P : y <= x
      BY <2>2, <3>1, GreatestElement
    <3>3. P = {b \in S : b <= x}
      <4>1. ASSUME NEW b \in S, b <= x PROVE b \in P
        <5>1. b \in Nat /\ x \in Nat
          BY <1>0, <1>2
        <5>2. b \notin P => x < b
          BY <1>4
        <5> QED
          BY <4>1, <5>1, <5>2
      <4> QED
        BY <1>2, <3>2, <4>1
    <3>4. Cardinality(P) = Rank(S, x)
      BY <3>3 DEF Rank
    <3> QED
      BY <1>2, <3>4
  <2> QED
    BY <2>1, <2>2
<1>6. ASSUME S # {} PROVE P # {}
  <2>1. PICK x \in S : \A y \in S : x <= y
    BY <1>0, <1>6, LeastElement
  <2>2. {b \in S : b <= x} = {x}
    <3>1. \A b \in S : b <= x <=> b = x
      BY <1>0, <2>1
    <3> QED
      BY <3>1
  <2>3. Rank(S, x) = 1
    BY <2>2, FS_Singleton DEF Rank
  <2> QED
    BY <1>2, <2>3
<1>7. ASSUME Cardinality(P) < limit PROVE P = S
  <2> SUFFICES ASSUME S \ P # {} PROVE FALSE
    BY <1>2
  <2>1. PICK x \in S \ P : \A y \in S \ P : x <= y
    BY <1>0, LeastElement
  <2>2. {b \in S : b <= x} = P \cup {x}
    <3>1. ASSUME NEW b \in S, b <= x, b # x PROVE b \in P
      <4>1. b \in Nat /\ x \in Nat
        BY <1>0
      <4>2. b \notin P => x <= b
        BY <2>1
      <4> QED
        BY <3>1, <4>1, <4>2
    <3>2. \A b \in P : b \in S /\ b <= x
      BY <1>0, <1>2, <1>4
    <3>3. x <= x
      BY <1>0
    <3> QED
      BY <3>1, <3>2, <3>3
  <2>3. Rank(S, x) = Cardinality(P) + 1
    BY <1>3, <2>2, FS_AddElement DEF Rank
  <2> QED
    BY <1>2, <1>3, <1>7, <2>3
<1> QED
  BY <1>2, <1>3, <1>4, <1>5, <1>6, <1>7 DEF P

\* The page of recoverable rows behind a cursor: within the limit, in order, and
\* a row that is not in it comes after a full one.
LEMMA PageOfRows ==
    ASSUME TypeOK, NEW after \in 0 .. MaxId, NEW limit \in Nat \ {0}
    PROVE  LET values == RecoverableAttempts(after, limit)
           IN  /\ values \in Seq([id : Ids, due : BOOLEAN])
               /\ Len(values) <= limit
               /\ \A i \in DOMAIN values : values[i].id > after
               /\ \A i, j \in DOMAIN values : i < j => values[i].id < values[j].id
               /\ \A a \in Ids : a > after /\ row[a] \in Recoverable =>
                     /\ values # <<>>
                     /\ \/ \E i \in DOMAIN values : values[i].id = a
                        \/ /\ Len(values) = limit
                           /\ \A i \in DOMAIN values : values[i].id < a
<1> DEFINE found == {a \in Ids : a > after /\ row[a] \in Recoverable}
           page == Upper(found, limit)
           c == Cardinality(page)
           values == RecoverableAttempts(after, limit)
           due(a) == row[a] = "due"
<1>1. values = [i \in 1 .. c |-> [id |-> Ranked(page, i), due |-> due(Ranked(page, i))]]
  BY DEF RecoverableAttempts, Upper, Rank, Ranked
<1>2. MaxId \in Nat /\ found \subseteq 1 .. MaxId
  BY SchedulerAssumption DEF Ids
<1>3. \A a \in found : a \in Ids /\ a \in Nat /\ a > after
  BY DEF Ids
<1>4. \A a \in Ids : a > after /\ row[a] \in Recoverable => a \in found
  OBVIOUS
<1>5. \A a : due(a) \in BOOLEAN
  OBVIOUS
<1> HIDE DEF found, values, due
<1>6. /\ page \subseteq found
      /\ c \in Nat
      /\ c <= limit
      /\ found # {} => page # {}
      /\ c < limit => page = found
      /\ \A a \in found \ page, b \in page : b < a
  BY <1>2, FirstOfSet
<1> HIDE DEF page
<1>7. page \subseteq 1 .. MaxId
  BY <1>2, <1>6
<1>8. /\ IsFiniteSet(page)
      /\ \A a \in page : Rank(page, a) \in 1 .. c
      /\ \A a, b \in page : a < b => Rank(page, a) < Rank(page, b)
      /\ \A a, b \in page : Rank(page, a) = Rank(page, b) => a = b
  BY <1>2, <1>7, RankGrows
<1>9. \A i \in 1 .. c : Ranked(page, i) \in page /\ Rank(page, Ranked(page, i)) = i
  BY <1>2, <1>7, RankIsOnto
<1>10. c = 0 => page = {}
  BY <1>8, FS_EmptySet
<1> HIDE DEF c
<1>11. /\ values \in Seq([id : Ids, due : BOOLEAN])
       /\ Len(values) = c /\ DOMAIN values = 1 .. c
       /\ \A i \in 1 .. c : values[i].id = Ranked(page, i)
  <2>1. \A i \in 1 .. c :
           [id |-> Ranked(page, i), due |-> due(Ranked(page, i))] \in [id : Ids, due : BOOLEAN]
    BY <1>3, <1>5, <1>6, <1>9
  <2> DEFINE elem(i) == [id |-> Ranked(page, i), due |-> due(Ranked(page, i))]
             E == [id : Ids, due : BOOLEAN]
  <2>2. values = [i \in 1 .. c |-> elem(i)] /\ \A i \in 1 .. c : elem(i) \in E
    BY <1>1, <2>1
  <2>3. \A i : elem(i).id = Ranked(page, i)
    OBVIOUS
  <2> HIDE DEF elem, E
  <2>4. values \in [1 .. c -> E]
    BY <2>2
  <2>5. values \in Seq(E) /\ Len(values) = c
    BY <1>6, <2>4
  <2>6. DOMAIN values = 1 .. c /\ \A i \in 1 .. c : values[i].id = Ranked(page, i)
    BY <2>2, <2>3
  <2> QED
    BY <2>5, <2>6 DEF E
<1>12. \A i \in 1 .. c : values[i].id > after
  BY <1>3, <1>6, <1>9, <1>11
<1>13. ASSUME NEW i \in 1 .. c, NEW j \in 1 .. c, i < j
       PROVE  values[i].id < values[j].id
  <2> DEFINE x == Ranked(page, i)
             y == Ranked(page, j)
  <2>1. x \in page /\ y \in page /\ Rank(page, x) = i /\ Rank(page, y) = j
    BY <1>9
  <2>2. x \in Nat /\ y \in Nat /\ i \in Nat /\ j \in Nat
    BY <1>3, <1>6, <2>1
  <2>3. values[i].id = x /\ values[j].id = y
    BY <1>11
  <2> HIDE DEF x, y
  <2>4. x # y
    BY <1>13, <2>1, <2>2
  <2>5. ~(y < x)
    <3>1. y < x => j < i
      BY <1>8, <2>1
    <3> QED
      BY <1>13, <2>2, <3>1
  <2> QED
    BY <2>2, <2>3, <2>4, <2>5
<1>14. ASSUME NEW a \in found
       PROVE  /\ values # <<>>
              /\ \/ \E i \in 1 .. c : values[i].id = a
                 \/ c = limit /\ \A i \in 1 .. c : values[i].id < a
  <2>1. values # <<>>
    <3>1. c # 0
      BY <1>6, <1>10
    <3> QED
      BY <1>11, <3>1
  <2>2. CASE a \in page
    <3> DEFINE k == Rank(page, a)
    <3>1. k \in 1 .. c
      BY <1>8, <2>2
    <3>2. Ranked(page, k) = a
      BY <1>8, <1>9, <2>2, <3>1
    <3> HIDE DEF k
    <3> QED
      BY <1>11, <2>1, <3>1, <3>2
  <2>3. CASE a \notin page
    <3>1. c = limit
      BY <1>6, <2>3
    <3>2. \A i \in 1 .. c : values[i].id < a
      BY <1>6, <1>9, <1>11, <2>3
    <3> QED
      BY <2>1, <3>1, <3>2
  <2> QED
    BY <2>2, <2>3
<1> QED
  BY <1>4, <1>6, <1>11, <1>12, <1>13, <1>14 DEF values

-----------------------------------------------------------------------------
\* The inductive invariant, action by action.

\* Rows that are created or worked on: a row that becomes recoverable was new, and
\* no sweep had missed it.
LEMMA RowsChange ==
    ASSUME SchedulerInv, NEW a \in Ids, NEW s \in Rows,
           \/ row[a] \in Recoverable /\ s # "none"
           \/ row[a] = "none" /\ s = "due",
           row' = [row EXCEPT ![a] = s],
           UNCHANGED <<recoveryAfter, scan, missed>>
    PROVE  row' \in [Ids -> Rows] /\ SweepInv'
<1>1. row' \in [Ids -> Rows]
  BY DEF SchedulerInv, TypeOK
<1>2. ASSUME NEW b \in Ids
      PROVE  /\ row'[b] = "none" => row[b] = "none"
             /\ row'[b] \in Recoverable => row[b] \in Recoverable \/ missed[b] = 0
  BY DEF SchedulerInv, TypeOK, SweepInv, Recoverable
<1> QED
  BY <1>1, <1>2 DEF SchedulerInv, SweepInv

\* The channel never holds more than its capacity.
LEMMA EnqueueFits ==
    ASSUME TypeOK, NEW a \in Ids, enqueue(a)
    PROVE  queue' \in Seq(Ids) /\ Len(queue') <= QueueCap
<1>1. queue \in Seq(Ids) /\ Len(queue) \in Nat /\ Len(queue) <= QueueCap /\ QueueCap \in Nat
  BY SchedulerAssumption DEF TypeOK
<1>2. CASE CanEnqueue
  <2>1. queue' = Append(queue, a) /\ Len(queue) < QueueCap
    BY <1>2 DEF enqueue, CanEnqueue
  <2> QED
    BY <1>1, <2>1
<1>3. CASE ~CanEnqueue
  BY <1>1, <1>3 DEF enqueue
<1> QED
  BY <1>2, <1>3

\* The rows in work are finitely many.
LEMMA InflightFinite ==
    ASSUME TypeOK
    PROVE  IsFiniteSet(inflight) /\ Cardinality(inflight) \in Nat
<1>1. IsFiniteSet(Ids)
  BY SchedulerAssumption, FS_Interval DEF Ids
<1>2. IsFiniteSet(inflight)
  BY <1>1, FS_Subset DEF TypeOK
<1> QED
  BY <1>2, FS_CardinalityType

LEMMA CreateStep ==
    ASSUME SchedulerInv, NEW a \in Ids, Create(a)
    PROVE  SchedulerInv'
<1>1. row' \in [Ids -> Rows] /\ SweepInv'
  BY RowsChange DEF Create, Rows, Recoverable
<1>2. queue' \in Seq(Ids) /\ Len(queue') <= QueueCap
  BY EnqueueFits DEF Create, SchedulerInv
<1> QED
  BY <1>1, <1>2 DEF SchedulerInv, TypeOK, PageInv, Create

LEMMA ReplayStep ==
    ASSUME SchedulerInv, NEW a \in Ids, Replay(a)
    PROVE  SchedulerInv'
<1>1. queue' \in Seq(Ids) /\ Len(queue') <= QueueCap
  BY EnqueueFits DEF Replay, SchedulerInv
<1>2. faults' \in 0 .. MaxFaults
  BY SchedulerAssumption DEF Replay, Fault, SchedulerInv, TypeOK
<1>3. SweepInv' /\ PageInv'
  BY DEF Replay, SchedulerInv, SweepInv, PageInv
<1> QED
  BY <1>1, <1>2, <1>3 DEF SchedulerInv, TypeOK, Replay

LEMMA CancelStep ==
    ASSUME SchedulerInv, NEW a \in Ids, Cancel(a)
    PROVE  SchedulerInv'
<1>1. row' \in [Ids -> Rows] /\ SweepInv'
  BY RowsChange DEF Cancel, Rows, Recoverable
<1> QED
  BY <1>1 DEF SchedulerInv, TypeOK, PageInv, Cancel

LEMMA RestedStep ==
    ASSUME SchedulerInv, NEW a \in Ids, Rested(a)
    PROVE  SchedulerInv'
<1>1. row' \in [Ids -> Rows] /\ SweepInv'
  BY RowsChange DEF Rested, Rows, Recoverable
<1> QED
  BY <1>1 DEF SchedulerInv, TypeOK, PageInv, Rested

LEMMA ProcessStep ==
    ASSUME SchedulerInv, NEW a \in Ids, Process(a)
    PROVE  SchedulerInv'
<1>1. row' \in [Ids -> Rows] /\ SweepInv'
  <2>1. CASE row[a] \in Recoverable
    <3>1. PICK s \in Rows \ {"none"} : row' = [row EXCEPT ![a] = s]
      BY <2>1 DEF Process
    <3> QED
      BY <2>1, <3>1, RowsChange DEF Process
  <2>2. CASE row[a] \notin Recoverable
    <3>1. row' = [row EXCEPT ![a] = row[a]]
      BY <2>2 DEF Process
    <3>2. row' = row
      BY <3>1 DEF SchedulerInv, TypeOK
    <3> QED
      BY <3>2 DEF SchedulerInv, TypeOK, SweepInv, Process
  <2> QED
    BY <2>1, <2>2
<1>2. inflight' \subseteq Ids /\ Cardinality(inflight') <= WorkerCount
  <2>1. IsFiniteSet(inflight) /\ Cardinality(inflight) \in Nat
    BY InflightFinite DEF SchedulerInv
  <2>2. inflight' \in SUBSET inflight
    BY DEF Process
  <2>3. Cardinality(inflight') \in Nat /\ Cardinality(inflight') <= Cardinality(inflight)
    BY <2>1, <2>2, FS_Subset, FS_CardinalityType
  <2>4. inflight \subseteq Ids /\ Cardinality(inflight) <= WorkerCount /\ WorkerCount \in Nat
    BY SchedulerAssumption DEF SchedulerInv, TypeOK
  <2> QED
    BY <2>1, <2>2, <2>3, <2>4
<1> QED
  BY <1>1, <1>2 DEF SchedulerInv, TypeOK, PageInv, Process

LEMMA DequeueStep ==
    ASSUME SchedulerInv, Dequeue
    PROVE  SchedulerInv'
<1>1. IsFiniteSet(inflight) /\ Cardinality(inflight) \in Nat
  BY InflightFinite DEF SchedulerInv
<1>2. queue \in Seq(Ids) /\ queue # <<>> /\ Len(queue) <= QueueCap /\ QueueCap \in Nat
  BY SchedulerAssumption DEF SchedulerInv, TypeOK, Dequeue
<1>3. Head(queue) \in Ids /\ Tail(queue) \in Seq(Ids) /\ Len(Tail(queue)) <= QueueCap
  BY <1>2
<1>4. Cardinality(inflight') <= WorkerCount
  <2> DEFINE h == Head(queue)
  <2>1. inflight' = inflight \cup {h}
    BY DEF Dequeue
  <2> HIDE DEF h
  <2>2. \/ Cardinality(inflight') = Cardinality(inflight)
        \/ Cardinality(inflight') = Cardinality(inflight) + 1
    BY <1>1, <2>1, FS_AddElement
  <2> QED
    BY <1>1, <2>2, SchedulerAssumption DEF Dequeue
<1> QED
  BY <1>3, <1>4 DEF SchedulerInv, TypeOK, PageInv, SweepInv, Dequeue

\* The record of a scan that is not running.
LEMMA NoScanTypes ==
    /\ NoScan \in [pc : {"idle", "read", "send"}, limit : 0 .. BatchSize,
                   values : Seq([id : Ids, due : BOOLEAN]), short : BOOLEAN]
    /\ NoScan.pc = "idle" /\ NoScan.values = <<>> /\ NoScan.limit = 0
<1>1. 0 \in 0 .. BatchSize /\ <<>> \in Seq([id : Ids, due : BOOLEAN]) /\ FALSE \in BOOLEAN
  BY SchedulerAssumption
<1> QED
  BY <1>1 DEF NoScan

\* A scan that ends: nothing of it is left.
LEMMA ScanEnds ==
    ASSUME scan' = NoScan
    PROVE  /\ scan' \in [pc : {"idle", "read", "send"}, limit : 0 .. BatchSize,
                         values : Seq([id : Ids, due : BOOLEAN]), short : BOOLEAN]
           /\ Len(scan'.values) <= scan'.limit
           /\ \A i \in DOMAIN scan'.values : scan'.values[i].id > recoveryAfter'
           /\ PageInv'
           /\ scan'.pc = "idle"
<1>1. scan'.pc = "idle" /\ scan'.values = <<>> /\ scan'.limit = 0
  BY NoScanTypes
<1>2. Len(<<>>) = 0 /\ DOMAIN <<>> = {}
  OBVIOUS
<1> QED
  BY <1>1, <1>2, NoScanTypes DEF PageInv

LEMMA MeasureStep ==
    ASSUME SchedulerInv, Measure
    PROVE  SchedulerInv'
<1> DEFINE limit == IF BatchSize < QueueCap - Len(queue) THEN BatchSize ELSE QueueCap - Len(queue)
<1>1. limit \in 0 .. BatchSize /\ limit # 0
  <2>1. Len(queue) \in Nat /\ QueueCap \in Nat /\ BatchSize \in Nat \ {0} /\ Len(queue) < QueueCap
    BY SchedulerAssumption DEF SchedulerInv, TypeOK, Measure, CanEnqueue
  <2> QED
    BY <2>1
<1>2. scan' = [NoScan EXCEPT !.pc = "read", !.limit = limit]
  BY DEF Measure
<1> HIDE DEF limit
<1>3. /\ scan' \in [pc : {"idle", "read", "send"}, limit : 0 .. BatchSize,
                    values : Seq([id : Ids, due : BOOLEAN]), short : BOOLEAN]
      /\ scan'.pc = "read" /\ scan'.values = <<>> /\ scan'.limit = limit
  BY <1>1, <1>2, NoScanTypes DEF NoScan
<1>4. Len(scan'.values) <= scan'.limit /\ DOMAIN scan'.values = {}
  BY <1>1, <1>3
<1>5. PageInv'
  BY <1>1, <1>3 DEF PageInv
<1>6. SweepInv'
  BY <1>3 DEF SweepInv, SchedulerInv, Measure
<1> QED
  BY <1>3, <1>4, <1>5, <1>6 DEF SchedulerInv, TypeOK, Measure

LEMMA ReadFailsStep ==
    ASSUME SchedulerInv, ReadFails
    PROVE  SchedulerInv'
<1>1. scan' = NoScan
  BY DEF ReadFails
<1>2. faults' \in 0 .. MaxFaults
  BY SchedulerAssumption DEF ReadFails, Fault, SchedulerInv, TypeOK
<1>3. SweepInv'
  BY <1>1, ScanEnds DEF SweepInv, SchedulerInv, ReadFails
<1> QED
  BY <1>1, <1>2, <1>3, ScanEnds DEF SchedulerInv, TypeOK, ReadFails

LEMMA CrashStep ==
    ASSUME SchedulerInv, Crash
    PROVE  SchedulerInv'
<1>1. scan' = NoScan
  BY DEF Crash
<1>2. faults' \in 0 .. MaxFaults
  BY SchedulerAssumption DEF Crash, Fault, SchedulerInv, TypeOK
<1>3. queue' \in Seq(Ids) /\ Len(queue') <= QueueCap
  BY SchedulerAssumption DEF Crash
<1>4. inflight' \subseteq Ids /\ Cardinality(inflight') <= WorkerCount
  BY SchedulerAssumption, FS_EmptySet DEF Crash
<1>5. missed' \in [Ids -> 0 .. 2] /\ recoveryAfter' \in 0 .. MaxId
  BY SchedulerAssumption DEF Crash
<1>6. SweepInv'
  BY DEF Crash, SweepInv
<1> QED
  BY <1>1, <1>2, <1>3, <1>4, <1>5, <1>6, ScanEnds DEF SchedulerInv, TypeOK, Crash

\* A sweep ends, and no recoverable row was left over from the one before: each
\* has been missed at most by the one that ends, and the cursor is before it.
LEMMA SweepEnds ==
    ASSUME SchedulerInv, NEW history \in [Ids -> 0 .. 2],
           \A a \in Ids : row[a] \in Recoverable => history[a] = 0,
           \A a \in Ids : row[a] = "none" => history[a] = 0,
           row' = row, recoveryAfter' = 0, missed' = Missed(history), scan' = NoScan
    PROVE  missed' \in [Ids -> 0 .. 2] /\ SweepInv'
<1>1. \A a \in Ids : /\ missed'[a] \in 0 .. 2
                     /\ row[a] \in Recoverable => missed'[a] = 1
                     /\ row[a] = "none" => missed'[a] = 0
  <2> SUFFICES ASSUME NEW a \in Ids
               PROVE  /\ missed'[a] \in 0 .. 2
                      /\ row[a] \in Recoverable => missed'[a] = 1
                      /\ row[a] = "none" => missed'[a] = 0
    OBVIOUS
  <2>1. missed'[a] = IF row[a] \in Recoverable /\ history[a] < 2
                     THEN history[a] + 1 ELSE history[a]
    BY DEF Missed
  <2>2. history[a] \in 0 .. 2
    OBVIOUS
  <2>3. row[a] = "none" => row[a] \notin Recoverable
    BY DEF Recoverable
  <2> QED
    BY <2>1, <2>2, <2>3
<1>2. missed' \in [Ids -> 0 .. 2]
  <2>1. DOMAIN missed' = Ids /\ missed' = [a \in Ids |-> missed'[a]]
    BY DEF Missed
  <2> QED
    BY <1>1, <2>1
<1>3. \A a \in Ids : a > 0
  BY DEF Ids
<1>4. scan'.pc = "idle"
  BY ScanEnds
<1> QED
  BY <1>1, <1>2, <1>3, <1>4 DEF SweepInv

LEMMA ReadStep ==
    ASSUME SchedulerInv, Read
    PROVE  SchedulerInv'
<1> DEFINE values == RecoverableAttempts(recoveryAfter, scan.limit)
<1>1. recoveryAfter \in 0 .. MaxId /\ scan.limit \in Nat \ {0} /\ scan.limit \in 0 .. BatchSize
  BY SchedulerAssumption DEF SchedulerInv, TypeOK, PageInv, Read
<1>2. /\ values \in Seq([id : Ids, due : BOOLEAN])
      /\ Len(values) <= scan.limit
      /\ \A i \in DOMAIN values : values[i].id > recoveryAfter
      /\ \A i, j \in DOMAIN values : i < j => values[i].id < values[j].id
      /\ \A a \in Ids : a > recoveryAfter /\ row[a] \in Recoverable =>
            /\ values # <<>>
            /\ \/ \E i \in DOMAIN values : values[i].id = a
               \/ /\ Len(values) = scan.limit
                  /\ \A i \in DOMAIN values : values[i].id < a
  BY <1>1, PageOfRows DEF SchedulerInv
<1>3. /\ scan.pc = "read"
      /\ values = <<>> => scan' = NoScan /\ recoveryAfter' = 0 /\ missed' = Missed(missed)
      /\ values # <<>> => /\ scan' = [scan EXCEPT !.pc = "send", !.values = values,
                                                  !.short = Len(values) < scan.limit]
                          /\ UNCHANGED <<recoveryAfter, missed>>
      /\ UNCHANGED <<row, queue, inflight, faults>>
  BY DEF Read
<1> HIDE DEF values
<1>4. CASE values = <<>>
  <2>1. missed \in [Ids -> 0 .. 2]
    BY DEF SchedulerInv, TypeOK
  <2>2. \A a \in Ids : row[a] \in Recoverable => missed[a] = 0
    BY <1>2, <1>4 DEF SchedulerInv, SweepInv
  <2>3. \A a \in Ids : row[a] = "none" => missed[a] = 0
    BY DEF SchedulerInv, SweepInv
  <2>4. missed' \in [Ids -> 0 .. 2] /\ SweepInv'
    BY <1>3, <1>4, <2>1, <2>2, <2>3, SweepEnds
  <2>5. recoveryAfter' \in 0 .. MaxId
    BY <1>3, <1>4, SchedulerAssumption
  <2>6. scan' = NoScan
    BY <1>3, <1>4
  <2> QED
    BY <1>3, <2>4, <2>5, <2>6, ScanEnds DEF SchedulerInv, TypeOK
<1>5. CASE values # <<>>
  <2> DEFINE short == Len(values) < scan.limit
  <2>1. short \in BOOLEAN
    OBVIOUS
  <2>2. scan' = [scan EXCEPT !.pc = "send", !.values = values, !.short = short]
    BY <1>3, <1>5
  <2> HIDE DEF short
  <2>3. /\ scan' \in [pc : {"idle", "read", "send"}, limit : 0 .. BatchSize,
                      values : Seq([id : Ids, due : BOOLEAN]), short : BOOLEAN]
        /\ scan'.pc = "send" /\ scan'.values = values
        /\ scan'.limit = scan.limit /\ scan'.short = short
    BY <1>2, <2>1, <2>2 DEF SchedulerInv, TypeOK
  <2>4. PageInv'
    BY <1>2, <1>5, <2>3 DEF PageInv
  <2>5. SweepInv'
    <3>1. Len(values) = scan.limit => ~short
      BY <1>1 DEF short
    <3> QED
      BY <1>2, <1>3, <1>5, <2>3, <3>1 DEF SweepInv, SchedulerInv
  <2> QED
    BY <1>2, <1>3, <1>5, <2>3, <2>4, <2>5 DEF SchedulerInv, TypeOK
<1> QED
  BY <1>4, <1>5

\* What the scan knows of the page it sends.
LEMMA PageFacts ==
    ASSUME SchedulerInv, scan.pc = "send"
    PROVE  /\ scan.values \in Seq([id : Ids, due : BOOLEAN]) /\ scan.values # <<>>
           /\ Len(scan.values) \in Nat \ {0} /\ DOMAIN scan.values = 1 .. Len(scan.values)
           /\ Head(scan.values) = scan.values[1]
           /\ \A i \in 1 .. Len(scan.values) :
                 /\ scan.values[i].id \in Ids /\ scan.values[i].id \in Nat
                 /\ scan.values[i].id > recoveryAfter
           /\ \A i, j \in 1 .. Len(scan.values) : i < j => scan.values[i].id < scan.values[j].id
<1>1. scan.values \in Seq([id : Ids, due : BOOLEAN]) /\ scan.values # <<>>
  BY DEF SchedulerInv, TypeOK, PageInv
<1>2. /\ Len(scan.values) \in Nat \ {0} /\ DOMAIN scan.values = 1 .. Len(scan.values)
      /\ Head(scan.values) = scan.values[1]
  BY <1>1
<1>3. \A i \in 1 .. Len(scan.values) : scan.values[i] \in [id : Ids, due : BOOLEAN]
  <2> DEFINE E == [id : Ids, due : BOOLEAN]
             v == scan.values
  <2>1. v \in Seq(E)
    BY <1>1
  <2> HIDE DEF E, v
  <2>2. \A i \in 1 .. Len(v) : v[i] \in E
    BY <2>1
  <2> QED
    BY <2>2 DEF E, v
<1>4. \A i \in 1 .. Len(scan.values) : scan.values[i].id \in Ids /\ scan.values[i].id \in Nat
  BY <1>3 DEF Ids
<1> QED
  BY <1>1, <1>2, <1>4 DEF SchedulerInv, TypeOK, PageInv

\* The rows of the page behind the first.
LEMMA TailOfPage ==
    ASSUME SchedulerInv, scan.pc = "send", Len(scan.values) > 1,
           scan' = [scan EXCEPT !.values = Tail(@)],
           recoveryAfter' = Head(scan.values).id
    PROVE  /\ scan' \in [pc : {"idle", "read", "send"}, limit : 0 .. BatchSize,
                         values : Seq([id : Ids, due : BOOLEAN]), short : BOOLEAN]
           /\ scan'.pc = "send" /\ scan'.short = scan.short
           /\ Len(scan'.values) <= scan'.limit
           /\ DOMAIN scan'.values = 1 .. Len(scan.values) - 1
           /\ \A i \in DOMAIN scan'.values : scan'.values[i] = scan.values[i + 1]
           /\ \A i \in DOMAIN scan'.values : scan'.values[i].id > recoveryAfter'
           /\ PageInv'
<1> DEFINE v == scan.values
           n == Len(scan.values)
           t == Tail(scan.values)
<1>1. /\ v \in Seq([id : Ids, due : BOOLEAN]) /\ v # <<>>
      /\ n \in Nat \ {0} /\ DOMAIN v = 1 .. n /\ n > 1
      /\ Head(v) = v[1]
      /\ \A i \in 1 .. n : v[i].id \in Nat
      /\ \A i, j \in 1 .. n : i < j => v[i].id < v[j].id
  BY PageFacts
<1>2. /\ t \in Seq([id : Ids, due : BOOLEAN])
      /\ Len(t) = n - 1 /\ DOMAIN t = 1 .. n - 1
      /\ \A i \in 1 .. n - 1 : t[i] = v[i + 1]
  BY <1>1
<1>3. /\ scan' \in [pc : {"idle", "read", "send"}, limit : 0 .. BatchSize,
                    values : Seq([id : Ids, due : BOOLEAN]), short : BOOLEAN]
      /\ scan'.pc = "send" /\ scan'.short = scan.short
      /\ scan'.values = t /\ scan'.limit = scan.limit
  BY <1>2 DEF SchedulerInv, TypeOK
<1>4. n <= scan.limit /\ scan.limit \in Nat /\ recoveryAfter' = v[1].id
  BY <1>1, SchedulerAssumption DEF SchedulerInv, TypeOK
<1> HIDE DEF v, n, t
<1>5. Len(scan'.values) <= scan'.limit
  BY <1>1, <1>2, <1>3, <1>4
<1>6. \A i \in 1 .. n - 1 : i + 1 \in 1 .. n /\ 1 \in 1 .. n /\ 1 < i + 1
  BY <1>1
<1>7. \A i \in 1 .. n - 1 : t[i].id > v[1].id
  <2> SUFFICES ASSUME NEW i \in 1 .. n - 1 PROVE t[i].id > v[1].id
    OBVIOUS
  <2>1. v[1].id < v[i + 1].id
    BY <1>1, <1>6
  <2>2. v[1].id \in Nat /\ v[i + 1].id \in Nat
    BY <1>1, <1>6
  <2> QED
    BY <1>2, <2>1, <2>2
<1>8. ASSUME NEW i \in 1 .. n - 1, NEW j \in 1 .. n - 1, i < j
      PROVE  t[i].id < t[j].id
  <2>1. i + 1 < j + 1
    BY <1>1, <1>8
  <2> QED
    BY <1>1, <1>2, <1>6, <2>1
<1>9. t # <<>>
  BY <1>1, <1>2
<1>10. PageInv'
  BY <1>2, <1>3, <1>8, <1>9 DEF PageInv
<1> QED
  BY <1>2, <1>3, <1>4, <1>5, <1>7, <1>10 DEF v, n

LEMMA SendStep ==
    ASSUME SchedulerInv, Send
    PROVE  SchedulerInv'
<1> DEFINE value == Head(scan.values)
           looked == [missed EXCEPT ![value.id] = 0]
           n == Len(scan.values)
<1>0. scan.pc = "send" /\ UNCHANGED <<row, inflight, faults>>
  BY DEF Send
<1>1. /\ n \in Nat \ {0} /\ DOMAIN scan.values = 1 .. n
      /\ value = scan.values[1]
      /\ \A i \in 1 .. n :
            /\ scan.values[i].id \in Ids /\ scan.values[i].id \in Nat
            /\ scan.values[i].id > recoveryAfter
      /\ \A i, j \in 1 .. n : i < j => scan.values[i].id < scan.values[j].id
  BY <1>0, PageFacts
<1>2. value.id \in Ids /\ value.id \in 0 .. MaxId
  BY <1>1 DEF Ids
<1>3. looked \in [Ids -> 0 .. 2] /\ \A a \in Ids : looked[a] = IF a = value.id THEN 0 ELSE missed[a]
  <2>1. missed \in [Ids -> 0 .. 2] /\ 0 \in 0 .. 2
    BY DEF SchedulerInv, TypeOK
  <2> QED
    BY <1>2, <2>1
<1>4. \A a \in Ids :
        /\ row[a] = "none" => looked[a] = 0
        /\ row[a] \in Recoverable /\ looked[a] # 0 =>
              /\ looked[a] = 1 /\ a # value.id
              /\ \/ \E i \in 1 .. n : scan.values[i].id = a
                 \/ ~scan.short /\ \A i \in 1 .. n : scan.values[i].id < a
  BY <1>0, <1>1, <1>3 DEF SchedulerInv, SweepInv
<1>5. CASE value.due /\ ~CanEnqueue
  <2>1. scan' = NoScan /\ UNCHANGED <<queue, recoveryAfter, missed>>
    BY <1>5 DEF Send
  <2>2. SweepInv'
    BY <1>0, <2>1, ScanEnds DEF SweepInv, SchedulerInv
  <2> QED
    BY <1>0, <2>1, <2>2, ScanEnds DEF SchedulerInv, TypeOK
<1>6. CASE ~(value.due /\ ~CanEnqueue)
  <2>1. /\ queue' = IF value.due THEN Append(queue, value.id) ELSE queue
        /\ n > 1 => scan' = [scan EXCEPT !.values = Tail(@)]
        /\ ~(n > 1) => scan' = NoScan
        /\ n = 1 /\ scan.short => recoveryAfter' = 0 /\ missed' = Missed(looked)
        /\ ~(n = 1 /\ scan.short) => recoveryAfter' = value.id /\ missed' = looked
    BY <1>6 DEF Send, Passes
  <2>2. queue' \in Seq(Ids) /\ Len(queue') <= QueueCap
    <3>1. queue \in Seq(Ids) /\ Len(queue) \in Nat /\ Len(queue) <= QueueCap /\ QueueCap \in Nat
      BY SchedulerAssumption DEF SchedulerInv, TypeOK
    <3>2. CASE value.due
      <4>1. Len(queue) < QueueCap /\ queue' = Append(queue, value.id)
        BY <1>6, <2>1, <3>2 DEF CanEnqueue
      <4> HIDE DEF value
      <4> QED
        BY <1>2, <3>1, <4>1
    <3>3. CASE ~value.due
      BY <2>1, <3>1, <3>3
    <3> QED
      BY <3>2, <3>3
  <2> HIDE DEF value, looked, n
  <2>3. CASE n = 1 /\ scan.short
    <3>1. scan' = NoScan /\ recoveryAfter' = 0 /\ missed' = Missed(looked)
      BY <2>1, <2>3
    <3>2. \A a \in Ids : row[a] \in Recoverable => looked[a] = 0
      <4>1. \A i \in 1 .. n : i = 1
        BY <2>3
      <4> QED
        BY <1>1, <1>4, <2>3, <4>1
    <3>3. missed' \in [Ids -> 0 .. 2] /\ SweepInv'
      BY <1>0, <1>3, <1>4, <3>1, <3>2, SweepEnds
    <3>4. recoveryAfter' \in 0 .. MaxId
      BY <3>1, SchedulerAssumption
    <3> QED
      BY <1>0, <2>2, <3>1, <3>3, <3>4, ScanEnds DEF SchedulerInv, TypeOK
  <2>4. CASE n = 1 /\ ~scan.short
    <3>1. scan' = NoScan /\ recoveryAfter' = value.id /\ missed' = looked
      BY <2>1, <2>4
    <3>2. SweepInv'
      <4>1. \A i \in 1 .. n : i = 1
        BY <2>4
      <4>2. \A a \in Ids : row[a] \in Recoverable /\ looked[a] # 0 => value.id < a
        BY <1>1, <1>4, <2>4, <4>1
      <4>3. \A a \in Ids : a \in Nat /\ value.id \in Nat
        BY <1>2 DEF Ids
      <4> QED
        BY <1>0, <1>4, <3>1, <4>2, <4>3, ScanEnds DEF SweepInv
    <3> QED
      BY <1>0, <1>2, <1>3, <2>2, <3>1, <3>2, ScanEnds DEF SchedulerInv, TypeOK
  <2>5. CASE n > 1
    <3>1. /\ scan' = [scan EXCEPT !.values = Tail(@)]
          /\ recoveryAfter' = value.id /\ missed' = looked
      BY <2>1, <2>5
    <3>2. /\ scan' \in [pc : {"idle", "read", "send"}, limit : 0 .. BatchSize,
                        values : Seq([id : Ids, due : BOOLEAN]), short : BOOLEAN]
          /\ scan'.pc = "send" /\ scan'.short = scan.short
          /\ Len(scan'.values) <= scan'.limit
          /\ DOMAIN scan'.values = 1 .. n - 1
          /\ \A i \in DOMAIN scan'.values : scan'.values[i] = scan.values[i + 1]
          /\ \A i \in DOMAIN scan'.values : scan'.values[i].id > recoveryAfter'
          /\ PageInv'
      BY <1>0, <2>5, <3>1, TailOfPage DEF value, n
    <3>3. SweepInv'
      <4> SUFFICES ASSUME NEW a \in Ids, row[a] \in Recoverable, looked[a] # 0
                   PROVE  /\ a > value.id
                          /\ \/ \E i \in 1 .. n - 1 : scan'.values[i].id = a
                             \/ ~scan.short /\ \A i \in 1 .. n - 1 : scan'.values[i].id < a
        BY <1>0, <1>4, <3>1, <3>2 DEF SweepInv
      <4>1. a \in Nat /\ value.id \in Nat /\ 1 \in 1 .. n
        BY <1>1, <1>2 DEF Ids
      <4>2. CASE \E i \in 1 .. n : scan.values[i].id = a
        <5>1. PICK i \in 1 .. n : scan.values[i].id = a
          BY <4>2
        <5>2. i # 1
          BY <1>1, <1>4, <5>1
        <5>3. 1 < i /\ i - 1 \in 1 .. n - 1 /\ (i - 1) + 1 = i
          BY <1>1, <5>2
        <5>4. value.id < a
          BY <1>1, <4>1, <5>1, <5>3
        <5>5. scan'.values[i - 1].id = a
          BY <3>2, <5>1, <5>3
        <5> QED
          BY <4>1, <5>3, <5>4, <5>5
      <4>3. CASE ~scan.short /\ \A i \in 1 .. n : scan.values[i].id < a
        <5>1. value.id < a
          BY <1>1, <4>1, <4>3
        <5>2. \A i \in 1 .. n - 1 : i + 1 \in 1 .. n
          BY <1>1
        <5> QED
          BY <3>2, <4>1, <4>3, <5>1, <5>2
      <4> QED
        BY <1>4, <4>2, <4>3
    <3> QED
      BY <1>0, <1>2, <1>3, <2>2, <3>1, <3>2, <3>3 DEF SchedulerInv, TypeOK
  <2> QED
    BY <1>1, <2>3, <2>4, <2>5
<1> QED
  BY <1>5, <1>6

-----------------------------------------------------------------------------
\* The theorems.

\* The scheduler's invariant holds in every reachable state: the channel, the
\* page, the cursor and the rows that the last sweep missed agree.
THEOREM SchedulerInvariant == Spec => []SchedulerInv
<1>1. Init => SchedulerInv
  <2> SUFFICES ASSUME Init PROVE SchedulerInv
    OBVIOUS
  <2>1. scan = NoScan /\ scan.pc = "idle" /\ scan.values = <<>> /\ scan.limit = 0
    BY NoScanTypes DEF Init
  <2>2. Len(<<>>) = 0 /\ DOMAIN <<>> = {}
    OBVIOUS
  <2>3. row \in [Ids -> Rows] /\ missed \in [Ids -> 0 .. 2]
    BY DEF Init, Rows
  <2>4. queue \in Seq(Ids) /\ Len(queue) <= QueueCap
    BY SchedulerAssumption DEF Init
  <2>5. inflight \subseteq Ids /\ Cardinality(inflight) <= WorkerCount
    BY SchedulerAssumption, FS_EmptySet DEF Init
  <2>6. recoveryAfter \in 0 .. MaxId /\ faults \in 0 .. MaxFaults
    BY SchedulerAssumption DEF Init
  <2>7. TypeOK
    BY <2>1, <2>2, <2>3, <2>4, <2>5, <2>6, NoScanTypes DEF TypeOK
  <2>8. PageInv
    BY <2>1 DEF PageInv
  <2>9. SweepInv
    BY DEF SweepInv, Init
  <2> QED
    BY <2>7, <2>8, <2>9 DEF SchedulerInv
<1>2. SchedulerInv /\ [Next]_vars => SchedulerInv'
  <2> SUFFICES ASSUME SchedulerInv, [Next]_vars PROVE SchedulerInv'
    OBVIOUS
  <2>1. CASE \E a \in Ids : Create(a) \/ Replay(a) \/ Cancel(a) \/ Process(a) \/ Rested(a)
    BY <2>1, CreateStep, ReplayStep, CancelStep, ProcessStep, RestedStep
  <2>2. CASE Measure \/ Read \/ ReadFails
    BY <2>2, MeasureStep, ReadStep, ReadFailsStep
  <2>3. CASE Send \/ Dequeue \/ Crash
    BY <2>3, SendStep, DequeueStep, CrashStep
  <2>4. CASE UNCHANGED vars
    BY <2>4 DEF vars, SchedulerInv, TypeOK, PageInv, SweepInv
  <2> QED
    BY <2>1, <2>2, <2>3, <2>4 DEF Next
<1> QED
  BY <1>1, <1>2, PTL DEF Spec

\* The type invariant: enqueue, the page's limit and the inflight set keep the
\* channel and the workers within their bounds.
THEOREM SchedulerTypes == Spec => []TypeOK
<1>1. SchedulerInv => TypeOK
  BY DEF SchedulerInv
<1> QED
  BY <1>1, SchedulerInvariant, PTL

\* scheduleRecoverable never goes round twice past a recoverable row.
THEOREM SweepReachesAll == Spec => []NoRowMissedTwice
<1>1. SchedulerInv => NoRowMissedTwice
  <2> SUFFICES ASSUME SchedulerInv, NEW a \in Ids, row[a] \in Recoverable
               PROVE  missed[a] < 2
    BY DEF NoRowMissedTwice
  <2>1. missed[a] = 0 \/ missed[a] = 1
    BY DEF SchedulerInv, SweepInv
  <2> QED
    BY <2>1
<1> QED
  BY <1>1, SchedulerInvariant, PTL
=============================================================================
