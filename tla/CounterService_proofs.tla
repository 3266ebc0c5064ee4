----------------------- MODULE CounterService_proofs -----------------------
(***************************************************************************)
(* What the counter service and its map promise for any registrations,     *)
(* hash functions and capacities, and for any clients and workers.         *)
(***************************************************************************)
EXTENDS CounterService, FiniteSetTheorems, WellFoundedInduction, TLAPS

(***************************************************************************)
(* Numbers.                                                                *)
(***************************************************************************)

LEMMA MinIsLeast ==
  ASSUME NEW S \in SUBSET Nat, S # {}
  PROVE  Min(S) \in S /\ \A y \in S : Min(S) <= y
<1> DEFINE R == {ss \in Nat \X Nat : ss[1] < ss[2]}
<1>1. OpToRel(<, Nat) = R
  BY DEF OpToRel
<1>2. IsWellFoundedOn(R, Nat)
  BY <1>1, NatLessThanWellFounded
<1>3. PICK x \in S : \A y \in S : ~ (<<y, x>> \in R)
  <2> HIDE DEF R
  <2> QED
    BY <1>2, WFMin
<1>4. ASSUME NEW y \in S PROVE x <= y
  <2>1. x \in Nat /\ y \in Nat
    OBVIOUS
  <2>2. ~ (y < x)
    BY <1>3, <2>1
  <2> QED
    BY <2>1, <2>2
<1> QED
  BY <1>4 DEF Min

LEMMA Division ==
  ASSUME NEW a \in Nat \ {0}, NEW n \in Nat
  PROVE  n = a * (n \div a) + (n % a) /\ n % a \in 0 .. a - 1 /\ n \div a \in Nat
OBVIOUS

LEMMA Remainder ==
  ASSUME NEW a \in Nat \ {0}, NEW n \in Nat, NEW q \in Nat, NEW r \in 0 .. a - 1, n = a * q + r
  PROVE  n % a = r
OBVIOUS

LEMMA NoRemainder ==
  ASSUME NEW a \in Nat \ {0}, NEW q \in Nat
  PROVE  (a * q) % a = 0
OBVIOUS

\* Of two factors the smaller one is below the root.
LEMMA SmallFactor ==
  ASSUME NEW a \in Nat, NEW b \in Nat, a * a > a * b
  PROVE  b < a
OBVIOUS

LEMMA SquareBelow ==
  ASSUME NEW a \in Nat, NEW b \in Nat, b < a, b > 0
  PROVE  b * b < a * b
OBVIOUS

LEMMA EvenFactor ==
  ASSUME NEW a \in Nat, NEW b \in Nat, a % 2 = 0
  PROVE  (a * b) % 2 = 0
<1>1. PICK k \in Nat : a = 2 * k
  OBVIOUS
<1>2. a * b = 2 * (k * b) /\ k * b \in Nat
  BY <1>1
<1> DEFINE m == k * b
<1>3. m \in Nat /\ a * b = 2 * m
  BY <1>2
<1> HIDE DEF m
<1>4. (2 * m) % 2 = 0
  BY <1>3
<1> QED
  BY <1>3, <1>4

Prime(n) == n > 2 /\ \A a \in 2 .. n - 1 : n % a # 0

\* check_prime, which tries the odd numbers up to the root, finds the odd primes.
LEMMA CheckPrime ==
  ASSUME NEW n \in Nat
  PROVE  check_prime(n) <=> Prime(n)
<1>1. ASSUME Prime(n) PROVE check_prime(n)
  <2>1. n > 2 /\ n % 2 # 0
    BY <1>1 DEF Prime
  <2>2. ASSUME NEW i \in 3 .. n, i * i <= n PROVE n % i # 0
    <3>1. i < i * i
      BY <2>2
    <3> QED
      BY <1>1, <2>2, <3>1 DEF Prime
  <2> QED
    BY <2>1, <2>2 DEF check_prime
<1>2. ASSUME check_prime(n), NEW a \in 2 .. n - 1, n % a = 0 PROVE FALSE
  <2> DEFINE b == n \div a
  <2>1. n = a * b /\ b \in Nat
    <3>1. a \in Nat \ {0} /\ n % a = 0
      BY <1>2
    <3>2. n = a * b + (n % a) /\ b \in Nat
      BY <3>1, Division
    <3>3. a * b \in Nat
      BY <3>1, <3>2
    <3> HIDE DEF b
    <3> QED
      BY <3>1, <3>2, <3>3
  <2> HIDE DEF b
  <2>2. b \in 2 .. n - 1
    <3>1. b # 0
      BY <1>2, <2>1 DEF check_prime
    <3>2. b # 1
      BY <1>2, <2>1
    <3>3. 2 * b <= a * b
      BY <2>1
    <3> QED
      BY <2>1, <3>1, <3>2, <3>3
  <2>3. n = b * a
    BY <2>1
  <2>4. a % 2 = 1 /\ b % 2 = 1
    <3>0. a \in Nat /\ b \in Nat
      BY <2>1
    <3>1. a % 2 # 0
      <4>1. a % 2 = 0 => (a * b) % 2 = 0
        BY <3>0, EvenFactor
      <4> QED
        BY <1>2, <2>1, <4>1 DEF check_prime
    <3>2. b % 2 # 0
      <4>1. b % 2 = 0 => (b * a) % 2 = 0
        BY <3>0, EvenFactor
      <4> QED
        BY <1>2, <2>3, <4>1 DEF check_prime
    <3> QED
      BY <2>1, <3>1, <3>2
  <2>5. n % b = 0
    <3>1. b \in Nat \ {0}
      BY <2>2
    <3>2. (b * a) % b = 0
      BY <3>1, NoRemainder
    <3> QED
      BY <2>3, <3>2
  <2>6. CASE a * a <= n
    <3>1. a \in 3 .. n
      BY <1>2, <2>4
    <3> QED
      BY <1>2, <2>4, <2>6, <3>1 DEF check_prime
  <2>7. CASE a * a > n
    <3>1. b < a
      BY <2>1, <2>7, SmallFactor
    <3>2. b * b < n
      BY <2>1, <2>2, <3>1, SquareBelow
    <3> QED
      BY <1>2, <2>2, <2>4, <2>5, <3>2 DEF check_prime
  <2> QED
    BY <2>1, <2>6, <2>7
<1> QED
  BY <1>1, <1>2 DEF Prime, check_prime

\* getUpperPrimeNumber is the first prime from a number on.
LEMMA UpperPrime ==
  ASSUME NEW num \in MinCapacities
  PROVE  LET p == getUpperPrimeNumber(num)
         IN  p \in Nat \ {0} /\ p >= num /\ Prime(p) /\ \A n \in num .. p - 1 : ~Prime(n)
<1> DEFINE S == {n \in num .. 2 * num + 1 : check_prime(n)}
           p == Min(S)
<1>1. num \in Nat
  BY MapAssumption
<1>2. S # {} /\ S \in SUBSET Nat
  BY <1>1, BertrandAssumption
<1>3. p \in S /\ \A y \in S : p <= y
  BY <1>2, MinIsLeast
<1>4. p = getUpperPrimeNumber(num)
  BY DEF getUpperPrimeNumber
<1> HIDE DEF p
<1>5. p \in Nat /\ p >= num /\ p <= 2 * num + 1 /\ Prime(p)
  BY <1>1, <1>3, CheckPrime
<1>6. ASSUME NEW n \in num .. p - 1 PROVE ~Prime(n)
  <2>1. n \in Nat /\ n \in num .. 2 * num + 1
    BY <1>1, <1>5
  <2>2. ~check_prime(n)
    BY <1>3, <1>5, <2>1
  <2> QED
    BY <2>1, <2>2, CheckPrime
<1> QED
  BY <1>4, <1>5, <1>6 DEF Prime
-----------------------------------------------------------------------------
(***************************************************************************)
(* The table.                                                              *)
(***************************************************************************)

Cells == 0 .. capacity - 1
InUse(i) == table[i].method_uri # NULL
Used == {i \in Cells : InUse(i)}

MapTypes ==
  /\ min_capacity \in MinCapacities /\ hash \in Hashes
  /\ capacity = getUpperPrimeNumber(min_capacity)
  /\ curr_size \in Nat
  /\ table \in [Cells -> [method_uri : Uris \cup {NULL}, method_function : Functs \cup {NULL}]]
  /\ todo \in Seq(Uris \X Functs)

SizedInv == MapTypes /\ SizeIsUse

LEMMA CapacityType ==
  ASSUME MapTypes
  PROVE  /\ capacity \in Nat \ {0}
         /\ \A u \in Uris : hash[u] \in Nat /\ key(u) \in Cells
<1>1. capacity \in Nat \ {0}
  BY UpperPrime DEF MapTypes
<1>2. ASSUME NEW u \in Uris PROVE hash[u] \in Nat /\ key(u) \in Cells
  <2>1. hash[u] \in Nat
    BY MapAssumption DEF MapTypes
  <2> QED
    BY <1>1, <2>1, Division DEF key, Cells
<1> QED
  BY <1>1, <1>2

\* The cells probed are cells of the table, and every cell is probed.
LEMMA ProbesReach ==
  ASSUME MapTypes, NEW u \in Uris
  PROVE  /\ \A d \in Cells : Probe(u, d) \in Cells
         /\ \A d \in Cells : key(u) + d < capacity => Probe(u, d) = key(u) + d
         /\ \A i \in Cells : \E d \in Cells : Probe(u, d) = i
<1>1. capacity \in Nat \ {0} /\ key(u) \in Cells
  BY CapacityType
<1> DEFINE k == key(u)
<1>2. k \in 0 .. capacity - 1
  BY <1>1 DEF Cells
<1> HIDE DEF k
<1>3. ASSUME NEW d \in Cells
      PROVE  Probe(u, d) \in Cells /\ (k + d < capacity => Probe(u, d) = k + d)
  <2>1. d \in Nat /\ k + d \in Nat
    BY <1>1, <1>2, <1>3 DEF Cells
  <2>2. (k + d) % capacity \in 0 .. capacity - 1
    BY <1>1, <2>1, Division
  <2>3. ASSUME k + d < capacity PROVE (k + d) % capacity = k + d
    <3>1. k + d \in 0 .. capacity - 1 /\ k + d = capacity * 0 + (k + d)
      BY <1>1, <2>1, <2>3
    <3> QED
      BY <1>1, <2>1, <3>1, Remainder
  <2> QED
    BY <2>2, <2>3 DEF Probe, Cells, k
<1>4. ASSUME NEW i \in Cells PROVE \E d \in Cells : Probe(u, d) = i
  <2>1. CASE k <= i
    <3>1. i - k \in Cells /\ k + (i - k) < capacity /\ k + (i - k) = i
      BY <1>1, <1>2, <2>1 DEF Cells
    <3> QED
      BY <1>3, <3>1
  <2>2. CASE i < k
    <3> DEFINE d == i - k + capacity
    <3>1. d \in Cells /\ k + d \in Nat /\ k + d = capacity * 1 + i /\ i \in 0 .. capacity - 1
      BY <1>1, <1>2, <2>2 DEF Cells
    <3> HIDE DEF d
    <3>2. (k + d) % capacity = i
      BY <1>1, <3>1, Remainder
    <3> QED
      BY <3>1, <3>2 DEF Probe, k
  <2> QED
    BY <1>1, <1>2, <2>1, <2>2 DEF Cells
<1> QED
  BY <1>3, <1>4 DEF k

\* insert_item's loop ends at a free cell, as long as curr_size is below the capacity.
LEMMA FreeCellIsFree ==
  ASSUME SizedInv, NEW u \in Uris, curr_size < capacity
  PROVE  /\ FreeCell(u) \in Cells \ Used
         /\ \E d \in Cells : /\ FreeCell(u) = Probe(u, d)
                             /\ \A e \in Cells : e < d => Probe(u, e) \in Used
<1> DEFINE D == {d \in 0 .. capacity - 1 : table[Probe(u, d)].method_uri = NULL}
           d == Min(D)
<1>1. capacity \in Nat \ {0}
  BY CapacityType DEF SizedInv
<1>2. DOMAIN table = Cells /\ curr_size = Cardinality(Used)
  BY DEF SizedInv, MapTypes, SizeIsUse, Used, InUse
<1>3. PICK i \in Cells : i \notin Used
  <2>1. Cardinality(Cells) = capacity
    BY <1>1, FS_Interval DEF Cells
  <2>2. Used # Cells
    BY <1>1, <1>2, <2>1
  <2> QED
    BY <2>2 DEF Used
<1>4. D # {}
  <2>1. PICK e \in Cells : Probe(u, e) = i
    BY ProbesReach DEF SizedInv
  <2> QED
    BY <1>3, <2>1 DEF Cells, Used, InUse
<1>5. d \in D /\ \A y \in D : d <= y
  <2>1. D \in SUBSET Nat
    BY <1>1
  <2> HIDE DEF D
  <2> QED
    BY <1>4, <2>1, MinIsLeast
<1>6. FreeCell(u) = Probe(u, d)
  BY DEF FreeCell
<1> HIDE DEF d
<1>7. d \in Cells /\ Probe(u, d) \in Cells \ Used
  BY <1>5, ProbesReach DEF Cells, Used, InUse, SizedInv
<1>8. ASSUME NEW e \in Cells, e < d PROVE Probe(u, e) \in Used
  <2>1. e \notin D
    BY <1>1, <1>5, <1>7, <1>8 DEF Cells
  <2>2. Probe(u, e) \in Cells
    BY ProbesReach DEF SizedInv
  <2> QED
    BY <2>1, <2>2 DEF Cells, Used, InUse
<1> QED
  BY <1>6, <1>7, <1>8

LEMMA SizedStart == MapInit => SizedInv
<1> SUFFICES ASSUME MapInit PROVE SizedInv
  OBVIOUS
<1>1. capacity \in Nat \ {0}
  BY UpperPrime DEF MapInit
<1>2. table \in [Cells -> [method_uri : Uris \cup {NULL}, method_function : Functs \cup {NULL}]]
      /\ Used = {} /\ DOMAIN table = Cells
  BY <1>1 DEF MapInit, Cells, Used, InUse
<1>3. SizeIsUse
  BY <1>2, FS_EmptySet DEF MapInit, SizeIsUse, Used, InUse
<1> QED
  BY <1>2, <1>3, MapAssumption DEF MapInit, SizedInv, MapTypes

\* What Insert does to the table: nothing, or it puts the function and a copy of the URI, or NULL,
\* in the free cell.
LEMMA InsertPuts ==
  ASSUME SizedInv, Insert
  PROVE  LET u == Head(todo)[1]
             f == Head(todo)[2]
         IN  /\ u \in Uris /\ f \in Functs /\ todo # <<>>
             /\ todo' = Tail(todo) /\ UNCHANGED <<min_capacity, hash, capacity>>
             /\ \/ UNCHANGED <<curr_size, table>>
                \/ curr_size < capacity
                   /\ \E copy \in {u, NULL} :
                        /\ table' = [table EXCEPT ![FreeCell(u)] =
                                      [method_uri |-> copy, method_function |-> f]]
                        /\ curr_size' = IF copy = NULL THEN curr_size ELSE curr_size + 1
<1>1. todo # <<>> /\ todo \in Seq(Uris \X Functs)
  BY DEF Insert, SizedInv, MapTypes
<1>2. Head(todo) \in Uris \X Functs
  BY <1>1
<1>3. capacity \in Nat /\ curr_size \in Nat
  BY CapacityType DEF SizedInv, MapTypes
<1> QED
  BY <1>1, <1>2, <1>3 DEF Insert, insert_item

\* The table after a registration.
LEMMA PutCell ==
  ASSUME SizedInv, NEW u \in Uris, NEW f \in Functs, NEW copy \in {u, NULL}, curr_size < capacity,
         capacity' = capacity,
         table' = [table EXCEPT ![FreeCell(u)] = [method_uri |-> copy, method_function |-> f]]
  PROVE  LET c == FreeCell(u)
         IN  /\ c \in Cells \ Used
             /\ table'[c] = [method_uri |-> copy, method_function |-> f]
             /\ \A i \in Cells : i # c => table'[i] = table[i]
             /\ DOMAIN table' = Cells /\ Cells' = Cells
             /\ table' \in [Cells -> [method_uri : Uris \cup {NULL},
                                      method_function : Functs \cup {NULL}]]
             /\ Used' = IF copy = NULL THEN Used ELSE Used \cup {c}
<1> DEFINE c == FreeCell(u)
           r == [method_uri |-> copy, method_function |-> f]
           R == [method_uri : Uris \cup {NULL}, method_function : Functs \cup {NULL}]
<1>1. c \in Cells \ Used
  BY FreeCellIsFree
<1>2. r \in R /\ r.method_uri = copy
  OBVIOUS
<1>3. table \in [Cells -> R] /\ table' = [table EXCEPT ![c] = r]
  BY DEF SizedInv, MapTypes
<1> HIDE DEF c, r, R
<1>4. table' \in [Cells -> R] /\ DOMAIN table' = Cells /\ table'[c] = r
      /\ \A i \in Cells : i # c => table'[i] = table[i]
  BY <1>1, <1>2, <1>3
<1>5. Cells' = Cells
  BY DEF Cells
<1>6. Used' = IF copy = NULL THEN Used ELSE Used \cup {c}
  <2>1. \A i \in Cells : InUse(i)' <=> IF i = c THEN copy # NULL ELSE InUse(i)
    BY <1>1, <1>2, <1>4 DEF InUse
  <2>2. Used' = {i \in Cells : InUse(i)'}
    BY <1>5 DEF Used
  <2> QED
    BY <1>1, <2>1, <2>2 DEF Used
<1> QED
  BY <1>1, <1>4, <1>5, <1>6 DEF c, r, R

LEMMA SizedInsert == SizedInv /\ Insert => SizedInv'
<1> SUFFICES ASSUME SizedInv, Insert PROVE SizedInv'
  OBVIOUS
<1> DEFINE u == Head(todo)[1]
           f == Head(todo)[2]
           c == FreeCell(u)
<1>1. u \in Uris /\ f \in Functs /\ todo' = Tail(todo) /\ todo # <<>>
      /\ UNCHANGED <<min_capacity, hash, capacity>>
  BY InsertPuts
<1>2. todo' \in Seq(Uris \X Functs)
  BY <1>1 DEF SizedInv, MapTypes
<1>3. CASE UNCHANGED <<curr_size, table>>
  <2>1. Cells' = Cells /\ SizeIsUse'
    BY <1>1, <1>3 DEF Cells, SizedInv, SizeIsUse
  <2> QED
    BY <1>1, <1>2, <1>3, <2>1 DEF SizedInv, MapTypes
<1>4. ASSUME NEW copy \in {u, NULL}, curr_size < capacity,
             table' = [table EXCEPT ![c] = [method_uri |-> copy, method_function |-> f]],
             curr_size' = IF copy = NULL THEN curr_size ELSE curr_size + 1
      PROVE  SizedInv'
  <2>1. /\ c \notin Used /\ DOMAIN table' = Cells /\ Cells' = Cells
        /\ table' \in [Cells -> [method_uri : Uris \cup {NULL},
                                 method_function : Functs \cup {NULL}]]
        /\ Used' = IF copy = NULL THEN Used ELSE Used \cup {c}
    <3>1. SizedInv /\ u \in Uris /\ f \in Functs /\ capacity' = capacity
      BY <1>1
    <3> HIDE DEF u, f
    <3> QED
      BY <1>4, <3>1, PutCell
  <2>2. DOMAIN table = Cells /\ curr_size = Cardinality(Used) /\ curr_size \in Nat
    BY DEF SizedInv, MapTypes, SizeIsUse, Used, InUse
  <2>3. IsFiniteSet(Used)
    <3>1. IsFiniteSet(Cells) /\ Used \in SUBSET Cells
      BY CapacityType, FS_Interval DEF Cells, SizedInv, Used
    <3> QED
      BY <3>1, FS_Subset
  <2>4. curr_size' = Cardinality(Used')
    BY <1>4, <2>1, <2>2, <2>3, FS_AddElement
  <2>5. SizeIsUse'
    BY <2>1, <2>4 DEF SizeIsUse, Used, InUse
  <2>6. curr_size' \in Nat
    BY <1>4, <2>2
  <2> QED
    BY <1>1, <1>2, <2>1, <2>5, <2>6 DEF SizedInv, MapTypes
<1> QED
  BY <1>3, <1>4, InsertPuts
-----------------------------------------------------------------------------
(***************************************************************************)
(* Probing without wraparound.                                             *)
(***************************************************************************)

\* All cells from a URI's key to the URI are in use.
ProbeInv ==
  \A i \in Used : /\ key(table[i].method_uri) <= i
                  /\ \A j \in key(table[i].method_uri) .. i : j \in Used

\* todo is the end of the registrations.
TodoInv ==
  /\ Len(todo) <= Len(Registrations)
  /\ \A i \in 1 .. Len(todo) : todo[i] = Registrations[Len(Registrations) - Len(todo) + i]

\* No more cells hold URIs of a key from a on than such URIs have been given.
GivenFrom(a) == {i \in 1 .. Len(Registrations) - Len(todo) : key(Registrations[i][1]) >= a}
UsedFrom(a) == {i \in Used : key(table[i].method_uri) >= a}
CountInv == \A a \in Cells : Cardinality(UsedFrom(a)) <= Cardinality(GivenFrom(a))

MapInv == SizedInv /\ ProbeInv /\ TodoInv /\ CountInv

LEMMA LastCellFree ==
  ASSUME RoomAtTheEnd, MapInv
  PROVE  capacity - 1 \in Cells \ Used
<1>1. capacity \in Nat \ {0} /\ MapTypes
  BY CapacityType DEF MapInv, SizedInv
<1> DEFINE S == {a \in Cells : \A i \in a .. capacity - 1 : i \in Used}
           a == Min(S)
<1>2. capacity - 1 \in Cells
  BY <1>1 DEF Cells
<1> SUFFICES ASSUME capacity - 1 \in Used PROVE FALSE
  BY <1>2
<1>3. S # {} /\ S \in SUBSET Nat
  BY <1>1, <1>2 DEF Cells
<1>4. a \in S /\ \A b \in S : a <= b
  <2> HIDE DEF S
  <2> QED
    BY <1>3, MinIsLeast
<1> HIDE DEF a
<1>5. a \in Nat /\ a < capacity /\ a \in Cells
  BY <1>1, <1>4 DEF Cells
<1>6. a .. capacity - 1 \subseteq UsedFrom(a)
  <2> SUFFICES ASSUME NEW i \in a .. capacity - 1, key(table[i].method_uri) < a PROVE FALSE
    <3>1. \A i \in a .. capacity - 1 : i \in Used
      BY <1>4
    <3>2. \A i \in a .. capacity - 1 : key(table[i].method_uri) \in Nat
      <4> TAKE i \in a .. capacity - 1
      <4>1. i \in Cells /\ InUse(i)
        BY <3>1 DEF Used
      <4>2. table[i].method_uri \in Uris
        BY <1>1, <4>1 DEF MapTypes, InUse
      <4> QED
        BY <1>1, <4>2, CapacityType DEF Cells
    <3> QED
      BY <1>5, <3>1, <3>2 DEF UsedFrom
  <2> DEFINE k == key(table[i].method_uri)
  <2>1. i \in Used
    BY <1>4
  <2>2. k \in Cells
    <3>1. table[i].method_uri \in Uris
      BY <1>1, <2>1 DEF MapTypes, InUse, Used
    <3> QED
      BY <1>1, <3>1, CapacityType
  <2>3. k < a /\ \A j \in k .. i : j \in Used
    BY <2>1 DEF MapInv, ProbeInv
  <2> HIDE DEF k
  <2>4. a - 1 \in Cells /\ a - 1 \in Used
    BY <1>1, <1>5, <2>2, <2>3 DEF Cells
  <2>5. \A j \in a - 1 .. capacity - 1 : j \in Used
    <3> TAKE j \in a - 1 .. capacity - 1
    <3>1. j = a - 1 \/ j \in a .. capacity - 1
      BY <1>1, <1>5
    <3> QED
      BY <1>4, <2>4, <3>1
  <2>6. a - 1 \in S
    BY <2>4, <2>5
  <2> QED
    BY <1>4, <1>5, <2>6
<1> DEFINE T == {i \in DOMAIN Registrations : hash[Registrations[i][1]] % capacity >= a}
<1>7. IsFiniteSet(T) /\ Cardinality(T) < capacity - a /\ Cardinality(T) \in Nat
  <2>1. T \in SUBSET (1 .. Len(Registrations)) /\ Len(Registrations) \in Nat
    BY MapAssumption
  <2>2. IsFiniteSet(T)
    BY <2>1, FS_Interval, FS_Subset
  <2>3. Cardinality(T) < capacity - a
    BY <1>1, <1>5 DEF RoomAtTheEnd, MapTypes, Cells
  <2> HIDE DEF T
  <2> QED
    BY <2>2, <2>3, FS_CardinalityType
<1>8. Cardinality(GivenFrom(a)) <= Cardinality(T)
  <2>1. GivenFrom(a) \in SUBSET T
    <3>1. Len(todo) \in Nat /\ Len(Registrations) \in Nat
          /\ DOMAIN Registrations = 1 .. Len(Registrations)
      BY <1>1, MapAssumption DEF MapTypes
    <3> QED
      BY <3>1 DEF GivenFrom, key
  <2> HIDE DEF T
  <2> QED
    BY <1>7, <2>1, FS_Subset
<1>9. capacity - a <= Cardinality(UsedFrom(a))
  <2>1. IsFiniteSet(UsedFrom(a))
    <3>1. UsedFrom(a) \in SUBSET Cells /\ IsFiniteSet(Cells)
      BY <1>1, FS_Interval DEF UsedFrom, Used, Cells
    <3> QED
      BY <3>1, FS_Subset
  <2>2. Cardinality(a .. capacity - 1) = capacity - a
    <3>1. Cardinality(a .. capacity - 1) = IF a > capacity - 1 THEN 0 ELSE capacity - 1 - a + 1
      BY <1>1, <1>5, FS_Interval
    <3> QED
      BY <1>1, <1>5, <3>1
  <2>3. a .. capacity - 1 \in SUBSET UsedFrom(a)
    BY <1>6
  <2>4. Cardinality(a .. capacity - 1) <= Cardinality(UsedFrom(a))
    BY <2>1, <2>3, FS_Subset
  <2> QED
    BY <2>2, <2>4
<1>10. Cardinality(UsedFrom(a)) <= Cardinality(GivenFrom(a))
  BY <1>5 DEF MapInv, CountInv
<1>11. Cardinality(GivenFrom(a)) \in Nat /\ Cardinality(UsedFrom(a)) \in Nat
  <2>1. GivenFrom(a) \in SUBSET (1 .. Len(Registrations) - Len(todo))
        /\ Len(Registrations) - Len(todo) \in Int /\ UsedFrom(a) \in SUBSET Cells
    BY <1>1, MapAssumption DEF GivenFrom, UsedFrom, Used, MapTypes
  <2>2. IsFiniteSet(Cells) /\ IsFiniteSet(1 .. Len(Registrations) - Len(todo))
    BY <1>1, <2>1, FS_Interval DEF Cells
  <2> QED
    BY <2>1, <2>2, FS_Subset, FS_CardinalityType
<1> HIDE DEF T
<1> QED
  BY <1>1, <1>5, <1>7, <1>8, <1>9, <1>10, <1>11

\* insert_item does not wrap around either, while the last cell is free.
LEMMA ProbeOnwards ==
  ASSUME RoomAtTheEnd, MapInv, NEW u \in Uris, curr_size < capacity
  PROVE  LET c == FreeCell(u)
         IN  c \in Cells \ Used /\ key(u) <= c /\ \A j \in key(u) .. c - 1 : j \in Used
<1> DEFINE c == FreeCell(u)
           k == key(u)
           last == capacity - 1
<1>1. SizedInv /\ MapTypes
  BY DEF MapInv, SizedInv
<1>2. capacity \in Nat \ {0} /\ k \in Cells /\ last \in Cells \ Used
  BY <1>1, CapacityType, LastCellFree
<1>3. c \in Cells \ Used
  BY <1>1, FreeCellIsFree
<1>4. PICK d \in Cells : c = Probe(u, d) /\ \A e \in Cells : e < d => Probe(u, e) \in Used
  BY <1>1, FreeCellIsFree
<1>5. \A e \in Cells : k + e < capacity => Probe(u, e) = k + e
  BY <1>1, ProbesReach
<1> HIDE DEF c, k
<1>6. last - k \in Cells /\ k + (last - k) < capacity /\ k + (last - k) = last
  BY <1>2 DEF Cells
<1>7. d <= last - k
  BY <1>2, <1>4, <1>5, <1>6 DEF Cells
<1>8. c = k + d
  BY <1>2, <1>4, <1>5, <1>7 DEF Cells
<1>9. ASSUME NEW j \in k .. c - 1 PROVE j \in Used
  <2>1. j - k \in Cells /\ j - k < d /\ k + (j - k) < capacity /\ k + (j - k) = j
    BY <1>2, <1>3, <1>4, <1>8, <1>9 DEF Cells
  <2> QED
    BY <1>4, <1>5, <2>1
<1> QED
  BY <1>2, <1>3, <1>4, <1>8, <1>9 DEF c, k, Cells

LEMMA MapStart == MapInit => MapInv
<1> SUFFICES ASSUME MapInit PROVE MapInv
  OBVIOUS
<1>1. SizedInv
  BY SizedStart
<1>2. Used = {}
  BY DEF MapInit, Used, Cells, InUse
<1>3. ProbeInv
  BY <1>2 DEF ProbeInv
<1>4. TodoInv
  BY MapAssumption DEF MapInit, TodoInv
<1>5. CountInv
  <2> SUFFICES ASSUME NEW a \in Cells
               PROVE  Cardinality(UsedFrom(a)) <= Cardinality(GivenFrom(a))
    BY DEF CountInv
  <2>1. UsedFrom(a) = {} /\ GivenFrom(a) = {}
    BY <1>2, MapAssumption DEF UsedFrom, GivenFrom, MapInit
  <2> QED
    BY <2>1, FS_EmptySet
<1> QED
  BY <1>1, <1>3, <1>4, <1>5 DEF MapInv

\* One registration more has been given.
LEMMA Given ==
  ASSUME MapInv, Insert
  PROVE  LET u == Head(todo)[1]
         IN  /\ TodoInv'
             /\ \A a \in Cells :
                  /\ IsFiniteSet(GivenFrom(a)) /\ Cardinality(GivenFrom(a)) \in Nat
                  /\ Cardinality(GivenFrom(a)') =
                       Cardinality(GivenFrom(a)) + (IF key(u) >= a THEN 1 ELSE 0)
<1> DEFINE u == Head(todo)[1]
           R == Registrations
           n == Len(R) - Len(todo)
<1>1. /\ todo # <<>> /\ todo' = Tail(todo) /\ hash' = hash /\ capacity' = capacity
      /\ todo \in Seq(Uris \X Functs)
  BY InsertPuts DEF MapInv, SizedInv, MapTypes
<1>2. Len(todo) \in Nat /\ Len(todo) >= 1 /\ Len(todo') = Len(todo) - 1
      /\ \A i \in 1 .. Len(todo') : todo'[i] = todo[i + 1]
      /\ Head(todo) = todo[1]
  BY <1>1
<1>3. Len(R) \in Nat /\ Len(todo) <= Len(R)
      /\ \A i \in 1 .. Len(todo) : todo[i] = R[n + i]
  BY MapAssumption DEF MapInv, TodoInv
<1>4. n \in Nat /\ R[n + 1] = Head(todo)
  BY <1>2, <1>3
<1>5. TodoInv'
  <2>1. Len(todo') <= Len(R)
    BY <1>2, <1>3
  <2>2. ASSUME NEW i \in 1 .. Len(todo') PROVE todo'[i] = R[Len(R) - Len(todo') + i]
    <3>1. i + 1 \in 1 .. Len(todo) /\ n + (i + 1) = Len(R) - Len(todo') + i
      BY <1>2, <1>3
    <3> QED
      BY <1>2, <1>3, <3>1
  <2> QED
    BY <2>1, <2>2 DEF TodoInv
<1>6. ASSUME NEW a \in Cells
      PROVE  /\ IsFiniteSet(GivenFrom(a)) /\ Cardinality(GivenFrom(a)) \in Nat
             /\ Cardinality(GivenFrom(a)') =
                  Cardinality(GivenFrom(a)) + (IF key(u) >= a THEN 1 ELSE 0)
  <2>1. GivenFrom(a) = {i \in 1 .. n : key(R[i][1]) >= a}
    BY DEF GivenFrom
  <2>2. GivenFrom(a)' = {i \in 1 .. n + 1 : key(R[i][1]) >= a}
    <3>1. Len(R) - Len(todo') = n + 1
      BY <1>2, <1>3
    <3> QED
      BY <1>1, <3>1 DEF GivenFrom, key
  <2> HIDE DEF n
  <2>3. IsFiniteSet(GivenFrom(a)) /\ Cardinality(GivenFrom(a)) \in Nat
    <3>1. IsFiniteSet(1 .. n) /\ GivenFrom(a) \in SUBSET (1 .. n)
      BY <1>4, <2>1, FS_Interval
    <3> QED
      BY <3>1, FS_Subset, FS_CardinalityType
  <2>4. key(u) = key(R[n + 1][1]) /\ n + 1 \notin GivenFrom(a)
    BY <1>4, <2>1
  <2>5. CASE key(u) >= a
    <3>1. GivenFrom(a)' = GivenFrom(a) \cup {n + 1}
      BY <1>4, <2>1, <2>2, <2>4, <2>5
    <3> QED
      BY <2>3, <2>4, <2>5, <3>1, FS_AddElement
  <2>6. CASE ~ (key(u) >= a)
    <3>1. GivenFrom(a)' = GivenFrom(a)
      BY <1>4, <2>1, <2>2, <2>4, <2>6
    <3> QED
      BY <2>3, <2>6, <3>1
  <2> QED
    BY <2>3, <2>5, <2>6
<1> QED
  BY <1>5, <1>6

LEMMA MapKept ==
  ASSUME MapInv, UNCHANGED mapVars
  PROVE  MapInv'
<1>1. Cells' = Cells /\ Used' = Used /\ SizedInv'
  BY DEF mapVars, Cells, Used, InUse, MapInv, SizedInv, SizeIsUse, MapTypes
<1>2. ProbeInv'
  BY <1>1 DEF mapVars, MapInv, ProbeInv, key
<1>3. TodoInv'
  BY DEF mapVars, MapInv, TodoInv
<1>4. \A a : UsedFrom(a)' = UsedFrom(a) /\ GivenFrom(a)' = GivenFrom(a)
  BY <1>1 DEF mapVars, UsedFrom, GivenFrom, key
<1>5. CountInv'
  BY <1>1, <1>4 DEF MapInv, CountInv
<1> QED
  BY <1>1, <1>2, <1>3, <1>5 DEF MapInv

LEMMA MapNextStep ==
  ASSUME RoomAtTheEnd, MapInv, Insert
  PROVE  MapInv'
<1> DEFINE u == Head(todo)[1]
           f == Head(todo)[2]
           c == FreeCell(u)
<1>1. u \in Uris /\ f \in Functs /\ capacity' = capacity /\ hash' = hash /\ SizedInv
  BY InsertPuts DEF MapInv
<1>2. SizedInv' /\ TodoInv' /\ Cells' = Cells
  BY <1>1, SizedInsert, Given DEF MapInv, Cells
<1>3. \A a \in Cells :
        /\ IsFiniteSet(GivenFrom(a)) /\ Cardinality(GivenFrom(a)) \in Nat
        /\ Cardinality(GivenFrom(a)') =
             Cardinality(GivenFrom(a)) + (IF key(u) >= a THEN 1 ELSE 0)
  BY Given
<1>4. \A a \in Cells : IsFiniteSet(UsedFrom(a)) /\ Cardinality(UsedFrom(a)) \in Nat
                     /\ Cardinality(UsedFrom(a)) <= Cardinality(GivenFrom(a))
  <2> TAKE a \in Cells
  <2>1. UsedFrom(a) \in SUBSET Cells /\ IsFiniteSet(Cells)
    BY <1>1, CapacityType, FS_Interval DEF UsedFrom, Used, Cells, SizedInv
  <2> QED
    BY <2>1, FS_Subset, FS_CardinalityType DEF MapInv, CountInv
<1>5. \A v : key(v)' = key(v)
  BY <1>1 DEF key
<1>6. CASE UNCHANGED <<curr_size, table>>
  <2>1. Used' = Used
    BY <1>2, <1>6 DEF Used, InUse
  <2>2. ProbeInv'
    BY <1>5, <1>6, <2>1 DEF MapInv, ProbeInv
  <2>3. \A a : UsedFrom(a)' = UsedFrom(a)
    BY <1>5, <1>6, <2>1 DEF UsedFrom
  <2>4. CountInv'
    <3> SUFFICES ASSUME NEW a \in Cells
                 PROVE  Cardinality(UsedFrom(a)') <= Cardinality(GivenFrom(a)')
      BY <1>2 DEF CountInv
    <3> HIDE DEF u
    <3> QED
      BY <1>3, <1>4, <2>3
  <2> QED
    BY <1>2, <2>2, <2>4 DEF MapInv
<1>7. ASSUME NEW copy \in {u, NULL}, curr_size < capacity,
             table' = [table EXCEPT ![c] = [method_uri |-> copy, method_function |-> f]]
      PROVE  MapInv'
  <2>1. /\ c \in Cells \ Used
        /\ table'[c] = [method_uri |-> copy, method_function |-> f]
        /\ \A i \in Cells : i # c => table'[i] = table[i]
        /\ Used' = IF copy = NULL THEN Used ELSE Used \cup {c}
    <3> HIDE DEF u, f
    <3> QED
      BY <1>1, <1>7, PutCell
  <2>2. key(u) <= c /\ \A j \in key(u) .. c - 1 : j \in Used
    <3> HIDE DEF u
    <3> QED
      BY <1>1, <1>7, ProbeOnwards
  <2>3. table'[c].method_uri = copy
    BY <2>1
  <2>4. \A i \in Used : i # c /\ table'[i] = table[i]
    BY <2>1 DEF Used
  <2>5. key(u) \in Nat /\ c \in Nat
    BY <1>1, <2>1, CapacityType DEF Cells, SizedInv
  <2> HIDE DEF u, f, c
  <2>6. ProbeInv'
    <3> SUFFICES ASSUME NEW i \in Used'
                 PROVE  /\ key(table'[i].method_uri) <= i
                        /\ \A j \in key(table'[i].method_uri) .. i : j \in Used'
      BY <1>5 DEF ProbeInv
    <3>1. CASE i \in Used
      BY <2>1, <2>4, <3>1 DEF MapInv, ProbeInv
    <3>2. CASE i = c /\ copy # NULL
      <4>1. table'[i].method_uri = u /\ c \in Used' /\ Used \subseteq Used'
        BY <1>7, <2>1, <2>3, <3>2
      <4>2. \A j \in key(u) .. c : j = c \/ j \in key(u) .. c - 1
        BY <2>5
      <4> QED
        BY <2>2, <3>2, <4>1, <4>2
    <3> QED
      BY <2>1, <3>1, <3>2
  <2>7. CountInv'
    <3> SUFFICES ASSUME NEW a \in Cells
                 PROVE  Cardinality(UsedFrom(a)') <= Cardinality(GivenFrom(a)')
      BY <1>2 DEF CountInv
    <3>1. \A i : i \in UsedFrom(a)' <=> i \in Used' /\ key(table'[i].method_uri) >= a
      BY <1>5 DEF UsedFrom
    <3>2. \A i : i \in UsedFrom(a) <=> i \in Used /\ key(table[i].method_uri) >= a
      BY DEF UsedFrom
    <3>3. CASE copy # NULL /\ key(u) >= a
      <4>1. UsedFrom(a)' = UsedFrom(a) \cup {c} /\ c \notin UsedFrom(a)
        <5>1. copy = u
          BY <1>7, <3>3
        <5>2. \A i : i \in UsedFrom(a)' <=> i \in UsedFrom(a) \/ i = c
          BY <2>1, <2>3, <2>4, <3>1, <3>2, <3>3, <5>1
        <5> QED
          BY <2>1, <3>2, <5>2
      <4>2. Cardinality(UsedFrom(a)') = Cardinality(UsedFrom(a)) + 1
        BY <1>4, <4>1, FS_AddElement
      <4> QED
        BY <1>3, <1>4, <3>3, <4>2
    <3>4. CASE ~ (copy # NULL /\ key(u) >= a)
      <4>1. \A i : i \in UsedFrom(a)' <=> i \in UsedFrom(a)
        BY <1>7, <2>1, <2>3, <2>4, <3>1, <3>2, <3>4
      <4>2. UsedFrom(a)' = UsedFrom(a)
        BY <4>1
      <4> QED
        BY <1>3, <1>4, <4>2
    <3> QED
      BY <3>3, <3>4
  <2> QED
    BY <1>2, <2>6, <2>7 DEF MapInv
<1> QED
  BY <1>1, <1>6, <1>7, InsertPuts
-----------------------------------------------------------------------------
(***************************************************************************)
(* Lookups.                                                                *)
(***************************************************************************)

Holds(i, u) == table[i].method_uri = u
CellsOf(u) == {i \in Cells : Holds(i, u)}

\* A lookup finds the first cell with the URI, and says when there is none.
LEMMA LookupFinds ==
  ASSUME RoomAtTheEnd, MapInv, NEW u \in Uris
  PROVE  IF CellsOf(u) = {} THEN get_method_function(u) = NULL
         ELSE get_method_function(u) = table[Min(CellsOf(u))].method_function
<1> DEFINE k == key(u)
           stops == {i \in k .. capacity - 1 : table[i].method_uri \in {NULL, u}}
           s == Min(stops)
           last == capacity - 1
<1>1. capacity \in Nat \ {0} /\ k \in Cells /\ last \in Cells \ Used
  BY CapacityType, LastCellFree DEF MapInv, SizedInv
<1>2. get_method_function(u) = IF stops = {} THEN OutOfBounds
                               ELSE IF table[s].method_uri = NULL THEN NULL
                               ELSE table[s].method_function
  BY DEF get_method_function
<1>3. u # NULL
  BY MapAssumption
<1> HIDE DEF k
<1>4. last \in stops /\ stops \in SUBSET Nat /\ stops \subseteq Cells
  BY <1>1 DEF Cells, Used, InUse
<1>5. s \in stops /\ \A y \in stops : s <= y
  <2> HIDE DEF stops
  <2> QED
    BY <1>4, MinIsLeast
<1> HIDE DEF s
<1>6. CASE CellsOf(u) = {}
  <2>1. table[s].method_uri = NULL
    BY <1>4, <1>5, <1>6 DEF CellsOf, Holds
  <2> QED
    BY <1>2, <1>4, <1>6, <2>1
<1>7. CASE CellsOf(u) # {}
  <2> DEFINE m == Min(CellsOf(u))
  <2>1. m \in CellsOf(u) /\ \A y \in CellsOf(u) : m <= y
    <3>1. CellsOf(u) \in SUBSET Nat
      BY <1>1 DEF CellsOf, Cells
    <3> QED
      BY <1>7, <3>1, MinIsLeast
  <2> HIDE DEF m
  <2>2. m \in Used /\ m \in Cells /\ table[m].method_uri = u
    BY <1>3, <2>1 DEF CellsOf, Holds, Used, InUse
  <2>3. k <= m /\ \A j \in k .. m : j \in Used
    BY <2>2 DEF MapInv, ProbeInv, k
  <2>4. m \in stops
    BY <1>1, <2>2, <2>3 DEF Cells
  <2>5. s \in k .. m
    BY <1>1, <1>5, <2>2, <2>4 DEF Cells
  <2>6. table[s].method_uri = u
    BY <1>5, <2>3, <2>5 DEF Used, InUse
  <2>7. s \in CellsOf(u)
    BY <1>4, <1>5, <2>6 DEF CellsOf, Holds
  <2>8. s = m
    BY <1>1, <2>1, <2>2, <2>5, <2>7 DEF Cells
  <2> QED
    BY <1>2, <1>3, <1>4, <1>7, <2>6, <2>8 DEF m
<1> QED
  BY <1>6, <1>7

Lookups ==
  \A u \in Uris :
    IF CellsOf(u) = {} THEN get_method_function(u) = NULL
    ELSE get_method_function(u) = table[Min(CellsOf(u))].method_function

LEMMA LookupsFind == RoomAtTheEnd /\ MapInv => Lookups
  BY LookupFinds DEF Lookups

LEMMA LookupsNext == RoomAtTheEnd /\ MapInv' => Lookups'
<1>1. RoomAtTheEnd' /\ MapInv' => Lookups'
  BY LookupsFind, PTL
<1>2. RoomAtTheEnd => RoomAtTheEnd'
  OBVIOUS
<1> QED
  BY <1>1, <1>2

\* What a URI without a cell gets, and what one with a cell gets.
LEMMA LookupCases ==
  ASSUME RoomAtTheEnd, MapInv, NEW u \in Uris
  PROVE  /\ get_method_function(u) \in Functs \cup {NULL}
         /\ CellsOf(u) = {} => get_method_function(u) = NULL
<1>1. CASE CellsOf(u) = {}
  BY <1>1, LookupFinds
<1>2. CASE CellsOf(u) # {}
  <2>1. CellsOf(u) \in SUBSET Nat /\ MapTypes
    BY CapacityType DEF CellsOf, Cells, MapInv, SizedInv
  <2>2. Min(CellsOf(u)) \in CellsOf(u)
    BY <1>2, <2>1, MinIsLeast
  <2>3. table[Min(CellsOf(u))] \in [method_uri : Uris \cup {NULL},
                                   method_function : Functs \cup {NULL}]
    BY <2>1, <2>2 DEF MapTypes, CellsOf
  <2> QED
    BY <1>2, <2>3, LookupFinds
<1> QED
  BY <1>1, <1>2

\* The function put with a URI is found for it, unless the URI had one, and nothing else changes.
LEMMA LookupNext ==
  ASSUME RoomAtTheEnd, MapInv, Insert
  PROVE  \/ \A v \in Uris : get_method_function(v)' = get_method_function(v)
         \/ \E u \in Uris, f \in Functs :
              /\ CellsOf(u) = {}
              /\ get_method_function(u)' = f
              /\ \A v \in Uris \ {u} : get_method_function(v)' = get_method_function(v)
<1>0. PICK u \in Uris, f \in Functs :
        \/ UNCHANGED <<curr_size, table>>
        \/ curr_size < capacity
           /\ \E copy \in {u, NULL} :
                table' = [table EXCEPT ![FreeCell(u)] =
                           [method_uri |-> copy, method_function |-> f]]
  BY InsertPuts DEF MapInv
<1> DEFINE c == FreeCell(u)
<1>1. capacity' = capacity /\ hash' = hash /\ SizedInv
      /\ Cells' = Cells /\ Cells \in SUBSET Nat
  BY InsertPuts, CapacityType DEF MapInv, SizedInv, Cells
<1>2. MapInv' /\ Lookups /\ Lookups'
  BY MapNextStep, LookupsFind, LookupsNext
<1>3. ASSUME NEW v \in Uris, CellsOf(v)' = CellsOf(v),
             \A i \in CellsOf(v) : table'[i] = table[i]
      PROVE  get_method_function(v)' = get_method_function(v)
  <2>1. CASE CellsOf(v) = {}
    BY <1>2, <1>3, <2>1 DEF Lookups
  <2>2. CASE CellsOf(v) # {}
    <3>1. Min(CellsOf(v)) \in CellsOf(v)
      <4>1. CellsOf(v) \in SUBSET Nat
        BY <1>1 DEF CellsOf
      <4> QED
        BY <2>2, <4>1, MinIsLeast
    <3>2. get_method_function(v)' = table'[Min(CellsOf(v)')].method_function
      BY <1>2, <1>3, <2>2 DEF Lookups
    <3> QED
      BY <1>2, <1>3, <2>2, <3>1, <3>2 DEF Lookups
  <2> QED
    BY <2>1, <2>2
<1>4. CASE UNCHANGED <<curr_size, table>>
  <2>1. \A v : CellsOf(v)' = CellsOf(v)
    BY <1>1, <1>4 DEF CellsOf, Holds
  <2> QED
    BY <1>3, <1>4, <2>1
<1>5. ASSUME NEW copy \in {u, NULL}, curr_size < capacity,
             table' = [table EXCEPT ![c] = [method_uri |-> copy, method_function |-> f]]
      PROVE  \/ \A v \in Uris : get_method_function(v)' = get_method_function(v)
             \/ /\ CellsOf(u) = {}
                /\ get_method_function(u)' = f
                /\ \A v \in Uris \ {u} : get_method_function(v)' = get_method_function(v)
  <2>1. /\ c \in Cells \ Used
        /\ table'[c] = [method_uri |-> copy, method_function |-> f]
        /\ \A i \in Cells : i # c => table'[i] = table[i]
    BY <1>1, <1>5, PutCell
  <2>2. key(u) <= c /\ \A j \in key(u) .. c - 1 : j \in Used
    BY <1>1, <1>5, ProbeOnwards
  <2>3. table'[c].method_uri = copy /\ table'[c].method_function = f
    BY <2>1
  <2> HIDE DEF c
  <2>4. \A v : CellsOf(v)' = {i \in Cells : table'[i].method_uri = v}
    BY <1>1 DEF CellsOf, Holds
  <2>5. \A v \in Uris : c \notin CellsOf(v)
    BY <2>1, MapAssumption DEF CellsOf, Holds, Used, InUse
  <2>6. ASSUME NEW v \in Uris, v # copy
        PROVE  get_method_function(v)' = get_method_function(v)
    <3>1. \A i \in Cells : table'[i].method_uri = v <=> Holds(i, v)
      BY <2>1, <2>3, <2>5, <2>6 DEF Holds, CellsOf
    <3>2. CellsOf(v)' = CellsOf(v)
      BY <2>4, <3>1 DEF CellsOf
    <3>3. \A i \in CellsOf(v) : table'[i] = table[i]
      BY <2>1, <2>5 DEF CellsOf
    <3> QED
      BY <1>3, <3>2, <3>3
  <2>7. CASE copy = NULL
    BY <2>6, <2>7, MapAssumption
  <2>8. CASE copy = u
    <3>1. CellsOf(u)' = CellsOf(u) \cup {c}
      <4>1. \A i \in Cells : table'[i].method_uri = u <=> Holds(i, u) \/ i = c
        BY <2>1, <2>3, <2>8 DEF Holds
      <4> QED
        BY <2>1, <2>4, <4>1 DEF CellsOf
    <3>2. get_method_function(u)' = table'[Min(CellsOf(u)')].method_function
      BY <1>1, <1>2, <3>1 DEF Lookups
    <3>3. CellsOf(u)' \in SUBSET Nat /\ CellsOf(u) \in SUBSET Nat
      BY <1>1, <2>1, <3>1 DEF CellsOf
    <3> DEFINE m == Min(CellsOf(u))
               n == Min(CellsOf(u) \cup {c})
    <3>4. n \in CellsOf(u) \cup {c} /\ \A y \in CellsOf(u) \cup {c} : n <= y
      BY <3>1, <3>3, MinIsLeast
    <3>5. CASE CellsOf(u) = {}
      <4>1. n = c
        BY <3>4, <3>5
      <4>2. get_method_function(u)' = f
        BY <2>3, <3>1, <3>2, <4>1
      <4> QED
        BY <2>6, <2>8, <3>5, <4>2
    <3>6. CASE CellsOf(u) # {}
      <4>1. m \in CellsOf(u) /\ \A y \in CellsOf(u) : m <= y
        BY <3>3, <3>6, MinIsLeast
      <4> HIDE DEF m, n
      <4>2. m \in Used /\ m \in Cells /\ table[m].method_uri = u
        BY <1>1, <4>1, MapAssumption DEF CellsOf, Holds, Used, InUse
      <4>3. \A j \in key(u) .. m : j \in Used
        BY <4>2 DEF MapInv, ProbeInv
      <4>4. m < c
        BY <1>1, <2>1, <2>2, <4>2, <4>3
      <4>5. n = m
        <5>1. n <= m /\ (n = c \/ n \in CellsOf(u))
          BY <3>4, <4>1
        <5>2. n = c \/ m <= n
          BY <4>1, <5>1
        <5>3. m \in Nat /\ c \in Nat /\ n \in Nat
          BY <1>1, <2>1, <4>2, <3>3, <5>1
        <5> QED
          BY <4>4, <5>1, <5>2, <5>3
      <4>6. table'[m] = table[m]
        BY <2>1, <4>2, <4>4, <1>1
      <4>7. get_method_function(u) = table[m].method_function
        BY <1>1, <1>2, <3>6 DEF Lookups, m
      <4>8. get_method_function(u)' = get_method_function(u)
        BY <3>1, <3>2, <4>5, <4>6, <4>7 DEF n
      <4> QED
        BY <2>6, <2>8, <4>8
    <3> QED
      BY <3>5, <3>6
  <2> QED
    BY <1>5, <2>7, <2>8
<1> QED
  BY <1>0, <1>4, <1>5
-----------------------------------------------------------------------------
(***************************************************************************)
(* What the map promises.                                                  *)
(***************************************************************************)

LEMMA SizedSteps == SizedInv /\ [Next]_vars => SizedInv'
<1>1. SizedInv /\ UNCHANGED mapVars => SizedInv'
  BY DEF mapVars, SizedInv, SizeIsUse, MapTypes, Cells
<1> QED
  BY <1>1, SizedInsert DEF Next, vars

LEMMA SizedSuffices == SizedInv => CapacityIsPrime /\ SizeIsUse
<1> SUFFICES ASSUME SizedInv PROVE CapacityIsPrime
  BY DEF SizedInv
<1>1. min_capacity \in MinCapacities /\ capacity = getUpperPrimeNumber(min_capacity)
  BY DEF SizedInv, MapTypes
<1> QED
  BY <1>1, UpperPrime DEF CapacityIsPrime, Prime

\* Whatever is registered, hashed and refused by strdup: the capacity is the first odd prime from
\* the one asked for, and curr_size is the number of cells in use, so that the loop of insert_item
\* (functions_map.c:72) ends.
THEOREM TableIsSized == Spec => [](CapacityIsPrime /\ SizeIsUse)
<1>1. Init => SizedInv
  BY SizedStart DEF Init
<1> QED
  BY <1>1, SizedSteps, SizedSuffices, PTL DEF Spec

LEMMA MapSuffices == RoomAtTheEnd /\ MapInv => MapIsSound
<1> SUFFICES ASSUME RoomAtTheEnd, MapInv PROVE NullIfNotFound
  BY SizedSuffices DEF MapIsSound, MapInv, SizedInv
<1>1. DOMAIN table = Cells
  BY DEF MapInv, SizedInv, MapTypes
<1> QED
  BY <1>1, LookupCases DEF NullIfNotFound, CellsOf, Holds

LEMMA MapSteps == RoomAtTheEnd /\ MapInv /\ [Next]_vars => MapInv'
  BY MapKept, MapNextStep DEF Next, vars

LEMMA MapStartImplements == RoomAtTheEnd /\ Init => Map!MapInit
<1> SUFFICES ASSUME RoomAtTheEnd, Init PROVE Map!MapInit
  OBVIOUS
<1>1. MapInv /\ MapInit
  BY MapStart DEF Init
<1>2. \A u \in Uris : CellsOf(u) = {}
  BY MapAssumption, <1>1 DEF MapInit, CellsOf, Holds, Cells
<1>3. {u \in Uris : get_method_function(u) # NULL} = {}
  BY <1>1, <1>2, LookupCases
<1> QED
  BY <1>3 DEF Map!MapInit, Methods

LEMMA MapStepImplements ==
  RoomAtTheEnd /\ MapInv /\ [Next]_vars => [Map!MapNext]_Methods
<1> DEFINE Known == {u \in Uris : get_method_function(u) # NULL}
           M == [u \in Known |-> get_method_function(u)]
<1> SUFFICES ASSUME RoomAtTheEnd, MapInv, [Next]_vars PROVE Map!MapNext \/ M' = M
  BY DEF Methods
<1>1. ASSUME \A v \in Uris : get_method_function(v)' = get_method_function(v)
      PROVE  M' = M
  <2>1. Known' = Known
    BY <1>1
  <2> QED
    BY <1>1, <2>1
<1>2. CASE UNCHANGED mapVars
  <2>1. \A v \in Uris : get_method_function(v)' = get_method_function(v)
    BY <1>2 DEF mapVars, get_method_function, key
  <2> QED
    BY <1>1, <2>1
<1>3. ASSUME NEW u \in Uris, NEW f \in Functs, CellsOf(u) = {},
             get_method_function(u)' = f,
             \A v \in Uris \ {u} : get_method_function(v)' = get_method_function(v)
      PROVE  Map!Register(u, f)
  <2>1. u \notin Known /\ DOMAIN M = Known
    BY <1>3, LookupCases
  <2>2. f # NULL
    BY MapAssumption
  <2>3. Known' = Known \cup {u}
    BY <1>3, <2>2
  <2>4. M' = [v \in Known \cup {u} |-> IF v = u THEN f ELSE M[v]]
    <3>1. M' = [v \in Known \cup {u} |-> get_method_function(v)']
      BY <2>3
    <3>2. \A v \in Known \cup {u} : get_method_function(v)' = IF v = u THEN f ELSE M[v]
      BY <1>3
    <3> QED
      BY <3>1, <3>2
  <2> QED
    BY <2>1, <2>4 DEF Map!Register, Methods
<1>4. CASE Insert
  BY <1>1, <1>3, <1>4, LookupNext DEF Map!MapNext
<1> QED
  BY <1>2, <1>4 DEF Next, vars

\* While the last cell stays free, what was registered and copied is found from then on with its
\* first function, and nothing else is.
THEOREM ImplementsMethodMap ==
  ASSUME RoomAtTheEnd
  PROVE  Spec => ImplementsMap
<1>1. Init => MapInv
  BY MapStart DEF Init
<1>2. MapInv /\ [Next]_vars => MapInv'
  BY MapSteps
<1>3. Init => Map!MapInit
  BY MapStartImplements
<1>4. MapInv /\ [Next]_vars => [Map!MapNext]_Methods
  BY MapStepImplements
<1> QED
  BY <1>1, <1>2, <1>3, <1>4, PTL DEF Spec, ImplementsMap, Map!MapSpec

-----------------------------------------------------------------------------
(***************************************************************************)
(* The service.                                                            *)
(***************************************************************************)

Busy(w) == wpc[w] # "wait"
LookedUp(w) == wpc[w] \in {"print", "load", "store", "reset", "reply"}

\* Whose request is where: in the queue or with one worker until it is answered, and none before
\* the map is filled.
LinkInv ==
  /\ todo # <<>> => \A c \in Clients : request[c] = "none" /\ reply[c] = NoReply
  /\ \A c \in Clients : reply[c] # NoReply => request[c] = "none"
  /\ \A w \in Workers : Busy(w) => request[conn[w]] # "none"
  /\ \A v, w \in Workers : v # w /\ Busy(v) /\ Busy(w) => conn[v] # conn[w]
  /\ \A i \in 1 .. Len(queue) : request[queue[i]] # "none"
  /\ \A i \in 1 .. Len(queue), w \in Workers : Busy(w) => conn[w] # queue[i]
  /\ \A i, j \in 1 .. Len(queue) : i # j => queue[i] # queue[j]

\* A worker calls what the map has for its request, and has its text ready when it replies.
CallOK(w) ==
  /\ LookedUp(w) => method_func[w] = get_method_function(Uri(w))
  /\ wpc[w] = "print" => method_func[w] # NULL
  /\ wpc[w] \in {"load", "store"} => Increments(w)
  /\ wpc[w] = "reset" => method_func[w] = "reset_counter"
  /\ wpc[w] = "reply" /\ method_func[w] = NULL => body[w] = NotFound
  /\ wpc[w] \in {"load", "store"} => body[w] \in 1 .. MaxCount
  /\ wpc[w] = "reply" => body[w] # 0

CallInv == \A w \in Workers : CallOK(w)

\* The increments that are still to be counted.
Done(c) == \E w \in Workers : conn[w] = c /\ wpc[w] = "reply"
Asks(c) == request[c] # "none" /\ get_method_function(request[c]) = "get_and_increment_counter"
Pending == {c \in Clients : Asks(c) /\ ~Done(c)}
Loaded == {counter} \cup {reg[w] : w \in Workers}
BoundInv == \A n \in Loaded : n + Cardinality(Pending) <= MaxCount

ServiceInv == TypeOK /\ LinkInv /\ CallInv /\ BoundInv

LEMMA SameLookups ==
  ASSUME UNCHANGED mapVars
  PROVE  \A u : get_method_function(u)' = get_method_function(u)
  BY DEF mapVars, get_method_function, key

LEMMA FoundOnly ==
  ASSUME RoomAtTheEnd, MapInv, NEW u \in Uris
  PROVE  /\ Found(u) = {get_method_function(u)}
         /\ get_method_function(u) \in Functs \cup {NULL}
<1>1. get_method_function(u) \in Functs \cup {NULL}
  BY LookupCases
<1>2. get_method_function(u) # OutOfBounds
  BY <1>1, MapAssumption
<1> QED
  BY <1>1, <1>2 DEF Found

LEMMA StartTypes == \A f : StartOf(f) \in {"reset", "reply", "print"}
  BY DEF StartOf

LEMMA BusyHas ==
  ASSUME TypeOK, NEW w \in Workers, Busy(w)
  PROVE  conn[w] \in Clients
  BY DEF TypeOK, Busy

LEMMA StartService == Init => ServiceInv
<1> SUFFICES ASSUME Init PROVE ServiceInv
  OBVIOUS
<1>1. TypeOK
  BY ServiceAssumption DEF Init, TypeOK, WorkerStates, NoReply
<1>2. LinkInv
  BY DEF Init, LinkInv, Busy, NoReply
<1>3. CallInv
  BY DEF Init, CallInv, CallOK, LookedUp
<1>4. BoundInv
  <2>1. Pending = {}
    BY DEF Init, Pending, Asks
  <2>2. \A n \in Loaded : n \in {0, 1}
    BY DEF Init, Loaded
  <2> QED
    BY <2>1, <2>2, FS_EmptySet, ServiceAssumption DEF BoundInv
<1> QED
  BY <1>1, <1>2, <1>3, <1>4 DEF ServiceInv

\* While the map is filled nobody is served.
LEMMA InsertService ==
  ASSUME ServiceInv, Insert, UNCHANGED serviceVars
  PROVE  ServiceInv'
<1> USE DEF serviceVars
<1>1. todo # <<>>
  BY DEF Insert
<1>2. \A c \in Clients : request[c] = "none" /\ reply[c] = NoReply
  BY <1>1 DEF ServiceInv, LinkInv
<1>3. \A w \in Workers : ~Busy(w)
  BY <1>2, BusyHas DEF ServiceInv, LinkInv
<1>4. TypeOK'
  BY DEF ServiceInv, TypeOK
<1>5. LinkInv'
  BY <1>2 DEF ServiceInv, LinkInv, Busy
<1>6. CallInv'
  BY <1>3 DEF CallInv, CallOK, LookedUp, Busy
<1>7. BoundInv'
  <2>1. Pending = {} /\ Pending' = {}
    BY <1>2 DEF Pending, Asks
  <2>2. Loaded' = Loaded
    BY DEF Loaded
  <2> QED
    BY <2>1, <2>2 DEF ServiceInv, BoundInv
<1> QED
  BY <1>4, <1>5, <1>6, <1>7 DEF ServiceInv

LEMMA SendTypes ==
  ASSUME TypeOK, NEW c \in Clients, Send(c)
  PROVE  TypeOK'
  BY ServiceAssumption DEF TypeOK, Send

LEMMA ReceiveTypes ==
  ASSUME TypeOK, NEW c \in Clients, Receive(c)
  PROVE  TypeOK'
  BY DEF TypeOK, Receive

LEMMA ConsumeTypes ==
  ASSUME TypeOK, NEW w \in Workers, Consume(w)
  PROVE  TypeOK'
  BY ServiceAssumption DEF TypeOK, Consume, Step, WorkerStates

LEMMA LookupTypes ==
  ASSUME TypeOK, NEW w \in Workers, Lookup(w), Found(Uri(w)) \subseteq Functs \cup {NULL}
  PROVE  TypeOK'
<1>1. PICK f \in Functs \cup {NULL} :
        /\ wpc' = [wpc EXCEPT ![w] = StartOf(f)]
        /\ method_func' = [method_func EXCEPT ![w] = f]
        /\ body' = [body EXCEPT ![w] = IF f = NULL THEN NotFound ELSE @]
  BY DEF Lookup
<1>2. StartOf(f) \in WorkerStates \ {"wait"}
  BY StartTypes DEF WorkerStates
<1>3. wpc' \in [Workers -> WorkerStates] /\ method_func' \in [Workers -> Functs \cup {NULL}]
  BY <1>1, <1>2 DEF TypeOK
<1>4. body' \in [Workers -> (0 .. MaxCount) \cup {NotFound}]
  BY <1>1 DEF TypeOK
<1>5. \A v \in Workers : conn'[v] = NoClient <=> wpc'[v] = "wait"
  BY <1>1, <1>2 DEF TypeOK, Lookup
<1> QED
  BY <1>3, <1>4, <1>5 DEF TypeOK, Lookup

LEMMA PrintTypes ==
  ASSUME TypeOK, NEW w \in Workers, PrintCounter(w)
  PROVE  TypeOK'
  BY DEF TypeOK, PrintCounter, Step, WorkerStates

LEMMA LoadTypes ==
  ASSUME TypeOK, NEW w \in Workers, Load(w)
  PROVE  TypeOK'
  BY DEF TypeOK, Load, Step, WorkerStates

LEMMA StoreTypes ==
  ASSUME TypeOK, NEW w \in Workers, Store(w), reg[w] + 1 <= MaxCount
  PROVE  TypeOK'
  BY DEF TypeOK, Store, Step, WorkerStates

LEMMA ResetTypes ==
  ASSUME TypeOK, NEW w \in Workers, Reset(w)
  PROVE  TypeOK'
  BY ServiceAssumption DEF TypeOK, Reset, Step, WorkerStates

LEMMA ReplyTypes ==
  ASSUME TypeOK, NEW w \in Workers, Reply(w), body[w] # 0
  PROVE  TypeOK'
  BY BusyHas, ServiceAssumption DEF TypeOK, Reply, Step, WorkerStates, Busy

LEMMA SendLinks ==
  ASSUME TypeOK, LinkInv, NEW c \in Clients, Send(c), UNCHANGED mapVars
  PROVE  LinkInv'
<1> DEFINE n == Len(queue)
<1>1. todo' = todo /\ todo = <<>>
  BY DEF Send, mapVars
<1>2. PICK u \in Sent : request' = [request EXCEPT ![c] = u]
  BY DEF Send
<1>3. u # "none" /\ request[c] = "none" /\ reply[c] = NoReply
  BY ServiceAssumption, <1>2 DEF Send
<1>4. queue' = Append(queue, c) /\ queue \in Seq(Clients)
  BY DEF Send, TypeOK
<1>5. n \in Nat /\ Len(queue') = n + 1 /\ queue'[n + 1] = c
      /\ \A i \in 1 .. n : queue'[i] = queue[i] /\ queue[i] \in Clients
  BY <1>4
<1>6. \A d \in Clients : request'[d] = IF d = c THEN u ELSE request[d]
  BY <1>2 DEF TypeOK
<1>7. wpc' = wpc /\ conn' = conn /\ reply' = reply
  BY DEF Send
<1>8. \A w \in Workers : Busy(w) => conn[w] # c /\ conn[w] \in Clients
  BY <1>3, BusyHas DEF LinkInv
<1>9. \A i \in 1 .. n : queue[i] # c
  BY <1>3 DEF LinkInv
<1> HIDE DEF n
<1>10. \A i \in 1 .. n + 1 : i = n + 1 \/ i \in 1 .. n
  BY <1>5
<1>11. \A d \in Clients : reply'[d] # NoReply => request'[d] = "none"
  BY <1>3, <1>6, <1>7 DEF LinkInv
<1>12. \A w \in Workers : Busy(w)' => request'[conn'[w]] # "none"
  BY <1>6, <1>7, <1>8 DEF LinkInv, Busy
<1>13. \A v, w \in Workers : v # w /\ Busy(v)' /\ Busy(w)' => conn'[v] # conn'[w]
  BY <1>7 DEF LinkInv, Busy
<1>14. \A i \in 1 .. Len(queue') : request'[queue'[i]] # "none"
  BY <1>3, <1>5, <1>6, <1>9, <1>10 DEF LinkInv, n
<1>15. \A i \in 1 .. Len(queue'), w \in Workers : Busy(w)' => conn'[w] # queue'[i]
  BY <1>5, <1>7, <1>8, <1>10 DEF LinkInv, n, Busy
<1>16. \A i, j \in 1 .. Len(queue') : i # j => queue'[i] # queue'[j]
  BY <1>5, <1>9, <1>10 DEF LinkInv, n
<1> QED
  BY <1>1, <1>11, <1>12, <1>13, <1>14, <1>15, <1>16 DEF LinkInv

LEMMA ReceiveLinks ==
  ASSUME TypeOK, LinkInv, NEW c \in Clients, Receive(c), UNCHANGED mapVars
  PROVE  LinkInv'
<1>1. todo' = todo /\ UNCHANGED <<request, queue, wpc, conn>>
  BY DEF Receive, mapVars
<1>2. \A d \in Clients : reply'[d] = reply[d] \/ reply'[d] = NoReply
  BY DEF Receive, TypeOK
<1> QED
  BY <1>1, <1>2 DEF LinkInv, Busy

LEMMA ConsumeLinks ==
  ASSUME TypeOK, LinkInv, NEW w \in Workers, Consume(w), UNCHANGED mapVars
  PROVE  LinkInv'
<1> DEFINE n == Len(queue)
<1>1. todo' = todo /\ UNCHANGED <<request, reply>>
  BY DEF Consume, mapVars
<1>2. queue \in Seq(Clients) /\ queue # <<>> /\ queue' = Tail(queue)
  BY DEF Consume, TypeOK
<1>3. n \in Nat /\ n >= 1 /\ Len(queue') = n - 1 /\ Head(queue) = queue[1]
      /\ \A i \in 1 .. n - 1 : queue'[i] = queue[i + 1]
  BY <1>2
<1>4. \A v \in Workers : conn'[v] = (IF v = w THEN queue[1] ELSE conn[v])
                         /\ (v # w => (Busy(v)' <=> Busy(v)))
  BY <1>3 DEF Consume, Step, TypeOK, Busy
<1> HIDE DEF n
<1>5. \A i \in 1 .. n - 1 : i + 1 \in 1 .. n /\ i + 1 # 1
  BY <1>3
<1>6. 1 \in 1 .. n
  BY <1>3
<1>7. \A v \in Workers : Busy(v)' => request'[conn'[v]] # "none"
  BY <1>1, <1>4, <1>6 DEF LinkInv, n
<1>8. \A v, x \in Workers : v # x /\ Busy(v)' /\ Busy(x)' => conn'[v] # conn'[x]
  BY <1>4, <1>6 DEF LinkInv, n
<1>9. \A i \in 1 .. Len(queue') : request'[queue'[i]] # "none"
  BY <1>1, <1>3, <1>5 DEF LinkInv, n
<1>10. \A i \in 1 .. Len(queue'), v \in Workers : Busy(v)' => conn'[v] # queue'[i]
  BY <1>3, <1>4, <1>5, <1>6 DEF LinkInv, n
<1>11. \A i, j \in 1 .. Len(queue') : i # j => queue'[i] # queue'[j]
  <2> SUFFICES ASSUME NEW i \in 1 .. n - 1, NEW j \in 1 .. n - 1, i # j
               PROVE  queue'[i] # queue'[j]
    BY <1>3
  <2>1. i + 1 \in 1 .. n /\ j + 1 \in 1 .. n /\ i + 1 # j + 1
    BY <1>3
  <2> QED
    BY <1>3, <2>1 DEF LinkInv, n
<1> QED
  BY <1>1, <1>7, <1>8, <1>9, <1>10, <1>11 DEF LinkInv

\* The steps of a worker between taking a connection and replying.
LEMMA InnerLinks ==
  ASSUME LinkInv, UNCHANGED <<todo, queue, request, reply, conn>>,
         \A w \in Workers : Busy(w)' <=> Busy(w)
  PROVE  LinkInv'
  BY DEF LinkInv

LEMMA ReplyLinks ==
  ASSUME TypeOK, LinkInv, NEW w \in Workers, Reply(w), UNCHANGED mapVars
  PROVE  LinkInv'
<1> DEFINE c == conn[w]
<1>1. todo' = todo /\ queue' = queue
  BY DEF Reply, mapVars
<1>2. c \in Clients /\ Busy(w)
  BY BusyHas DEF Reply, Step, Busy
<1>3. request[c] # "none" /\ todo = <<>>
  BY <1>2 DEF LinkInv
<1>4. \A d \in Clients : /\ request'[d] = IF d = c THEN "none" ELSE request[d]
                         /\ d # c => reply'[d] = reply[d]
  BY DEF Reply, TypeOK
<1>5. \A v \in Workers : v # w => conn'[v] = conn[v] /\ (Busy(v)' <=> Busy(v))
  BY DEF Reply, TypeOK, Step, Busy
<1>6. ~Busy(w)'
  BY DEF Reply, TypeOK, Step, Busy
<1>7. \A i \in 1 .. Len(queue) : queue[i] # c /\ queue[i] \in Clients
  BY <1>2 DEF LinkInv, TypeOK
<1>8. \A v \in Workers : v # w /\ Busy(v) => conn[v] # c /\ conn[v] \in Clients
  BY <1>2, BusyHas DEF LinkInv
<1> HIDE DEF c
<1>9. \A d \in Clients : reply'[d] # NoReply => request'[d] = "none"
  BY <1>4 DEF LinkInv
<1>10. \A v \in Workers : Busy(v)' => request'[conn'[v]] # "none"
  BY <1>4, <1>5, <1>6, <1>8 DEF LinkInv
<1>11. \A v, x \in Workers : v # x /\ Busy(v)' /\ Busy(x)' => conn'[v] # conn'[x]
  BY <1>5, <1>6 DEF LinkInv
<1>12. \A i \in 1 .. Len(queue') : request'[queue'[i]] # "none"
  BY <1>1, <1>4, <1>7 DEF LinkInv
<1>13. \A i \in 1 .. Len(queue'), v \in Workers : Busy(v)' => conn'[v] # queue'[i]
  BY <1>1, <1>5, <1>6 DEF LinkInv
<1>14. \A i, j \in 1 .. Len(queue') : i # j => queue'[i] # queue'[j]
  BY <1>1 DEF LinkInv
<1> QED
  BY <1>1, <1>3, <1>9, <1>10, <1>11, <1>12, <1>13, <1>14 DEF LinkInv

-----------------------------------------------------------------------------
\* A worker that another step leaves alone.
LEMMA CallKept ==
  ASSUME UNCHANGED mapVars, NEW w \in Workers, CallOK(w),
         wpc'[w] = wpc[w], method_func'[w] = method_func[w], body'[w] = body[w],
         LookedUp(w) => Uri(w)' = Uri(w)
  PROVE  CallOK(w)'
  BY SameLookups DEF CallOK, LookedUp, Increments

LEMMA SendCalls ==
  ASSUME TypeOK, LinkInv, CallInv, NEW c \in Clients, Send(c), UNCHANGED mapVars
  PROVE  CallInv'
<1> SUFFICES ASSUME NEW w \in Workers PROVE CallOK(w)'
  BY DEF CallInv
<1>1. ASSUME LookedUp(w) PROVE Uri(w)' = Uri(w)
  <2>1. Busy(w)
    BY <1>1 DEF LookedUp, Busy
  <2>2. conn[w] # c /\ conn[w] \in Clients
    BY <2>1, BusyHas DEF Send, LinkInv
  <2> QED
    BY <2>2 DEF Send, Uri, TypeOK
<1> QED
  BY <1>1, CallKept DEF CallInv, Send

LEMMA ReceiveCalls ==
  ASSUME CallInv, NEW c \in Clients, Receive(c), UNCHANGED mapVars
  PROVE  CallInv'
<1> SUFFICES ASSUME NEW w \in Workers PROVE CallOK(w)'
  BY DEF CallInv
<1> QED
  BY CallKept DEF CallInv, Receive, Uri

LEMMA ConsumeCalls ==
  ASSUME TypeOK, CallInv, NEW w \in Workers, Consume(w), UNCHANGED mapVars
  PROVE  CallInv'
<1> SUFFICES ASSUME NEW v \in Workers PROVE CallOK(v)'
  BY DEF CallInv
<1>1. CASE v = w
  <2>1. wpc'[w] = "lookup"
    BY DEF Consume, Step, TypeOK
  <2> QED
    BY <1>1, <2>1 DEF CallOK, LookedUp
<1>2. CASE v # w
  <2>1. wpc'[v] = wpc[v] /\ method_func' = method_func /\ body' = body /\ Uri(v)' = Uri(v)
    BY <1>2 DEF Consume, Step, TypeOK, Uri
  <2> QED
    BY <2>1, CallKept DEF CallInv
<1> QED
  BY <1>1, <1>2

LEMMA LookupCalls ==
  ASSUME TypeOK, CallInv, NEW w \in Workers, Lookup(w), UNCHANGED mapVars,
         Found(Uri(w)) = {get_method_function(Uri(w))},
         get_method_function(Uri(w)) \in Functs \cup {NULL}
  PROVE  CallInv'
<1> SUFFICES ASSUME NEW v \in Workers PROVE CallOK(v)'
  BY DEF CallInv
<1> DEFINE f == get_method_function(Uri(w))
<1>1. /\ wpc' = [wpc EXCEPT ![w] = StartOf(f)]
      /\ method_func' = [method_func EXCEPT ![w] = f]
      /\ body' = [body EXCEPT ![w] = IF f = NULL THEN NotFound ELSE @]
      /\ UNCHANGED <<request, conn>>
  BY DEF Lookup
<1>2. CASE v = w
  <2>1. wpc'[w] = StartOf(f) /\ method_func'[w] = f /\ (f = NULL => body'[w] = NotFound)
    BY <1>1 DEF TypeOK
  <2>2. get_method_function(Uri(w))' = f
    BY <1>1, SameLookups DEF Uri
  <2>3. StartOf(f) = IF f = "reset_counter" THEN "reset" ELSE IF f = NULL THEN "reply" ELSE "print"
    BY ServiceAssumption DEF StartOf, Functions
  <2>4. NotFound # 0
    BY DEF NotFound
  <2> HIDE DEF f
  <2> QED
    BY <1>2, <2>1, <2>2, <2>3, <2>4 DEF CallOK, LookedUp
<1>3. CASE v # w
  <2>1. wpc'[v] = wpc[v] /\ method_func'[v] = method_func[v] /\ body'[v] = body[v]
        /\ Uri(v)' = Uri(v)
    BY <1>1, <1>3 DEF TypeOK, Uri
  <2> QED
    BY <2>1, CallKept DEF CallInv
<1> QED
  BY <1>2, <1>3

\* The steps behind the lookup leave the request and the function as they are.
LEMMA InnerCalls ==
  ASSUME TypeOK, CallInv, NEW w \in Workers, UNCHANGED mapVars,
         PrintCounter(w) \/ Load(w) \/ Store(w) \/ Reset(w)
  PROVE  CallInv'
<1> SUFFICES ASSUME NEW v \in Workers PROVE CallOK(v)'
  BY DEF CallInv
<1>1. method_func' = method_func /\ Uri(v)' = Uri(v) /\ LookedUp(w)
  BY DEF PrintCounter, Load, Store, Reset, Step, Uri, LookedUp
<1>2. CASE v = w
  <2>1. get_method_function(Uri(w))' = get_method_function(Uri(w))
    BY <1>1, <1>2, SameLookups
  <2>2. CASE PrintCounter(w)
    <3>1. wpc[w] = "print" /\ wpc'[w] = (IF Increments(w) THEN "load" ELSE "reply")
          /\ body'[w] = counter /\ counter \in 1 .. MaxCount
      BY <2>2 DEF PrintCounter, Step, TypeOK
    <3>2. method_func[w] # NULL /\ method_func[w] = get_method_function(Uri(w))
      BY <1>1, <3>1 DEF CallInv, CallOK
    <3> QED
      BY <1>1, <1>2, <2>1, <3>1, <3>2, ServiceAssumption DEF CallOK, LookedUp, Increments
  <2>3. CASE Load(w)
    <3>1. wpc[w] = "load" /\ wpc'[w] = "store" /\ body' = body
      BY <2>3 DEF Load, Step, TypeOK
    <3> QED
      BY <1>1, <1>2, <2>1, <3>1 DEF CallInv, CallOK, LookedUp, Increments
  <2>4. CASE Store(w)
    <3>1. wpc[w] = "store" /\ wpc'[w] = "reply" /\ body' = body
      BY <2>4 DEF Store, Step, TypeOK
    <3>2. Increments(w) /\ body[w] \in 1 .. MaxCount /\ method_func[w] # NULL
      BY <3>1, ServiceAssumption DEF CallInv, CallOK, Increments, Functions
    <3> QED
      BY <1>1, <1>2, <2>1, <3>1, <3>2, ServiceAssumption DEF CallInv, CallOK, LookedUp, Increments
  <2>5. CASE Reset(w)
    <3>1. wpc[w] = "reset" /\ wpc'[w] = "print" /\ body' = body
      BY <2>5 DEF Reset, Step, TypeOK
    <3>2. method_func[w] # NULL
      BY <3>1, ServiceAssumption DEF CallInv, CallOK, Functions
    <3> QED
      BY <1>1, <1>2, <2>1, <3>1, <3>2 DEF CallInv, CallOK, LookedUp
  <2> QED
    BY <2>2, <2>3, <2>4, <2>5
<1>3. CASE v # w
  <2>1. wpc'[v] = wpc[v] /\ body'[v] = body[v]
    BY <1>3 DEF PrintCounter, Load, Store, Reset, Step, TypeOK
  <2> QED
    BY <1>1, <2>1, CallKept DEF CallInv
<1> QED
  BY <1>2, <1>3

LEMMA ReplyCalls ==
  ASSUME TypeOK, LinkInv, CallInv, NEW w \in Workers, Reply(w), UNCHANGED mapVars
  PROVE  CallInv'
<1> SUFFICES ASSUME NEW v \in Workers PROVE CallOK(v)'
  BY DEF CallInv
<1>1. CASE v = w
  <2>1. wpc'[w] = "wait"
    BY DEF Reply, Step, TypeOK
  <2> QED
    BY <1>1, <2>1 DEF CallOK, LookedUp
<1>2. CASE v # w
  <2>1. wpc'[v] = wpc[v] /\ method_func'[v] = method_func[v] /\ body'[v] = body[v]
        /\ conn'[v] = conn[v]
    BY <1>2 DEF Reply, Step, TypeOK
  <2>2. ASSUME LookedUp(v) PROVE Uri(v)' = Uri(v)
    <3>1. Busy(v) /\ Busy(w)
      BY <2>2 DEF LookedUp, Busy, Reply, Step
    <3>2. conn[v] # conn[w] /\ conn[v] \in Clients
      BY <1>2, <3>1, BusyHas DEF LinkInv
    <3> QED
      BY <2>1, <3>2 DEF Uri, Reply, TypeOK
  <2> QED
    BY <2>1, <2>2, CallKept DEF CallInv
<1> QED
  BY <1>1, <1>2

-----------------------------------------------------------------------------
\* No more increments than before, and nothing new that they could be added to.
LEMMA BoundShrinks ==
  ASSUME TypeOK, BoundInv, Pending' \subseteq Pending, Loaded' \subseteq Loaded \cup {0, 1}
  PROVE  BoundInv'
<1>1. IsFiniteSet(Pending) /\ Cardinality(Pending) \in Nat
  <2>1. Pending \in SUBSET Clients /\ IsFiniteSet(Clients)
    BY ServiceAssumption DEF Pending
  <2> QED
    BY <2>1, FS_Subset, FS_CardinalityType
<1>2. Cardinality(Pending') \in Nat /\ Cardinality(Pending') <= Cardinality(Pending)
  BY <1>1, FS_Subset, FS_CardinalityType
<1>3. counter \in Loaded /\ counter \in Nat /\ counter >= 1
  BY DEF Loaded, TypeOK
<1>4. Loaded \subseteq Nat
  BY DEF Loaded, TypeOK
<1>5. ASSUME NEW n \in Loaded' PROVE n + Cardinality(Pending') <= MaxCount
  <2>1. CASE n \in Loaded
    BY <1>1, <1>2, <1>4, <2>1, ServiceAssumption DEF BoundInv
  <2>2. CASE n \in {0, 1}
    <3>1. counter + Cardinality(Pending) <= MaxCount
      BY <1>3 DEF BoundInv
    <3> QED
      BY <1>1, <1>2, <1>3, <2>2, <3>1, ServiceAssumption
  <2> QED
    BY <2>1, <2>2
<1> QED
  BY <1>5 DEF BoundInv

LEMMA SendBound ==
  ASSUME TypeOK, BoundInv, NEW c \in Clients, Send(c), UNCHANGED mapVars
  PROVE  BoundInv'
<1>1. PICK u \in Sent :
        /\ get_method_function(u) = "get_and_increment_counter"
             => \A n \in Loaded : n + Cardinality(Waiting) < MaxCount
        /\ request' = [request EXCEPT ![c] = u]
  BY DEF Send, Loaded
<1>2. Loaded' = Loaded /\ \A d : Done(d)' <=> Done(d)
  BY DEF Send, Loaded, Done
<1>3. \A d \in Clients : request'[d] = IF d = c THEN u ELSE request[d]
  BY <1>1 DEF TypeOK
<1>4. \A d \in Clients : d # c => (Asks(d)' <=> Asks(d))
  BY <1>3, SameLookups DEF Asks
<1>5. CASE get_method_function(u) # "get_and_increment_counter"
  <2>1. ~Asks(c)'
    BY <1>3, <1>5, SameLookups DEF Asks
  <2>2. Pending' \subseteq Pending
    BY <1>2, <1>4, <2>1 DEF Pending
  <2> QED
    BY <1>2, <2>2, BoundShrinks
<1>6. CASE get_method_function(u) = "get_and_increment_counter"
  <2>1. Pending' \subseteq Pending \cup {c} /\ Pending \subseteq Waiting
    BY <1>2, <1>4 DEF Pending, Waiting, Asks
  <2>2. IsFiniteSet(Waiting) /\ Cardinality(Waiting) \in Nat
    <3>1. Waiting \in SUBSET Clients /\ IsFiniteSet(Clients)
      BY ServiceAssumption DEF Waiting
    <3> QED
      BY <3>1, FS_Subset, FS_CardinalityType
  <2>3. IsFiniteSet(Pending) /\ Cardinality(Pending) \in Nat
        /\ Cardinality(Pending) <= Cardinality(Waiting)
    BY <2>1, <2>2, FS_Subset, FS_CardinalityType
  <2>4. IsFiniteSet(Pending \cup {c}) /\ Cardinality(Pending \cup {c}) \in Nat
        /\ Cardinality(Pending \cup {c}) <= Cardinality(Pending) + 1
    <3>1. IsFiniteSet(Pending \cup {c})
          /\ Cardinality(Pending \cup {c}) =
               IF c \in Pending THEN Cardinality(Pending) ELSE Cardinality(Pending) + 1
      BY <2>3, FS_AddElement
    <3> QED
      BY <2>3, <3>1
  <2>5. Cardinality(Pending') \in Nat /\ Cardinality(Pending') <= Cardinality(Pending) + 1
    <3>1. Cardinality(Pending') \in Nat /\ Cardinality(Pending') <= Cardinality(Pending \cup {c})
      BY <2>1, <2>4, FS_Subset, FS_CardinalityType
    <3> QED
      BY <2>3, <2>4, <3>1
  <2>6. ASSUME NEW n \in Loaded' PROVE n + Cardinality(Pending') <= MaxCount
    <3>1. n \in Nat /\ n + Cardinality(Waiting) < MaxCount
      <4>1. n \in Loaded
        BY <1>2
      <4>2. Loaded \subseteq Nat
        BY DEF Loaded, TypeOK
      <4> QED
        BY <1>1, <1>6, <4>1, <4>2
    <3> QED
      BY <2>2, <2>3, <2>5, <3>1, ServiceAssumption
  <2> QED
    BY <2>6 DEF BoundInv
<1> QED
  BY <1>5, <1>6

\* Requests stay as they are in the steps of a worker up to the reply.
LEMMA InnerPending ==
  ASSUME UNCHANGED mapVars, request' = request, \A d \in Clients : Done(d) => Done(d)'
  PROVE  Pending' \subseteq Pending
<1>1. \A d \in Clients : Asks(d)' <=> Asks(d)
  BY SameLookups DEF Asks
<1> QED
  BY <1>1 DEF Pending

LEMMA InnerBound ==
  ASSUME TypeOK, BoundInv, NEW w \in Workers, UNCHANGED mapVars,
         Consume(w) \/ Lookup(w) \/ PrintCounter(w) \/ Load(w) \/ Reset(w)
  PROVE  BoundInv'
<1>1. /\ request' = request
      /\ \A v \in Workers : wpc[v] = "reply" => wpc'[v] = "reply" /\ conn'[v] = conn[v]
  BY DEF Consume, Lookup, PrintCounter, Load, Reset, Step, TypeOK
<1>2. Pending' \subseteq Pending
  <2>1. \A d \in Clients : Done(d) => Done(d)'
    BY <1>1 DEF Done
  <2> QED
    BY <1>1, <2>1, InnerPending
<1>3. Loaded' \subseteq Loaded \cup {0, 1}
  <2>1. counter' \in {counter, 1} /\ \A v \in Workers : reg'[v] \in {reg[v], counter}
    BY DEF Consume, Lookup, PrintCounter, Load, Reset, TypeOK
  <2> QED
    BY <2>1 DEF Loaded
<1> QED
  BY <1>2, <1>3, BoundShrinks

\* An increment that is counted is not pending any more.
LEMMA StoreBound ==
  ASSUME ServiceInv, NEW w \in Workers, Store(w), UNCHANGED mapVars
  PROVE  BoundInv'
<1> DEFINE c == conn[w]
<1>1. TypeOK /\ LinkInv /\ CallInv /\ BoundInv /\ wpc[w] = "store"
  BY DEF ServiceInv, Store, Step
<1>2. Busy(w) /\ LookedUp(w)
  BY <1>1 DEF Busy, LookedUp
<1>3. c \in Clients /\ Asks(c)
  <2>1. Increments(w) /\ method_func[w] = get_method_function(Uri(w))
    BY <1>1, <1>2 DEF CallInv, CallOK
  <2> QED
    BY <1>1, <1>2, <2>1, BusyHas DEF Asks, LinkInv, Increments, Uri
<1>4. ~Done(c)
  BY <1>1, <1>2 DEF Done, LinkInv, Busy
<1>5. c \in Pending
  BY <1>3, <1>4 DEF Pending
<1>6. wpc' = [wpc EXCEPT ![w] = "reply"] /\ conn' = conn /\ request' = request
  BY DEF Store, Step
<1>7. \A d \in Clients : d = c \/ Done(d) => Done(d)'
  BY <1>1, <1>6 DEF Done, TypeOK
<1>8. Pending' \subseteq Pending
  BY <1>6, <1>7, InnerPending
<1>9. Pending' \subseteq Pending \ {c}
  <2>1. \A d \in Pending' : d \in Clients /\ ~Done(d)'
    BY DEF Pending
  <2> QED
    BY <1>7, <1>8, <2>1
<1>10. IsFiniteSet(Pending) /\ Cardinality(Pending) \in Nat
  <2>1. Pending \in SUBSET Clients /\ IsFiniteSet(Clients)
    BY ServiceAssumption DEF Pending
  <2> QED
    BY <2>1, FS_Subset, FS_CardinalityType
<1>11. Cardinality(Pending \ {c}) = Cardinality(Pending) - 1 /\ IsFiniteSet(Pending \ {c})
  BY <1>5, <1>10, FS_RemoveElement
<1>12. Cardinality(Pending') \in Nat /\ Cardinality(Pending') <= Cardinality(Pending) - 1
  BY <1>9, <1>11, FS_Subset, FS_CardinalityType
<1>13. \A n \in Loaded : n \in Nat /\ n + Cardinality(Pending) <= MaxCount
  BY <1>1 DEF BoundInv, Loaded, TypeOK
<1>14. \A n \in Loaded' : n \in Loaded \/ \E m \in Loaded : n = m + 1
  <2>1. counter' = reg[w] + 1 /\ reg' = reg /\ reg[w] \in Loaded
    BY DEF Store, Loaded
  <2> QED
    BY <2>1 DEF Loaded
<1>15. ASSUME NEW n \in Loaded' PROVE n + Cardinality(Pending') <= MaxCount
  <2>1. CASE n \in Loaded
    BY <1>10, <1>12, <1>13, <2>1, ServiceAssumption
  <2>2. ASSUME NEW m \in Loaded, n = m + 1 PROVE n + Cardinality(Pending') <= MaxCount
    BY <1>10, <1>12, <1>13, <2>2, ServiceAssumption
  <2> QED
    BY <1>14, <2>1, <2>2
<1> QED
  BY <1>15 DEF BoundInv

LEMMA ReplyBound ==
  ASSUME TypeOK, BoundInv, NEW w \in Workers, Reply(w), UNCHANGED mapVars
  PROVE  BoundInv'
<1>1. conn[w] \in Clients
  BY BusyHas DEF Reply, Step, Busy
<1>2. \A d \in Clients : request'[d] = IF d = conn[w] THEN "none" ELSE request[d]
  BY DEF Reply, TypeOK
<1>3. \A v \in Workers : v # w => wpc'[v] = wpc[v] /\ conn'[v] = conn[v]
  BY DEF Reply, Step, TypeOK
<1>4. \A d \in Clients : d # conn[w] => (Asks(d)' <=> Asks(d)) /\ (Done(d) => Done(d)')
  BY <1>2, <1>3, SameLookups DEF Asks, Done
<1>5. \A d \in Clients : d = conn[w] => ~Asks(d)'
  BY <1>2 DEF Asks
<1>6. Pending' \subseteq Pending
  BY <1>4, <1>5 DEF Pending
<1>7. Loaded' \subseteq Loaded \cup {0, 1}
  <2>1. counter' = counter /\ \A v \in Workers : reg'[v] \in {reg[v], 0}
    BY DEF Reply, TypeOK
  <2> QED
    BY <2>1 DEF Loaded
<1> QED
  BY <1>6, <1>7, BoundShrinks
-----------------------------------------------------------------------------
LEMMA WorkerService ==
  ASSUME RoomAtTheEnd, MapInv, ServiceInv, NEW w \in Workers, WorkerStep(w), UNCHANGED mapVars
  PROVE  ServiceInv'
<1>1. TypeOK /\ LinkInv /\ CallInv /\ BoundInv /\ todo' = todo
  BY DEF ServiceInv, mapVars
<1>2. CASE Consume(w)
  BY <1>1, <1>2, ConsumeTypes, ConsumeLinks, ConsumeCalls, InnerBound DEF ServiceInv
<1>3. CASE Lookup(w)
  <2>1. Uri(w) \in Uris
    <3>1. Busy(w)
      BY <1>3 DEF Lookup, Busy
    <3> QED
      BY <1>1, <3>1, BusyHas DEF LinkInv, TypeOK, Uri
  <2>2. Found(Uri(w)) = {get_method_function(Uri(w))}
        /\ get_method_function(Uri(w)) \in Functs \cup {NULL}
    BY <2>1, FoundOnly
  <2>3. TypeOK' /\ CallInv' /\ BoundInv'
    BY <1>1, <1>3, <2>2, LookupTypes, LookupCalls, InnerBound
  <2>4. \A v \in Workers : Busy(v)' <=> Busy(v)
    <3>1. PICK f : wpc' = [wpc EXCEPT ![w] = StartOf(f)]
      BY <1>3 DEF Lookup
    <3>2. StartOf(f) # "wait"
      BY StartTypes
    <3> QED
      BY <1>1, <1>3, <3>1, <3>2 DEF Lookup, Busy, TypeOK
  <2>5. LinkInv'
    BY <1>1, <1>3, <2>4, InnerLinks DEF Lookup
  <2> QED
    BY <2>3, <2>5 DEF ServiceInv
<1>4. CASE PrintCounter(w) \/ Load(w) \/ Store(w) \/ Reset(w)
  <2>1. \A v \in Workers : Busy(v)' <=> Busy(v)
    BY <1>1, <1>4 DEF PrintCounter, Load, Store, Reset, Step, Busy, TypeOK
  <2>2. UNCHANGED <<queue, request, reply, conn>>
    BY <1>4 DEF PrintCounter, Load, Store, Reset
  <2>3. LinkInv' /\ CallInv'
    BY <1>1, <1>4, <2>1, <2>2, InnerLinks, InnerCalls
  <2>4. CASE PrintCounter(w)
    BY <1>1, <2>3, <2>4, PrintTypes, InnerBound DEF ServiceInv
  <2>5. CASE Load(w)
    BY <1>1, <2>3, <2>5, LoadTypes, InnerBound DEF ServiceInv
  <2>6. CASE Store(w)
    <3>1. BoundInv'
      BY <2>6, StoreBound
    <3>2. counter' = reg[w] + 1 /\ counter' \in Loaded' /\ reg[w] \in Nat
      BY <1>1, <2>6 DEF Store, Loaded, TypeOK
    <3>3. Cardinality(Pending') \in Nat
      <4>1. Pending' \in SUBSET Clients /\ IsFiniteSet(Clients)
        BY ServiceAssumption DEF Pending
      <4> QED
        BY <4>1, FS_Subset, FS_CardinalityType
    <3>4. counter' + Cardinality(Pending') <= MaxCount
      BY <3>1, <3>2 DEF BoundInv
    <3>5. reg[w] + 1 <= MaxCount
      BY <3>2, <3>3, <3>4, ServiceAssumption
    <3> QED
      BY <1>1, <2>3, <2>6, <3>1, <3>5, StoreTypes DEF ServiceInv
  <2>7. CASE Reset(w)
    BY <1>1, <2>3, <2>7, ResetTypes, InnerBound DEF ServiceInv
  <2> QED
    BY <1>4, <2>4, <2>5, <2>6, <2>7
<1>5. CASE Reply(w)
  <2>1. body[w] # 0
    BY <1>1, <1>5 DEF CallInv, CallOK, Reply, Step
  <2> QED
    BY <1>1, <1>5, <2>1, ReplyTypes, ReplyLinks, ReplyCalls, ReplyBound DEF ServiceInv
<1> QED
  BY <1>2, <1>3, <1>4, <1>5 DEF WorkerStep

LEMMA ClientService ==
  ASSUME ServiceInv, NEW c \in Clients, Send(c) \/ Receive(c), UNCHANGED mapVars
  PROVE  ServiceInv'
<1>1. TypeOK /\ LinkInv /\ CallInv /\ BoundInv
  BY DEF ServiceInv
<1>2. CASE Send(c)
  BY <1>1, <1>2, SendTypes, SendLinks, SendCalls, SendBound DEF ServiceInv
<1>3. CASE Receive(c)
  <2>1. request' = request /\ \A d : Done(d)' <=> Done(d)
    BY <1>3 DEF Receive, Done
  <2>2. Pending' \subseteq Pending
    BY <2>1, InnerPending
  <2>3. Loaded' = Loaded
    BY <1>3 DEF Receive, Loaded
  <2>4. BoundInv'
    BY <1>1, <2>2, <2>3, BoundShrinks
  <2> QED
    BY <1>1, <1>3, <2>4, ReceiveTypes, ReceiveLinks, ReceiveCalls DEF ServiceInv
<1> QED
  BY <1>2, <1>3

LEMMA ServiceKept ==
  ASSUME ServiceInv, UNCHANGED vars
  PROVE  ServiceInv'
<1>1. UNCHANGED mapVars /\ UNCHANGED serviceVars
  BY DEF vars
<1>2. TypeOK' /\ LinkInv'
  BY <1>1 DEF ServiceInv, TypeOK, LinkInv, Busy, mapVars, serviceVars
<1>3. CallInv'
  <2>1. \A w \in Workers : CallOK(w)'
    BY <1>1, CallKept DEF ServiceInv, CallInv, serviceVars, Uri
  <2> QED
    BY <2>1 DEF CallInv
<1>4. BoundInv'
  <2>1. request' = request /\ Loaded' = Loaded /\ \A d : Done(d)' <=> Done(d)
    BY <1>1 DEF serviceVars, Loaded, Done
  <2>2. Pending' \subseteq Pending
    BY <1>1, <2>1, InnerPending
  <2> QED
    BY <2>1, <2>2, BoundShrinks DEF ServiceInv
<1> QED
  BY <1>2, <1>3, <1>4 DEF ServiceInv

LEMMA ServiceSteps == RoomAtTheEnd /\ MapInv /\ ServiceInv /\ [Next]_vars => ServiceInv'
<1> SUFFICES ASSUME RoomAtTheEnd, MapInv, ServiceInv, [Next]_vars PROVE ServiceInv'
  OBVIOUS
<1>1. CASE Insert /\ UNCHANGED serviceVars
  BY <1>1, InsertService
<1>2. CASE Serve /\ UNCHANGED mapVars
  BY <1>2, ClientService, WorkerService DEF Serve
<1>3. CASE UNCHANGED vars
  BY <1>3, ServiceKept
<1> QED
  BY <1>1, <1>2, <1>3 DEF Next

\* While the last cell stays free, for any clients and workers: the map's structure is sound, a
\* URI that is not in it gets NULL, and each worker has a connection just while it serves it.
THEOREM ServiceCorrect ==
  ASSUME RoomAtTheEnd
  PROVE  Spec => []ServiceIsSound
<1>1. Init => MapInv /\ ServiceInv
  BY MapStart, StartService DEF Init
<1>2. MapInv /\ ServiceInv /\ [Next]_vars => (MapInv /\ ServiceInv)'
  BY MapSteps, ServiceSteps
<1>3. MapInv /\ ServiceInv => ServiceIsSound
  BY MapSuffices DEF ServiceInv, ServiceIsSound
<1> QED
  BY <1>1, <1>2, <1>3, PTL DEF Spec

-----------------------------------------------------------------------------
(***************************************************************************)
(* One worker, as run.sh starts the service: an atomic counter.            *)
(***************************************************************************)

\* What the worker has seen of the counter is still so.
FreshInv ==
  \A w \in Workers :
    /\ wpc[w] = "print" /\ method_func[w] = "reset_counter" => counter = 1
    /\ wpc[w] \in {"load", "store"} => body[w] = counter
    /\ wpc[w] = "store" => reg[w] = counter

LEMMA FreshSteps ==
  ASSUME NEW w, Workers = {w}, RoomAtTheEnd, MapInv, ServiceInv, FreshInv, [Next]_vars
  PROVE  FreshInv'
<1>1. TypeOK /\ LinkInv /\ CallInv /\ w \in Workers
  BY DEF ServiceInv
<1>2. CASE UNCHANGED <<counter, wpc, method_func, body, reg>>
  BY <1>2 DEF FreshInv
<1>3. CASE Lookup(w)
  <2>1. PICK f : /\ wpc' = [wpc EXCEPT ![w] = StartOf(f)]
                 /\ method_func' = [method_func EXCEPT ![w] = f]
    BY <1>3 DEF Lookup
  <2>2. StartOf(f) = "print" => f # "reset_counter"
    BY DEF StartOf
  <2>3. StartOf(f) \in {"reset", "reply", "print"}
    BY StartTypes
  <2>4. wpc'[w] = StartOf(f) /\ method_func'[w] = f
    BY <1>1, <2>1 DEF TypeOK
  <2> HIDE <2>1
  <2> QED
    BY <2>2, <2>3, <2>4 DEF FreshInv
<1>4. CASE Consume(w)
  BY <1>1, <1>4 DEF Consume, Step, TypeOK, FreshInv
<1>5. CASE PrintCounter(w)
  BY <1>1, <1>5, ServiceAssumption DEF PrintCounter, Step, TypeOK, FreshInv
<1>6. CASE Load(w)
  BY <1>1, <1>6 DEF Load, Step, TypeOK, FreshInv
<1>7. CASE Store(w)
  BY <1>1, <1>7 DEF Store, Step, TypeOK, FreshInv
<1>8. CASE Reset(w)
  BY <1>1, <1>8 DEF Reset, Step, TypeOK, FreshInv
<1>9. CASE Reply(w)
  BY <1>1, <1>9 DEF Reply, Step, TypeOK, FreshInv
<1>10. CASE \E c \in Clients : Send(c) \/ Receive(c)
  BY <1>2, <1>10 DEF Send, Receive
<1> QED
  BY <1>2, <1>3, <1>4, <1>5, <1>6, <1>7, <1>8, <1>9, <1>10
  DEF Next, Serve, WorkerStep, vars, serviceVars

\* The call of a client when there is one worker.
CallBy(w, c) ==
  IF reply[c] # NoReply THEN [state |-> "done", res |-> reply[c]]
  ELSE IF request[c] = "none" THEN [state |-> "idle"]
  ELSE IF conn[w] = c /\ Effective(w) THEN [state |-> "done", res |-> Result(w)]
  ELSE [state |-> "called", op |-> Op(request[c])]

LEMMA CallOfOne ==
  ASSUME NEW w, Workers = {w}, NEW c
  PROVE  CallOf(c) = CallBy(w, c) /\ CallOf(c)' = CallBy(w, c)'
<1>1. CASE conn[w] = c /\ Effective(w)
  <2>1. (CHOOSE v \in Workers : conn[v] = c /\ Effective(v)) = w
    BY <1>1
  <2> QED
    BY <1>1, <2>1 DEF CallOf, CallBy
<1>2. CASE ~ (conn[w] = c /\ Effective(w))
  BY <1>2 DEF CallOf, CallBy
<1>3. CASE conn'[w] = c /\ Effective(w)'
  <2>1. (CHOOSE v \in Workers : conn'[v] = c /\ Effective(v)') = w
    BY <1>3
  <2> QED
    BY <1>3, <2>1 DEF CallOf, CallBy
<1>4. CASE ~ (conn'[w] = c /\ Effective(w)')
  BY <1>4 DEF CallOf, CallBy
<1> QED
  BY <1>1, <1>2, <1>3, <1>4

Calls == [c \in Clients |-> CallOf(c)]

\* One call changes.
LEMMA CallChanges ==
  ASSUME NEW c \in Clients, NEW r, CallOf(c)' = r,
         \A d \in Clients \ {c} : CallOf(d)' = CallOf(d)
  PROVE  Calls' = [Calls EXCEPT ![c] = r]
<1>1. Calls' = [d \in Clients |-> CallOf(d)']
  BY DEF Calls
<1>2. \A d \in Clients : CallOf(d)' = IF d = c THEN r ELSE CallOf(d)
  OBVIOUS
<1>3. [Calls EXCEPT ![c] = r] = [d \in Clients |-> IF d = c THEN r ELSE CallOf(d)]
  BY DEF Calls
<1> QED
  BY <1>1, <1>2, <1>3

LEMMA CallsSame ==
  ASSUME \A d \in Clients : CallOf(d)' = CallOf(d)
  PROVE  Calls' = Calls
  BY DEF Calls

LEMMA SameOps ==
  ASSUME UNCHANGED mapVars
  PROVE  \A u : Op(u)' = Op(u)
  BY SameLookups DEF Op

\* A request takes effect at the step of the worker that serves it.
LEMMA TakesEffect ==
  ASSUME NEW c \in Clients, NEW op, NEW r, NEW v,
         op \in {"increment", "get", "reset", "other"},
         CallOf(c) = [state |-> "called", op |-> op],
         CallOf(c)' = [state |-> "done", res |-> r],
         \A d \in Clients \ {c} : CallOf(d)' = CallOf(d),
         counter' = v,
         v = (CASE op = "increment" -> counter + 1 [] op = "reset" -> 1 [] OTHER -> counter),
         r = (CASE op = "reset" -> 1 [] op = "other" -> NotFound [] OTHER -> counter)
  PROVE  Object!ObjNext
<1>1. Calls' = [Calls EXCEPT ![c] = [state |-> "done", res |-> r]]
  BY CallChanges
<1>2. Calls[c] = [state |-> "called", op |-> op]
  BY DEF Calls
<1>3. Object!Effect(c, op)
  BY <1>1, <1>2 DEF Object!Effect, Object!Called, Object!Done, Calls
<1> QED
  BY <1>3 DEF Object!ObjNext, Object!Ops

LEMMA SendCallsObject ==
  ASSUME NEW w, Workers = {w}, ServiceInv, NEW c \in Clients, Send(c), UNCHANGED mapVars
  PROVE  Object!ObjNext
<1>1. TypeOK /\ LinkInv /\ UNCHANGED <<counter, reply, wpc, conn, body, method_func, reg>>
      /\ request[c] = "none" /\ reply[c] = NoReply
  BY DEF ServiceInv, Send
<1>2. PICK u \in Sent : request' = [request EXCEPT ![c] = u]
  BY DEF Send
<1>3. request'[c] = u /\ u # "none" /\ \A d \in Clients \ {c} : request'[d] = request[d]
  BY <1>1, <1>2, ServiceAssumption DEF TypeOK
<1>4. ~ (conn[w] = c /\ Effective(w))
  BY <1>1 DEF LinkInv, Busy, Effective
<1>5. Effective(w)' = Effective(w) /\ Result(w)' = Result(w) /\ \A x : Op(x)' = Op(x)
  BY <1>1, SameOps DEF Effective, Result
<1>6. CallOf(c) = [state |-> "idle"] /\ CallOf(c)' = [state |-> "called", op |-> Op(u)]
  BY <1>1, <1>3, <1>4, <1>5, CallOfOne DEF CallBy
<1>7. \A d \in Clients \ {c} : CallOf(d)' = CallOf(d)
  BY <1>1, <1>3, <1>5, CallOfOne DEF CallBy
<1>8. Calls' = [Calls EXCEPT ![c] = [state |-> "called", op |-> Op(u)]]
  BY <1>6, <1>7, CallChanges
<1>9. Op(u) \in Object!Ops
  BY DEF Op, Object!Ops
<1>10. Object!Call(c)
  BY <1>1, <1>6, <1>8, <1>9 DEF Object!Call, Object!Called, Object!Idle, Calls
<1> QED
  BY <1>10 DEF Object!ObjNext

LEMMA ReceiveReturns ==
  ASSUME NEW w, Workers = {w}, ServiceInv, NEW c \in Clients, Receive(c), UNCHANGED mapVars
  PROVE  Object!ObjNext
<1>1. TypeOK /\ LinkInv /\ UNCHANGED <<counter, request, wpc, conn, body, method_func, reg>>
      /\ reply[c] # NoReply /\ request[c] = "none"
  BY DEF ServiceInv, Receive, LinkInv
<1>2. reply'[c] = NoReply /\ \A d \in Clients \ {c} : reply'[d] = reply[d]
  BY <1>1 DEF Receive, TypeOK
<1>3. Effective(w)' = Effective(w) /\ Result(w)' = Result(w) /\ \A x : Op(x)' = Op(x)
  BY <1>1, SameOps DEF Effective, Result
<1>4. CallOf(c) = [state |-> "done", res |-> reply[c]] /\ CallOf(c)' = [state |-> "idle"]
  BY <1>1, <1>2, CallOfOne DEF CallBy
<1>5. \A d \in Clients \ {c} : CallOf(d)' = CallOf(d)
  BY <1>1, <1>2, <1>3, CallOfOne DEF CallBy
<1>6. Calls' = [Calls EXCEPT ![c] = [state |-> "idle"]]
  BY <1>4, <1>5, CallChanges
<1>7. Object!ReturnCall(c)
  BY <1>1, <1>4, <1>6 DEF Object!ReturnCall, Object!Idle, Calls
<1> QED
  BY <1>7 DEF Object!ObjNext

\* A worker's step concerns the client it serves only.
LEMMA WorkerCalls ==
  ASSUME NEW w, Workers = {w}, UNCHANGED <<request, reply, conn>>, UNCHANGED mapVars
  PROVE  /\ \A d \in Clients : d # conn[w] => CallOf(d)' = CallOf(d)
         /\ Effective(w)' = Effective(w) /\ Result(w)' = Result(w) => Calls' = Calls
<1>1. \A x : Op(x)' = Op(x)
  BY SameOps
<1>2. \A d \in Clients : d # conn[w] => CallOf(d)' = CallOf(d)
  BY <1>1, CallOfOne DEF CallBy
<1>3. ASSUME Effective(w)' = Effective(w), Result(w)' = Result(w) PROVE Calls' = Calls
  BY <1>1, <1>3, CallOfOne, CallsSame DEF CallBy
<1> QED
  BY <1>2, <1>3

\* What the client gets that a busy worker serves.
LEMMA ServedCall ==
  ASSUME NEW w, Workers = {w}, ServiceInv, Busy(w)
  PROVE  /\ conn[w] \in Clients /\ request[conn[w]] # "none" /\ reply[conn[w]] = NoReply
         /\ Effective(w) => CallOf(conn[w]) = [state |-> "done", res |-> Result(w)]
         /\ ~Effective(w) => CallOf(conn[w]) = [state |-> "called", op |-> Op(Uri(w))]
<1>1. conn[w] \in Clients /\ request[conn[w]] # "none" /\ reply[conn[w]] = NoReply
  BY BusyHas DEF ServiceInv, LinkInv
<1> QED
  BY <1>1, CallOfOne DEF CallBy, Uri

\* A step after which the request of the worker has taken effect.
LEMMA EffectAtStep ==
  ASSUME NEW w, Workers = {w}, ServiceInv, Busy(w), ~Effective(w), Effective(w)',
         UNCHANGED <<request, reply, conn>>, UNCHANGED mapVars,
         Op(Uri(w)) \in {"increment", "get", "reset", "other"},
         counter' = (CASE Op(Uri(w)) = "increment" -> counter + 1
                       [] Op(Uri(w)) = "reset" -> 1 [] OTHER -> counter),
         Result(w)' = (CASE Op(Uri(w)) = "reset" -> 1
                         [] Op(Uri(w)) = "other" -> NotFound [] OTHER -> counter)
  PROVE  Object!ObjNext
<1>1. PICK c \in Clients : c = conn[w]
  BY ServedCall
<1>2. request[c] # "none" /\ reply[c] = NoReply
      /\ CallOf(c) = [state |-> "called", op |-> Op(Uri(w))]
  BY <1>1, ServedCall
<1>3. CallOf(c)' = [state |-> "done", res |-> Result(w)']
  BY <1>1, <1>2, CallOfOne DEF CallBy
<1>4. \A d \in Clients \ {c} : CallOf(d)' = CallOf(d)
  BY <1>1, WorkerCalls
<1> DEFINE op == Op(Uri(w))
<1>5. op \in {"increment", "get", "reset", "other"}
      /\ counter' = (CASE op = "increment" -> counter + 1 [] op = "reset" -> 1 [] OTHER -> counter)
      /\ Result(w)' = (CASE op = "reset" -> 1 [] op = "other" -> NotFound [] OTHER -> counter)
      /\ CallOf(c) = [state |-> "called", op |-> op]
  BY <1>2
<1> QED
  BY <1>3, <1>4, <1>5, TakesEffect

\* The operation of a request that has been looked up is that of the function called.
LEMMA OpOfCall ==
  ASSUME ServiceInv, NEW w \in Workers, LookedUp(w)
  PROVE  Op(Uri(w)) = CASE method_func[w] = "get_and_increment_counter" -> "increment"
                        [] method_func[w] = "get_counter" -> "get"
                        [] method_func[w] = "reset_counter" -> "reset"
                        [] OTHER -> "other"
  BY DEF ServiceInv, CallInv, CallOK, Op

LEMMA WorkerObject ==
  ASSUME NEW w, Workers = {w}, RoomAtTheEnd, MapInv, ServiceInv, FreshInv, WorkerStep(w),
         UNCHANGED mapVars
  PROVE  Object!ObjNext \/ (counter' = counter /\ Calls' = Calls)
<1>1. TypeOK /\ LinkInv /\ CallInv /\ w \in Workers
  BY DEF ServiceInv
<1>2. CASE Consume(w)
  <2>1. UNCHANGED <<counter, request, reply>> /\ ~Effective(w) /\ ~Effective(w)'
    BY <1>1, <1>2 DEF Consume, Step, TypeOK, Effective
  <2>2. \A d \in Clients : CallOf(d)' = CallOf(d)
    BY <2>1, CallOfOne, SameOps DEF CallBy
  <2> QED
    BY <2>1, <2>2, CallsSame
<1>3. CASE Lookup(w)
  <2> DEFINE f == get_method_function(Uri(w))
  <2>1. Busy(w) /\ ~Effective(w) /\ UNCHANGED <<counter, request, reply, conn>>
    BY <1>3 DEF Lookup, Busy, Effective
  <2>2. Uri(w) \in Uris
    BY <1>1, <2>1, BusyHas DEF LinkInv, TypeOK, Uri
  <2>3. /\ wpc' = [wpc EXCEPT ![w] = StartOf(f)]
        /\ method_func' = [method_func EXCEPT ![w] = f]
        /\ body' = [body EXCEPT ![w] = IF f = NULL THEN NotFound ELSE @]
    <3>1. Found(Uri(w)) = {f}
      BY <2>2, FoundOnly
    <3> HIDE DEF f
    <3> QED
      BY <1>3, <3>1 DEF Lookup
  <2>4. wpc'[w] = StartOf(f) /\ method_func'[w] = f /\ (f = NULL => body'[w] = NotFound)
    BY <1>1, <2>3 DEF TypeOK
  <2>5. StartOf(f) = IF f = "reset_counter" THEN "reset" ELSE IF f = NULL THEN "reply" ELSE "print"
    BY ServiceAssumption DEF StartOf, Functions
  <2>6. CASE f = NULL
    <3>1. Effective(w)' /\ Result(w)' = NotFound
      BY <2>4, <2>5, <2>6, ServiceAssumption DEF Effective, Result, Functions
    <3>2. Op(Uri(w)) = "other"
      BY <2>6, ServiceAssumption DEF Op, Functions
    <3> QED
      BY <2>1, <3>1, <3>2, EffectAtStep
  <2>7. CASE f # NULL
    <3>1. ~Effective(w)'
      BY <2>4, <2>5, <2>7 DEF Effective
    <3>2. \A d \in Clients : CallOf(d)' = CallOf(d)
      BY <2>1, <3>1, CallOfOne, SameOps DEF CallBy
    <3> QED
      BY <2>1, <3>2, CallsSame
  <2> QED
    BY <2>6, <2>7
<1>4. CASE PrintCounter(w)
  <2>1. /\ wpc[w] = "print" /\ wpc'[w] = (IF Increments(w) THEN "load" ELSE "reply")
        /\ body'[w] = counter /\ UNCHANGED <<counter, request, reply, conn, method_func>>
    BY <1>1, <1>4 DEF PrintCounter, Step, TypeOK
  <2>2. Busy(w) /\ LookedUp(w)
    BY <2>1 DEF Busy, LookedUp
  <2>3. method_func[w] \in Functions
    BY <1>1, <2>1, ServiceAssumption DEF CallInv, CallOK, TypeOK
  <2>4. CASE method_func[w] = "get_and_increment_counter"
    <3>1. ~Effective(w) /\ ~Effective(w)'
      BY <2>1, <2>4 DEF Effective, Increments
    <3>2. \A d \in Clients : CallOf(d)' = CallOf(d)
      BY <2>1, <3>1, CallOfOne, SameOps DEF CallBy
    <3> QED
      BY <2>1, <3>2, CallsSame
  <2>5. CASE method_func[w] = "get_counter"
    <3>1. ~Effective(w) /\ Effective(w)' /\ Result(w)' = counter
      BY <2>1, <2>5 DEF Effective, Increments, Result
    <3>2. Op(Uri(w)) = "get"
      BY <1>1, <2>2, <2>5, OpOfCall
    <3> QED
      BY <2>1, <2>2, <3>1, <3>2, EffectAtStep
  <2>6. CASE method_func[w] = "reset_counter"
    <3>1. Effective(w) /\ Effective(w)' /\ counter = 1
      BY <1>1, <2>1, <2>6 DEF Effective, Increments, FreshInv
    <3>2. Result(w) = 1 /\ Result(w)' = 1
      BY <2>1, <2>6, <3>1 DEF Result, Increments
    <3>3. \A d \in Clients : CallOf(d)' = CallOf(d)
      BY <2>1, <3>1, <3>2, CallOfOne, SameOps DEF CallBy
    <3> QED
      BY <2>1, <3>3, CallsSame
  <2> QED
    BY <2>3, <2>4, <2>5, <2>6 DEF Functions
<1>5. CASE Load(w)
  <2>1. ~Effective(w) /\ ~Effective(w)' /\ UNCHANGED <<counter, request, reply, conn>>
    BY <1>1, <1>5 DEF Load, Step, TypeOK, Effective
  <2>2. \A d \in Clients : CallOf(d)' = CallOf(d)
    BY <2>1, CallOfOne, SameOps DEF CallBy
  <2> QED
    BY <2>1, <2>2, CallsSame
<1>6. CASE Store(w)
  <2>1. /\ wpc[w] = "store" /\ wpc'[w] = "reply" /\ body'[w] = counter /\ counter' = counter + 1
        /\ UNCHANGED <<request, reply, conn>>
    BY <1>1, <1>6 DEF Store, Step, TypeOK, FreshInv
  <2>2. Busy(w) /\ LookedUp(w) /\ ~Effective(w) /\ Effective(w)' /\ Result(w)' = counter
    BY <2>1 DEF Busy, LookedUp, Effective, Result
  <2>3. Op(Uri(w)) = "increment"
    <3>1. method_func[w] = "get_and_increment_counter"
      BY <1>1, <2>1 DEF CallInv, CallOK, Increments
    <3> QED
      BY <1>1, <2>2, <3>1, OpOfCall
  <2> QED
    BY <2>1, <2>2, <2>3, EffectAtStep
<1>7. CASE Reset(w)
  <2>1. /\ wpc[w] = "reset" /\ wpc'[w] = "print" /\ counter' = 1
        /\ UNCHANGED <<request, reply, conn, method_func>>
    BY <1>1, <1>7 DEF Reset, Step, TypeOK
  <2>2. method_func[w] = "reset_counter"
    BY <1>1, <2>1 DEF CallInv, CallOK
  <2>3. Busy(w) /\ LookedUp(w) /\ ~Effective(w) /\ Effective(w)' /\ Result(w)' = 1
    BY <2>1, <2>2 DEF Busy, LookedUp, Effective, Result
  <2>4. Op(Uri(w)) = "reset"
    BY <1>1, <2>2, <2>3, OpOfCall
  <2> QED
    BY <2>1, <2>3, <2>4, EffectAtStep
<1>8. CASE Reply(w)
  <2>1. PICK c \in Clients : c = conn[w]
    BY <1>1, <1>8, BusyHas DEF Reply, Step, Busy
  <2>2. /\ wpc[w] = "reply" /\ counter' = counter /\ wpc'[w] = "wait"
        /\ reply'[c] = body[w] /\ \A d \in Clients \ {c} : reply'[d] = reply[d]
        /\ request'[c] = "none" /\ \A d \in Clients \ {c} : request'[d] = request[d]
    BY <1>1, <1>8, <2>1 DEF Reply, Step, TypeOK
  <2>3. Busy(w) /\ Effective(w) /\ Result(w) = body[w] /\ ~Effective(w)'
    BY <2>2 DEF Busy, Effective, Result
  <2>4. body[w] # NoReply
    BY <1>1, ServiceAssumption DEF TypeOK, NoReply, NotFound
  <2>5. CallOf(c)' = CallOf(c)
    <3>1. CallOf(c) = [state |-> "done", res |-> body[w]]
      BY <2>1, <2>3, ServedCall
    <3>2. CallOf(c)' = [state |-> "done", res |-> body[w]]
      BY <2>2, <2>4, CallOfOne DEF CallBy
    <3> QED
      BY <3>1, <3>2
  <2>6. \A d \in Clients \ {c} : CallOf(d)' = CallOf(d)
    BY <2>1, <2>2, <2>3, CallOfOne, SameOps DEF CallBy
  <2>7. \A d \in Clients : CallOf(d)' = CallOf(d)
    BY <2>5, <2>6
  <2> QED
    BY <2>2, <2>7, CallsSame
<1> QED
  BY <1>2, <1>3, <1>4, <1>5, <1>6, <1>7, <1>8 DEF WorkerStep

LEMMA InsertObject ==
  ASSUME NEW w, Workers = {w}, ServiceInv, Insert, UNCHANGED serviceVars
  PROVE  counter' = counter /\ Calls' = Calls
<1>1. \A c \in Clients : request[c] = "none" /\ reply[c] = NoReply
  BY DEF Insert, ServiceInv, LinkInv
<1>2. \A c \in Clients : CallOf(c)' = CallOf(c)
  BY <1>1, CallOfOne DEF CallBy, serviceVars
<1> QED
  BY <1>2, CallsSame DEF serviceVars

LEMMA CounterSteps ==
  ASSUME NEW w, Workers = {w}, RoomAtTheEnd, MapInv, ServiceInv, FreshInv, [Next]_vars
  PROVE  [Object!ObjNext]_<<counter, Calls>>
<1>1. CASE Insert /\ UNCHANGED serviceVars
  BY <1>1, InsertObject
<1>2. CASE Serve /\ UNCHANGED mapVars
  BY <1>2, SendCallsObject, ReceiveReturns, WorkerObject DEF Serve
<1>3. CASE UNCHANGED vars
  <2>1. UNCHANGED mapVars /\ UNCHANGED <<counter, request, reply, conn>>
        /\ Effective(w)' = Effective(w) /\ Result(w)' = Result(w)
    BY <1>3 DEF vars, serviceVars, Effective, Result
  <2> QED
    BY <2>1, WorkerCalls
<1> QED
  BY <1>1, <1>2, <1>3 DEF Next

LEMMA CounterStart ==
  ASSUME Init
  PROVE  Object!ObjInit /\ FreshInv
<1>1. \A c \in Clients : CallOf(c) = [state |-> "idle"]
  BY DEF Init, CallOf
<1> QED
  BY <1>1 DEF Init, FreshInv, Object!ObjInit, Object!Idle

OneWorker == \E w : Workers = {w}

\* With one worker, as run.sh asks for, and while the last cell of the map stays free, every request
\* takes effect at one instant between call and answer, though the counter has no lock.
THEOREM ImplementsCounterObject ==
  ASSUME RoomAtTheEnd, OneWorker
  PROVE  Spec => ImplementsCounter
<1>1. PICK w : Workers = {w}
  BY DEF OneWorker
<1>2. Init => MapInv /\ ServiceInv /\ FreshInv /\ Object!ObjInit
  BY MapStart, StartService, CounterStart DEF Init
<1>3. MapInv /\ ServiceInv /\ FreshInv /\ [Next]_vars => (MapInv /\ ServiceInv /\ FreshInv)'
  BY <1>1, MapSteps, ServiceSteps, FreshSteps
<1>4. MapInv /\ ServiceInv /\ FreshInv /\ [Next]_vars => [Object!ObjNext]_<<counter, Calls>>
  BY <1>1, CounterSteps
<1> QED
  BY <1>2, <1>3, <1>4, PTL DEF Spec, ImplementsCounter, Object!ObjSpec, Calls
=============================================================================
