--------------------------- MODULE FunctionsMap ---------------------------
(***************************************************************************)
(* counter-service/functions_map.c: the open-addressing hash table from    *)
(* URIs to functions.  main fills it with the registrations of functions.c *)
(* before the server starts; then the worker threads of CounterService,    *)
(* which extends this module, only look URIs up.  The hash of a URI is any *)
(* number Hashes allows; the allocation of the copy of a URI may fail,     *)
(* that of the table is assumed not to.                                    *)
(***************************************************************************)
EXTENDS Integers, Sequences, FiniteSets, FiniteSetsExt

CONSTANTS
  Registrations,   \* the pairs <<uri, function>> in the order of FUNCTION_MAPS
  OtherUris,       \* URIs requested that are not among them
  MinCapacities,   \* capacities that INIT_FUNC_MAP may ask for
  Hashes,          \* the functions hash may be, from the URIs
  NULL,
  OutOfBounds      \* the answer of a lookup that leaves the table: anything

Uris == {Registrations[i][1] : i \in DOMAIN Registrations} \cup OtherUris
Functs == {Registrations[i][2] : i \in DOMAIN Registrations}

ASSUME MapAssumption ==
  /\ Registrations \in Seq(Uris \X Functs)
  /\ MinCapacities \subseteq Nat \ {0}
  /\ \A h \in Hashes : h \in [Uris -> Nat]
  /\ NULL \notin Uris \cup Functs
  /\ OutOfBounds \notin Functs \cup {NULL}

VARIABLES
  min_capacity,   \* the argument of init_hash_table
  hash,           \* the hash function
  capacity, curr_size, table,   \* method_uri_table
  todo            \* registrations that are still to be inserted

mapVars == <<min_capacity, hash, capacity, curr_size, table, todo>>

\* Two is no prime here.  The loop tries 3, 5, ... up to the root.
check_prime(num) ==
  /\ num > 2
  /\ num % 2 # 0
  /\ \A i \in {j \in 3 .. num : j % 2 = 1 /\ j * j <= num} : num % i # 0

\* The search ends: a prime lies between a number and its double, and 3 after 1.
ASSUME BertrandAssumption ==
  \A num \in MinCapacities : \E n \in num .. 2 * num + 1 : check_prime(n)

getUpperPrimeNumber(num) ==
  Min({n \in num .. 2 * num + 1 : check_prime(n)})

MapInit ==
  /\ min_capacity \in MinCapacities
  /\ hash \in Hashes
  /\ capacity = getUpperPrimeNumber(min_capacity)
  /\ curr_size = 0
  /\ table = [i \in 0 .. capacity - 1 |->
               [method_uri |-> NULL, method_function |-> NULL]]
  /\ todo = Registrations

key(u) == hash[u] % capacity

\* The cells insert_item probes: key(u), and on with wraparound.
Probe(u, d) == (key(u) + d) % capacity

FreeCell(u) ==
  Probe(u, Min({d \in 0 .. capacity - 1 :
                  table[Probe(u, d)].method_uri = NULL}))

\* Slips: no probing; the size is counted up before strdup is seen to fail.
insert_item_NoProbe(u, f) ==
  \E copy \in {u, NULL} :
    /\ table' = [table EXCEPT ![key(u)] =
                  [method_uri |-> copy, method_function |-> f]]
    /\ curr_size' = IF copy = NULL THEN curr_size ELSE curr_size + 1

insert_item_CountsFirst(u, f) ==
  /\ capacity > curr_size
  /\ \E copy \in {u, NULL} :
       table' = [table EXCEPT ![FreeCell(u)] =
                  [method_uri |-> copy, method_function |-> f]]
  /\ curr_size' = curr_size + 1

\* insert_item.  When strdup fails the function is stored without a URI.
insert_item(u, f) ==
  \/ /\ capacity <= curr_size
     /\ UNCHANGED <<curr_size, table>>
  \/ /\ capacity > curr_size
     /\ \E copy \in {u, NULL} :
          /\ table' = [table EXCEPT ![FreeCell(u)] =
                        [method_uri |-> copy, method_function |-> f]]
          /\ curr_size' = IF copy = NULL THEN curr_size ELSE curr_size + 1

\* The next registration.  DEFINE_FUNC_MAP ignores whether it succeeded.
Insert ==
  /\ todo # <<>>
  /\ insert_item(Head(todo)[1], Head(todo)[2])
  /\ todo' = Tail(todo)
  /\ UNCHANGED <<min_capacity, hash, capacity>>

\* What the lookup relies on and insert_item does not see to: for each cell, fewer URIs hash to
\* that cell or behind it than there are cells from there on, so that the last stays free.  It
\* is so of djb2, the three URIs and the capacity of functions.c.
RoomAtTheEnd ==
  \A h \in Hashes, num \in MinCapacities :
    LET size == getUpperPrimeNumber(num)
    IN  \A a \in 0 .. size - 1 :
          Cardinality({i \in DOMAIN Registrations : h[Registrations[i][1]] % size >= a}) < size - a

\* The lookup goes on from key(u) to the first cell that is free or has u,
\* without wraparound.
get_method_function(u) ==
  LET stops == {i \in key(u) .. capacity - 1 :
                  table[i].method_uri \in {NULL, u}}
      cell == table[Min(stops)]
  IN  IF stops = {} THEN OutOfBounds
      ELSE IF cell.method_uri = NULL THEN NULL
      ELSE cell.method_function
-----------------------------------------------------------------------------
(***************************************************************************)
(* Properties.                                                             *)
(***************************************************************************)

\* The capacity is the first odd prime from the requested one on: no smaller
\* divisor, and every number skipped is even or composite.
CapacityIsPrime ==
  LET Prime(n) == n > 2 /\ \A a \in 2 .. n - 1 : n % a # 0
  IN  /\ capacity >= min_capacity
      /\ Prime(capacity)
      /\ \A n \in min_capacity .. capacity - 1 : ~Prime(n)

\* curr_size, which alone keeps insert_item's loop from running for ever, is the
\* number of cells in use, also when a strdup has failed.
SizeIsUse ==
  curr_size = Cardinality({i \in DOMAIN table : table[i].method_uri # NULL})

\* Whatever was registered and copied is found from then on, with the function of
\* its first registration, wherever hashes collide and copies fail.
Methods ==
  LET found == {u \in Uris : get_method_function(u) # NULL}
  IN  [u \in found |-> get_method_function(u)]

Map == INSTANCE MethodMap WITH methods <- Methods

ImplementsMap == Map!MapSpec

\* "Returns NULL if not found in hash table".
NullIfNotFound ==
  \A u \in Uris :
    (\A i \in DOMAIN table : table[i].method_uri # u)
      => get_method_function(u) = NULL

\* What lookups and insertions count on in the table.
MapIsSound == CapacityIsPrime /\ SizeIsUse /\ NullIfNotFound
=============================================================================
