----------------------------- MODULE HashTable -----------------------------
(* The open-addressed table of common/hashtable.c, in its two copies (hash_* for
   strings, hashptr_* for pointers): linear probing over a prime number of
   entries, and growth into the next prime of a list that is made once.

   Calls do not overlap, as the locks of the callers see to, so every loop that
   changes the table has its turns as steps, and a search, which changes nothing,
   is the place at which it ends.  A pointer may be NULL, as the root_context of
   glwin/trackcontext.c is; such a key fills no entry.  Only SIZE_MAX bounds
   the growth: an allocation of that many entries fails. *)
EXTENDS Naturals, Sequences, FiniteSets

CONSTANTS
    Key, Value, NULL,
    Hash,       \* hash() of a string, or the address
    SIZE_MAX,   \* (size_t) -1
    MaxIndex    \* bound on size_index

ASSUME KeyAssumption == NULL \notin Key \cup Value
ASSUME HashAssumption == Hash \in [Key \cup {NULL} -> Nat]
ASSUME SizeAssumption == SIZE_MAX \in Nat \ {0} /\ MaxIndex \in Nat

VARIABLES
    primes, made,               \* sizes of tables, and hash_once
    size, size_index, count, entries,
    table_pc, key, value, big, i,     \* bugle_hashptr_set and its locals
    map                         \* history: what was set

table == <<size, size_index, count, entries>>
table_vars == <<primes, made, table, big, i, table_pc, key, value, map>>

Blank == [key |-> NULL, value |-> NULL]
Allocated(n) == [p \in 0 .. n - 1 |-> Blank]
Occupied(t) == {p \in DOMAIN t : t[p].key # NULL}

\* How often "if (++h == size) h = 0" takes h from where k hashes to, to p
Distance(k, p, n) == LET h == Hash[k] % n IN IF p >= h THEN p - h ELSE p - h + n

\* The loop from where k hashes to, on to a key among stops, ends at p.
StopsAt(t, n, k, stops, p) ==
    /\ t[p].key \in stops
    /\ \A q \in DOMAIN t : Distance(k, q, n) < Distance(k, p, n) => t[q].key \notin stops

EndsAt(t, n, k, p) == StopsAt(t, n, k, {NULL, k}, p)

Filled(t, p, k, v) == [t EXCEPT ![p] = [key |-> k, value |-> v]]
-----------------------------------------------------------------------------
TableInit ==
    /\ primes = <<>> /\ made = FALSE
    /\ size = 0 /\ size_index = 0 /\ count = 0 /\ entries = Allocated(0)
    /\ big = Allocated(0) /\ i = 0
    /\ table_pc = "idle" /\ key = NULL /\ value = NULL
    /\ map = [k \in {} |-> NULL]

\* Grows a table that is full, not one that is half full.
GrowsWhenFull == count >= size /\ size < SIZE_MAX

Grows == count >= size \div 2 /\ size < SIZE_MAX

\* bugle_hash_set, bugle_hashptr_set
HashSet(k, v) ==
    /\ table_pc = "idle" /\ (Grows => size_index < MaxIndex)
    /\ key' = k /\ value' = v
    /\ table_pc' = IF ~Grows THEN "store" ELSE IF made THEN "grow" ELSE "primes"
    /\ UNCHANGED <<primes, made, table, big, i, map>>

(* hash_initialise.  is_prime takes an int, and what it makes of a larger number
   is of no consequence here. *)
is_prime(x) == \A d \in 2 .. x : d * d <= x => x % d # 0
Last == primes[Len(primes)]

FirstPrime ==
    /\ table_pc = "primes" /\ primes = <<>>
    /\ primes' = <<5>>
    /\ UNCHANGED <<made, table, big, i, table_pc, key, value, map>>

NextPrime ==
    /\ table_pc = "primes" /\ primes # <<>>
    /\ is_prime(Last) /\ Last < SIZE_MAX \div 2
    /\ primes' = Append(primes, 2 * Last + 1)
    /\ UNCHANGED <<made, table, big, i, table_pc, key, value, map>>

AddTwo ==
    /\ table_pc = "primes" /\ primes # <<>> /\ ~is_prime(Last)
    /\ primes' = [primes EXCEPT ![Len(primes)] = @ + 2]
    /\ UNCHANGED <<made, table, big, i, table_pc, key, value, map>>

LastPrime ==
    /\ table_pc = "primes" /\ primes # <<>>
    /\ is_prime(Last) /\ Last >= SIZE_MAX \div 2
    /\ primes' = Append(primes, SIZE_MAX)
    /\ made' = TRUE /\ table_pc' = "grow"
    /\ UNCHANGED <<table, big, i, key, value, map>>

\* BUGLE_CALLOC does not return when there is no memory (bugle_alloc_die).
Allocate ==
    /\ table_pc = "grow"
    /\ IF primes[size_index + 1] < SIZE_MAX
       THEN table_pc' = "move" /\ big' = Allocated(primes[size_index + 1])
       ELSE table_pc' = "died" /\ UNCHANGED big
    /\ i' = 0
    /\ UNCHANGED <<primes, made, table, key, value, map>>

\* Copies an entry to where it was.
MoveInPlace ==
    /\ table_pc = "move" /\ i < size
    /\ big' = [big EXCEPT ![i] = entries[i]]
    /\ i' = i + 1
    /\ UNCHANGED <<primes, made, table, table_pc, key, value, map>>

\* hash_set_fast, hashptr_set_fast
Move ==
    /\ table_pc = "move" /\ i < size
    /\ IF entries[i].key = NULL THEN UNCHANGED big
       ELSE \E p \in DOMAIN big :
               /\ StopsAt(big, primes[size_index + 1], entries[i].key, {NULL}, p)
               /\ big' = Filled(big, p, entries[i].key, entries[i].value)
    /\ i' = i + 1
    /\ UNCHANGED <<primes, made, table, table_pc, key, value, map>>

\* "*table = big": the count starts again.
Install ==
    /\ table_pc = "move" /\ i = size
    /\ size_index' = size_index + 1 /\ size' = primes[size_index + 1]
    /\ count' = 0 /\ entries' = big
    /\ table_pc' = "store" /\ big' = Allocated(0) /\ i' = 0
    /\ UNCHANGED <<primes, made, key, value, map>>

Store ==
    /\ table_pc = "store"
    /\ \E p \in DOMAIN entries :
          /\ EndsAt(entries, size, key, p)
          /\ entries' = Filled(entries, p, key, value)
          /\ count' = IF entries[p].key = NULL THEN count + 1 ELSE count
    /\ map' = IF key = NULL THEN map
              ELSE [k \in DOMAIN map \cup {key} |-> IF k = key THEN value ELSE map[k]]
    /\ table_pc' = "idle" /\ key' = NULL /\ value' = NULL
    /\ UNCHANGED <<primes, made, size, size_index, big, i>>

\* bugle_hash_clear, bugle_hashptr_clear
Clear ==
    /\ table_pc = "idle"
    /\ size' = 0 /\ size_index' = 0 /\ count' = 0 /\ entries' = Allocated(0)
    /\ map' = [k \in {} |-> NULL]
    /\ UNCHANGED <<primes, made, big, i, table_pc, key, value>>

TableNext ==
    \/ \E k \in Key \cup {NULL}, v \in Value \cup {NULL} : HashSet(k, v)
    \/ FirstPrime \/ NextPrime \/ AddTwo \/ LastPrime
    \/ Allocate \/ Move \/ Install \/ Store \/ Clear

TableSpec == TableInit /\ [][TableNext]_table_vars
-----------------------------------------------------------------------------
(* Every loop over the entries ends: there is a free one, although count, which
   decides on growth, forgets at each growth what was moved. *)
ProbesEnd ==
    /\ size > 0 => Occupied(entries) # DOMAIN entries
    /\ table_pc = "move" => Occupied(big) # DOMAIN big

\* bugle_hashptr_count and bugle_hashptr_get, when the search for a key ends at p
Counted(p) == entries[p].key # NULL
Got(p) == IF Counted(p) THEN entries[p].value ELSE NULL

(* The table is the map of what was set since it was cleared: a search finds the
   value set last, or that there is none, and the iteration, which visits every
   entry with a key, meets every key once. *)
FindsWhatWasSet ==
    /\ size = 0 => DOMAIN map = {}
    /\ \A k \in Key, p \in DOMAIN entries : EndsAt(entries, size, k, p) =>
          /\ Counted(p) <=> k \in DOMAIN map
          /\ Counted(p) => Got(p) = map[k]
    /\ {entries[p].key : p \in Occupied(entries)} = DOMAIN map
    /\ \A p, q \in Occupied(entries) : entries[p].key = entries[q].key => p = q
-----------------------------------------------------------------------------
(* The inductive invariant behind both. *)
Entry == [key : Key \cup {NULL}, value : Value \cup {NULL}]

TableTypeOK ==
    /\ primes \in Seq(Nat) /\ made \in BOOLEAN
    /\ size \in Nat /\ size_index \in Nat /\ count \in Nat /\ i \in Nat
    /\ table_pc \in {"idle", "primes", "grow", "move", "store", "died"}
    /\ key \in Key \cup {NULL} /\ value \in Value \cup {NULL}
    /\ entries \in [0 .. size - 1 -> Entry]

\* Each size is more than twice the one before, but for the last.
Doubles ==
    /\ Len(primes) > 0 => primes[1] >= 5
    /\ \A j \in 1 .. Len(primes) - 1 :
          primes[j + 1] >= 2 * primes[j] + 1 \/ (made /\ primes[j + 1] = SIZE_MAX)

\* The sizes of the tables are on the list, up to the one that cannot be had.
Sizes ==
    /\ table_pc \in {"grow", "move"} => made
    /\ table_pc = "primes" => ~made
    /\ made => Len(primes) > 0 /\ primes[Len(primes)] = SIZE_MAX
    /\ size_index = 0 => size = 0
    /\ size_index > 0 => /\ made /\ size_index <= Len(primes)
                         /\ size = primes[size_index] /\ size >= 5 /\ size < SIZE_MAX

SizeBefore == IF size_index < 2 THEN 0 ELSE primes[size_index - 1]

\* What count forgets is less than the table before had entries.
Room ==
    /\ Cardinality(Occupied(entries)) <= count + SizeBefore
    /\ size > 0 => count <= size \div 2
    /\ table_pc = "store" => size > 0 /\ count < size \div 2

Content(t, places) == {t[p] : p \in Occupied(t) \cap places}

\* While it is copied, the entries up to i are in the new table.
Moving ==
    table_pc = "move" =>
        /\ size_index < Len(primes) /\ primes[size_index + 1] < SIZE_MAX
        /\ big \in [0 .. primes[size_index + 1] - 1 -> Entry]
        /\ i <= size
        /\ Cardinality(Occupied(big)) <= i
        /\ Content(big, DOMAIN big) = Content(entries, 0 .. i - 1)

\* Every entry is where a search for its key ends.
InPlace(t, n) == \A p \in Occupied(t) : EndsAt(t, n, t[p].key, p)
BothInPlace == /\ InPlace(entries, size)
               /\ table_pc = "move" => InPlace(big, primes[size_index + 1])

\* Every entry holds what was set.
HoldsMap == /\ {entries[p].key : p \in Occupied(entries)} = DOMAIN map
            /\ \A p \in Occupied(entries) : entries[p].value = map[entries[p].key]

TableInv == TableTypeOK /\ Doubles /\ Sizes /\ Room /\ Moving /\ BothInPlace /\ HoldsMap
=============================================================================
