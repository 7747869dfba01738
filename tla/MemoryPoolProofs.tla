-------------------------- MODULE MemoryPoolProofs --------------------------
(* Proofs about MemoryPool for any threads, object size, blocks and word size. *)
EXTENDS MemoryPool, TLAPS

-----------------------------------------------------------------------------
(* The inductive invariant *)

Used == UNION {held[t] : t \in Threads}
Unused == Slots \ Used

Inside(s, b) == b + Pointer <= s /\ s + SlotSize <= b + BlockSize

Aligned(s) == s % Pointer = 0 /\ (WordSize % SlotSize = 0 => s % SlotSize = 0)

(* Slots lie in blocks, apart from each other, and what is left of the current block
   lies behind the slots that were cut from it. *)
Geometry ==
  /\ \A s \in Slots : s \in Nat /\ Aligned(s) /\ \E b \in blocks : Inside(s, b)
  /\ \A r, s \in Slots : r < s => r + SlotSize <= s
  /\ curSlot < lastSlot =>
       /\ Aligned(curSlot)
       /\ \E b \in blocks :
            /\ b + Pointer <= curSlot /\ lastSlot = LastSlot(b)
            /\ \A s \in Slots : s + SlotSize <= curSlot \/ b + BlockSize <= s

(* The mutex is held inside the critical sections, and the locals are of use only
   there. *)
Locking ==
  \A t \in Threads :
    /\ mutex = t <=> pc[t] \in {"pop", "unlink", "push", "fault"}
    /\ temp[t] # Null => mutex = t
    /\ rest[t] # Null => pc[t] = "unlink"

(* The unused slots are linked into chains that do not meet, lead to no slot in use
   and carry no word of an object; the lost ones too. *)
Chains ==
  /\ \A t, u \in Threads : t # u => held[t] \cap held[u] = {}
  /\ \A s \in Used : next[s] = Garbage
  /\ \A s \in Unused : next[s] \in Unused \cup {Null}
  /\ \A r, s \in Unused : next[r] = next[s] /\ next[r] # Null => r = s
  /\ freeList \in Unused \cup {Null}

First(s) == s \in Unused /\ \A r \in Unused : next[r] # s

(* freeList_ is the first of its chain, but for a slot that is being pushed; a slot
   that is being popped is the first one of the chain it came from, also when
   allocateNewBlock has cleared freeList_ meanwhile. *)
Heads ==
  /\ mutex = Null /\ freeList # Null => First(freeList)
  /\ \A t \in Threads :
       /\ pc[t] \in {"pop", "unlink", "push"} => First(temp[t])
       /\ pc[t] \in {"pop", "unlink"} => freeList \in {temp[t], Null}
       /\ pc[t] = "unlink" => rest[t] = next[temp[t]]
       /\ pc[t] = "push" => freeList \in {next[temp[t]], Null}

IInv == TypeOK /\ Geometry /\ Locking /\ Chains /\ Heads

-----------------------------------------------------------------------------
(* Remainders *)

LEMMA Quotient ==
  ASSUME NEW n \in Nat \ {0}, NEW a \in Int
  PROVE  a % n \in 0..(n - 1) /\ \E k \in Int : a = k * n + (a % n)
<1>1. a \div n \in Int /\ a % n \in 0..(n - 1) /\ a = n * (a \div n) + (a % n)
  BY SMT
<1> DEFINE k == a \div n
<1>2. k \in Int /\ a = n * k + (a % n)
  BY <1>1
<1> HIDE DEF k
<1>3. n * k = k * n
  BY <1>2, SMT
<1>4. QED BY <1>1, <1>2, <1>3

LEMMA Factor ==
  ASSUME NEW n \in Nat \ {0}, NEW a \in Int, a % n = 0
  PROVE  \E k \in Int : a = k * n
<1>1. PICK k \in Int : a = k * n + (a % n)
  BY Quotient
<1>2. a = k * n
  BY <1>1, SMT
<1>3. QED BY <1>2

LEMMA Multiple ==
  ASSUME NEW n \in Nat \ {0}, NEW k \in Int
  PROVE  (k * n) % n = 0
<1> DEFINE a == k * n
           r == a % n
<1>1. a \in Int
  BY SMT
<1>2. r \in 0..(n - 1) /\ \E q \in Int : a = q * n + r
  BY <1>1, Quotient
<1>3. PICK q \in Int : k * n = q * n + r
  BY <1>2
<1> HIDE DEF r
<1>4. r = (k - q) * n
  BY <1>2, <1>3, SMT
<1>5. CASE k - q >= 1
  <2>1. (k - q) * n >= n
    BY <1>5, SMT
  <2>2. QED BY <2>1, <1>2, <1>4
<1>6. CASE k - q <= -1
  <2>1. (k - q) * n <= -n
    BY <1>6, SMT
  <2>2. QED BY <2>1, <1>2, <1>4
<1>7. CASE k = q
  <2>1. r = 0
    BY <1>4, <1>7, SMT
  <2>2. QED BY <2>1 DEF r
<1>8. QED BY <1>5, <1>6, <1>7

(* Sums and remainders of multiples of n are multiples of n. *)
LEMMA MultipleSum ==
  ASSUME NEW n \in Nat \ {0}, NEW a \in Int, NEW b \in Int, a % n = 0, b % n = 0
  PROVE  (a + b) % n = 0 /\ (a - b) % n = 0
<1>1. PICK j \in Int : a = j * n
  BY Factor
<1>2. PICK k \in Int : b = k * n
  BY Factor
<1>3. a + b = (j + k) * n /\ a - b = (j - k) * n
  BY <1>1, <1>2, SMT
<1>4. j + k \in Int /\ j - k \in Int
  OBVIOUS
<1>5. ((j + k) * n) % n = 0 /\ ((j - k) * n) % n = 0
  BY <1>4, Multiple
<1>6. QED BY <1>3, <1>5

LEMMA RemainderMultiple ==
  ASSUME NEW n \in Nat \ {0}, NEW m \in Nat \ {0}, NEW a \in Int, m % n = 0
  PROVE  ((a % m) - a) % n = 0
<1>1. a % m \in 0..(m - 1) /\ \E k \in Int : a = k * m + (a % m)
  BY Quotient
<1>2. PICK k \in Int : a = k * m + (a % m)
  BY <1>1
<1>3. PICK j \in Int : m = j * n
  BY Factor
<1> DEFINE r == a % m
<1>4. r \in Int /\ a = k * m + r
  BY <1>1, <1>2
<1> HIDE DEF r
<1>5. k * (j * n) = (k * j) * n
  BY SMT
<1>6. r - a = -(k * (j * n))
  BY <1>3, <1>4, SMT
<1>7. -((k * j) * n) = (-(k * j)) * n
  BY SMT
<1>8. -(k * j) \in Int
  BY SMT
<1>9. ((-(k * j)) * n) % n = 0
  BY <1>8, Multiple
<1>10. (r - a) % n = 0
  BY <1>5, <1>6, <1>7, <1>9
<1>11. QED BY <1>10 DEF r

-----------------------------------------------------------------------------
(* Sizes and addresses *)

(* HashBucket's pool for a size has slots that are large enough, and not by 8. *)
LEMMA SlotSizeFacts ==
  /\ SlotSize \in Nat \ {0} /\ SlotSize % Pointer = 0
  /\ Size \in Nat /\ Size <= SlotSize /\ SlotSize < Size + 8
  /\ BlockSize \in Nat /\ 2 * SlotSize + 7 <= BlockSize
<1>1. Size \in 1..512
  BY PoolAssumption
<1> DEFINE q == (Size + 7) \div 8
<1>2. q \in Nat /\ 8 * q <= Size + 7 /\ Size + 7 < 8 * q + 8
  BY <1>1
<1>3. SlotSize = (q - 1 + 1) * 8
  BY DEF SlotSize, poolIndex
<1> HIDE DEF q
<1>4. SlotSize = q * 8
  BY <1>2, <1>3
<1>5. SlotSize % 8 = 0
  BY <1>2, <1>4, Multiple
<1>6. BlockSize \in Nat /\ 2 * SlotSize + 8 - 1 <= BlockSize
  BY PoolAssumption DEF Pointer
<1>7. QED BY <1>1, <1>2, <1>4, <1>5, <1>6 DEF Pointer

(* The first slot of a block is aligned and has room in it. *)
LEMMA FirstSlotFacts ==
  ASSUME NEW b \in Bases
  PROVE  /\ b \in Nat /\ FirstSlot(b) \in Nat /\ LastSlot(b) \in Nat
         /\ b + Pointer <= FirstSlot(b) /\ FirstSlot(b) + SlotSize <= b + BlockSize
         /\ Aligned(FirstSlot(b))
<1> DEFINE p == b + 8
           x == SlotSize - p
           y == x % WordSize
           z == y % SlotSize
<1>1. /\ b \in Nat /\ b % 8 = 0 /\ WordSize \in Nat \ {0} /\ WordSize % 8 = 0
      /\ SlotSize \in Nat \ {0} /\ SlotSize % 8 = 0 /\ 8 \in Nat \ {0}
      /\ BlockSize \in Nat /\ 2 * SlotSize + 7 <= BlockSize
  BY PoolAssumption, SlotSizeFacts DEF Pointer
<1>2. p \in Int /\ x \in Int
  BY <1>1
<1>3. y \in Nat
  BY <1>1, <1>2, Quotient
<1>4. z \in 0..(SlotSize - 1)
  BY <1>1, <1>3, Quotient
<1>5. FirstSlot(b) = p + z /\ LastSlot(b) = b + BlockSize - SlotSize + 1
  BY DEF FirstSlot, LastSlot, padPointer, Pointer
<1> HIDE DEF z
<1>6. ASSUME NEW n \in Nat \ {0}, SlotSize % n = 0, WordSize % n = 0
      PROVE  (p + z) % n = 0
  <2>1. (y - x) % n = 0
    BY <1>1, <1>2, <1>6, RemainderMultiple
  <2> HIDE DEF y
  <2>2. (z - y) % n = 0
    <3>1. y \in Int
      BY <1>3
    <3>2. ((y % SlotSize) - y) % n = 0
      BY <3>1, <1>1, <1>6, RemainderMultiple, Zenon
    <3>3. QED BY <3>2 DEF z
  <2>3. z \in Int /\ y \in Int /\ z - y \in Int /\ y - x \in Int
    BY <1>2, <1>3, <1>4
  <2>4. ((z - y) + (y - x)) % n = 0
    BY <1>6, <2>1, <2>2, <2>3, MultipleSum
  <2>5. (z - y) + (y - x) \in Int /\ SlotSize \in Int
    BY <2>3, <1>1
  <2>6. (((z - y) + (y - x)) + SlotSize) % n = 0
    BY <1>6, <2>4, <2>5, MultipleSum
  <2>7. ((z - y) + (y - x)) + SlotSize = p + z
    BY <1>1, <2>3
  <2>8. QED BY <2>6, <2>7
<1>7. (p + z) % 8 = 0
  BY <1>1, <1>6
<1>8. ASSUME WordSize % SlotSize = 0 PROVE (p + z) % SlotSize = 0
  <2>1. SlotSize % SlotSize = 0
    <3>1. (1 * SlotSize) % SlotSize = 0
      BY <1>1, Multiple
    <3>2. QED BY <3>1, <1>1
  <2>2. QED BY <1>1, <1>8, <2>1, <1>6
<1>9. Aligned(FirstSlot(b))
  BY <1>5, <1>7, <1>8 DEF Aligned, Pointer
<1>10. QED BY <1>1, <1>4, <1>5, <1>9 DEF Pointer

LEMMA NextSlotAligned ==
  ASSUME NEW s \in Nat, Aligned(s)
  PROVE  Aligned(s + SlotSize)
<1>1. SlotSize \in Nat \ {0} /\ SlotSize % 8 = 0 /\ s % 8 = 0
  BY SlotSizeFacts DEF Aligned, Pointer
<1>2. (s + SlotSize) % 8 = 0
  BY <1>1, MultipleSum
<1>3. ASSUME WordSize % SlotSize = 0 PROVE (s + SlotSize) % SlotSize = 0
  <2>1. s % SlotSize = 0
    BY <1>3 DEF Aligned
  <2>2. (1 * SlotSize) % SlotSize = 0
    BY <1>1, Multiple
  <2>3. SlotSize % SlotSize = 0
    BY <2>2, <1>1
  <2>4. s \in Int /\ SlotSize \in Int
    BY <1>1
  <2>5. QED BY <1>1, <2>1, <2>3, <2>4, MultipleSum, Zenon
<1>4. QED BY <1>2, <1>3 DEF Aligned, Pointer

-----------------------------------------------------------------------------
(* The invariant *)

LEMMA InitIInv == Init => IInv
<1> SUFFICES ASSUME Init PROVE IInv
  OBVIOUS
<1>1. Slots = {} /\ Used = {} /\ Unused = {}
  BY DEF Init, Slots, Used, Unused
<1>2. TypeOK
  BY <1>1 DEF Init, TypeOK, Slots
<1>3. Geometry /\ Chains
  BY <1>1 DEF Init, Geometry, Chains
<1>4. Locking /\ Heads
  BY <1>1, PoolAssumption DEF Init, Locking, Heads
<1>5. QED BY <1>2, <1>3, <1>4 DEF IInv

(* Neither pointer constant is a slot. *)
LEMMA SlotsAreNumbers ==
  ASSUME Geometry
  PROVE  Slots \subseteq Nat /\ Null \notin Slots /\ Garbage \notin Slots
BY PoolAssumption DEF Geometry

(* The mutex excludes. *)
LEMMA OneInside ==
  ASSUME Locking, NEW t \in Threads, NEW u \in Threads,
         pc[t] \in {"pop", "unlink", "push", "fault"},
         pc[u] \in {"pop", "unlink", "push", "fault"}
  PROVE  t = u
BY DEF Locking

LEMMA GeometryKept ==
  ASSUME Geometry, Slots' = Slots, UNCHANGED block
  PROVE  Geometry'
BY DEF Geometry, block, Aligned

LEMMA ChainsKept ==
  ASSUME Chains, UNCHANGED <<list, held>>
  PROVE  Chains' /\ Slots' = Slots /\ Used' = Used /\ Unused' = Unused
BY DEF Chains, list, Slots, Used, Unused

(* allocate takes the first test; operator new fails. *)
LEMMA QuietStep ==
  ASSUME IInv, NEW t \in Threads, allocate(t) \/ NewFails(t)
  PROVE  IInv'
<1>1. /\ UNCHANGED <<list, block, mutex, temp, rest, held>>
      /\ pc[t] \in {"idle", "block"}
      /\ \E q \in {"idle", "lock", "block"} : pc' = [pc EXCEPT ![t] = q]
  BY DEF allocate, NewFails, At
<1>2. PICK q \in {"idle", "lock", "block"} : pc' = [pc EXCEPT ![t] = q]
  BY <1>1
<1>3. Slots' = Slots /\ Chains' /\ Unused' = Unused
  BY <1>1, ChainsKept DEF IInv
<1>4. TypeOK'
  BY <1>1, <1>2, <1>3 DEF IInv, TypeOK, list, block
<1>5. Geometry'
  BY <1>1, <1>3, GeometryKept DEF IInv
<1>6. Locking'
  BY <1>1, <1>2 DEF IInv, TypeOK, Locking
<1>7. Heads'
  BY <1>1, <1>2, <1>3 DEF IInv, TypeOK, Heads, First, list
<1>8. QED BY <1>3, <1>4, <1>5, <1>6, <1>7 DEF IInv

LEMMA PopTestStep ==
  ASSUME IInv, NEW t \in Threads, PopTest(t)
  PROVE  IInv'
<1>1. UNCHANGED <<list, block, rest, held>> /\ mutex = Null /\ pc[t] = "lock"
  BY DEF PopTest, At
<1>2. Slots' = Slots /\ Chains' /\ Unused' = Unused
  BY <1>1, ChainsKept DEF IInv
<1>3. Geometry'
  BY <1>1, <1>2, GeometryKept DEF IInv
<1>4. \A u \in Threads : pc[u] \notin {"pop", "unlink", "push", "fault"} /\ temp[u] = Null
  BY <1>1, PoolAssumption DEF IInv, Locking
<1>5. CASE /\ freeList # Null /\ pc' = [pc EXCEPT ![t] = "pop"] /\ mutex' = t
           /\ temp' = [temp EXCEPT ![t] = freeList]
  <2>1. TypeOK'
    BY <1>1, <1>2, <1>5 DEF IInv, TypeOK, list, block
  <2>2. Locking'
    BY <1>1, <1>4, <1>5, PoolAssumption DEF IInv, TypeOK, Locking
  <2>3. Heads'
    BY <1>1, <1>2, <1>4, <1>5, PoolAssumption DEF IInv, TypeOK, Heads, First, list
  <2>4. QED BY <1>2, <1>3, <2>1, <2>2, <2>3 DEF IInv
<1>6. CASE freeList = Null /\ pc' = [pc EXCEPT ![t] = "block"] /\ UNCHANGED <<mutex, temp>>
  <2>1. TypeOK'
    BY <1>1, <1>2, <1>6 DEF IInv, TypeOK, list, block
  <2>2. Locking'
    BY <1>1, <1>4, <1>6 DEF IInv, TypeOK, Locking
  <2>3. Heads'
    BY <1>1, <1>2, <1>4, <1>6 DEF IInv, TypeOK, Heads, First, list
  <2>4. QED BY <1>2, <1>3, <2>1, <2>2, <2>3 DEF IInv
<1>7. QED BY <1>5, <1>6 DEF PopTest, At

LEMMA PopReadStep ==
  ASSUME IInv, NEW t \in Threads, PopRead(t)
  PROVE  IInv'
<1>1. UNCHANGED <<list, block, mutex, temp, held>> /\ pc[t] = "pop"
  BY DEF PopRead, At
<1>2. Slots' = Slots /\ Chains' /\ Unused' = Unused
  BY <1>1, ChainsKept DEF IInv
<1>3. Geometry'
  BY <1>1, <1>2, GeometryKept DEF IInv
<1>4. mutex = t /\ First(temp[t]) /\ freeList \in {temp[t], Null} /\ mutex # Null
  BY <1>1, PoolAssumption DEF IInv, Locking, Heads
<1>5. CASE /\ freeList # Null /\ pc' = [pc EXCEPT ![t] = "unlink"]
           /\ rest' = [rest EXCEPT ![t] = next[freeList]]
  <2>1. next[freeList] \in Slots \cup {Null} /\ freeList = temp[t]
    BY <1>4, <1>5 DEF IInv, Chains, Unused
  <2>2. TypeOK'
    BY <1>1, <1>2, <1>5, <2>1 DEF IInv, TypeOK, list, block
  <2>3. Locking'
    BY <1>1, <1>4, <1>5 DEF IInv, TypeOK, Locking
  <2>4. Heads'
    BY <1>1, <1>2, <1>4, <1>5, <2>1 DEF IInv, TypeOK, Heads, Locking, First, list
  <2>5. QED BY <1>2, <1>3, <2>2, <2>3, <2>4 DEF IInv
<1>6. CASE freeList = Null /\ pc' = [pc EXCEPT ![t] = "fault"] /\ UNCHANGED rest
  <2>1. TypeOK'
    BY <1>1, <1>2, <1>6 DEF IInv, TypeOK, list, block
  <2>2. Locking'
    BY <1>1, <1>4, <1>6 DEF IInv, TypeOK, Locking
  <2>3. Heads'
    BY <1>1, <1>2, <1>4, <1>6 DEF IInv, TypeOK, Heads, First, list
  <2>4. QED BY <1>2, <1>3, <2>1, <2>2, <2>3 DEF IInv
<1>7. QED BY <1>5, <1>6 DEF PopRead, At

LEMMA PushStoreStep ==
  ASSUME IInv, NEW t \in Threads, PushStore(t)
  PROVE  IInv'
<1>1. /\ UNCHANGED <<next, block, rest, held>>
      /\ pc[t] = "push" /\ pc' = [pc EXCEPT ![t] = "idle"]
      /\ freeList' = temp[t] /\ mutex' = Null /\ temp' = [temp EXCEPT ![t] = Null]
  BY DEF PushStore, At
<1>2. Slots' = Slots /\ Used' = Used /\ Unused' = Unused
  BY <1>1 DEF Slots, Used, Unused
<1>3. Geometry'
  BY <1>1, <1>2, GeometryKept DEF IInv
<1>4. mutex = t /\ First(temp[t]) /\ mutex # Null
  BY <1>1, PoolAssumption DEF IInv, Locking, Heads
<1>5. Chains'
  BY <1>1, <1>2, <1>4 DEF IInv, Chains, First
<1>6. TypeOK'
  BY <1>1, <1>2, <1>4 DEF IInv, TypeOK, block, First, Unused
<1>7. Locking'
  BY <1>1, <1>4, PoolAssumption DEF IInv, TypeOK, Locking
<1>8. Heads'
  <2>1. \A u \in Threads : pc'[u] \notin {"pop", "unlink", "push"}
    BY <1>1, OneInside DEF IInv, TypeOK
  <2>2. QED BY <1>1, <1>2, <1>4, <2>1 DEF Heads, First
<1>9. QED BY <1>3, <1>5, <1>6, <1>7, <1>8 DEF IInv

(* What newElement does to the slot it gets: it is in use from now on. *)
LEMMA ConstructFacts ==
  ASSUME TypeOK, NEW t \in Threads, NEW slot, Construct(t, slot)
  PROVE  /\ Slots' = Slots \cup {slot}
         /\ next' \in [Slots' -> Slots \cup {Null, Garbage}]
         /\ next'[slot] = Garbage /\ \A s \in Slots \ {slot} : next'[s] = next[s]
         /\ held' \in [Threads -> SUBSET (Slots')]
         /\ held'[t] = held[t] \cup {slot} /\ \A u \in Threads \ {t} : held'[u] = held[u]
         /\ Used' = Used \cup {slot} /\ Unused' = Unused \ {slot}
<1>1. /\ next' = [s \in Slots \cup {slot} |-> IF s = slot THEN Garbage ELSE next[s]]
      /\ held' = [held EXCEPT ![t] = @ \cup {slot}]
      /\ next \in [Slots -> Slots \cup {Null, Garbage}] /\ held \in [Threads -> SUBSET Slots]
  BY DEF Construct, TypeOK
<1>2. Slots' = Slots \cup {slot}
  BY <1>1 DEF Slots
<1>3. next' \in [Slots' -> Slots \cup {Null, Garbage}]
  BY <1>1, <1>2
<1>4. next'[slot] = Garbage /\ \A s \in Slots \ {slot} : next'[s] = next[s]
  BY <1>1
<1>5. held' \in [Threads -> SUBSET (Slots')]
  BY <1>1, <1>2
<1>6. held'[t] = held[t] \cup {slot} /\ \A u \in Threads \ {t} : held'[u] = held[u]
  BY <1>1
<1>7. Used' = Used \cup {slot}
  <2>1. ASSUME NEW s PROVE s \in Used' <=> s \in Used \cup {slot}
    <3>1. s \in Used' <=> \E u \in Threads : s \in held'[u]
      BY DEF Used
    <3>2. s \in Used <=> \E u \in Threads : s \in held[u]
      BY DEF Used
    <3>3. QED BY <3>1, <3>2, <1>6
  <2>2. QED BY <2>1
<1>8. Unused' = Unused \ {slot}
  BY <1>2, <1>7 DEF Unused
<1>9. QED BY <1>2, <1>3, <1>4, <1>5, <1>6, <1>7, <1>8

LEMMA PopStoreStep ==
  ASSUME IInv, NEW t \in Threads, PopStore(t)
  PROVE  IInv'
<1> DEFINE slot == temp[t]
<1>1. /\ pc[t] = "unlink" /\ pc' = [pc EXCEPT ![t] = "idle"]
      /\ freeList' = rest[t] /\ Construct(t, slot) /\ mutex' = Null
      /\ temp' = [temp EXCEPT ![t] = Null] /\ rest' = [rest EXCEPT ![t] = Null]
      /\ UNCHANGED block
  BY DEF PopStore, At
<1>2. /\ mutex = t /\ First(slot) /\ rest[t] = next[slot] /\ t # Null
      /\ \A u \in Threads \ {t} : pc[u] \notin {"pop", "unlink", "push", "fault"}
  BY <1>1, PoolAssumption DEF IInv, Locking, Heads
<1>3. TypeOK /\ slot \in Unused /\ slot \in Slots
  BY <1>2 DEF IInv, First, Unused
<1> HIDE DEF slot
<1>4. /\ Slots' = Slots /\ next' \in [Slots -> Slots \cup {Null, Garbage}]
      /\ next'[slot] = Garbage /\ \A s \in Slots \ {slot} : next'[s] = next[s]
      /\ held' \in [Threads -> SUBSET Slots]
      /\ held'[t] = held[t] \cup {slot} /\ \A u \in Threads \ {t} : held'[u] = held[u]
      /\ Used' = Used \cup {slot} /\ Unused' = Unused \ {slot}
  <2>1. Slots \cup {slot} = Slots
    BY <1>3
  <2>2. QED BY <1>1, <1>3, <2>1, ConstructFacts
<1>5. /\ Null \notin Slots
      /\ next[slot] \in (Unused \ {slot}) \cup {Null}
      /\ next[slot] # Null => \A r \in Unused \ {slot} : next[r] # next[slot]
  BY <1>2, <1>3, SlotsAreNumbers DEF IInv, Chains, First, Unused
<1>6. TypeOK'
  BY <1>1, <1>2, <1>3, <1>4, <1>5 DEF TypeOK, block, Unused
<1>7. Geometry'
  BY <1>1, <1>4, GeometryKept DEF IInv
<1>8. Locking'
  BY <1>1, <1>2, <1>3, PoolAssumption DEF IInv, TypeOK, Locking
<1>9. Chains'
  <2>1. \A v, u \in Threads : v # u => held'[v] \cap held'[u] = {}
    BY <1>3, <1>4 DEF IInv, Chains, Unused, Used
  <2>2. \A s \in Used' : next'[s] = Garbage
    BY <1>3, <1>4 DEF IInv, Chains, Used, TypeOK
  <2>3. \A s \in Unused' : next'[s] \in Unused' \cup {Null}
    BY <1>2, <1>3, <1>4 DEF IInv, Chains, Unused, First
  <2>4. \A r, s \in Unused' : next'[r] = next'[s] /\ next'[r] # Null => r = s
    BY <1>4 DEF IInv, Chains, Unused
  <2>5. freeList' \in Unused' \cup {Null}
    BY <1>1, <1>2, <1>4, <1>5
  <2>6. QED BY <2>1, <2>2, <2>3, <2>4, <2>5 DEF Chains
<1>10. Heads'
  <2>1. \A u \in Threads : pc'[u] \notin {"pop", "unlink", "push"}
    BY <1>1, <1>2, <1>3 DEF TypeOK
  <2>2. freeList' # Null => First(freeList)'
    <3>1. \A r \in Unused' : next'[r] = next[r]
      BY <1>4 DEF Unused
    <3>2. QED BY <1>1, <1>2, <1>4, <1>5, <3>1 DEF First
  <2>3. QED BY <2>1, <2>2 DEF Heads
<1>11. QED BY <1>6, <1>7, <1>8, <1>9, <1>10 DEF IInv

LEMMA DeallocateStep ==
  ASSUME IInv, NEW t \in Threads, NEW u \in Threads, NEW s \in held[u], deallocate(t, u, s)
  PROVE  IInv'
<1>1. /\ mutex = Null /\ pc[t] = "idle" /\ pc' = [pc EXCEPT ![t] = "push"]
      /\ mutex' = t /\ held' = [held EXCEPT ![u] = @ \ {s}]
      /\ temp' = [temp EXCEPT ![t] = s] /\ next' = [next EXCEPT ![s] = freeList]
      /\ UNCHANGED <<freeList, block, rest>>
  BY DEF deallocate, At
<1>2. TypeOK /\ s \in Slots /\ s \in Used /\ s \notin Unused /\ t # Null
  BY PoolAssumption DEF IInv, TypeOK, Used, Unused
<1>3. \A v \in Threads : pc[v] \notin {"pop", "unlink", "push", "fault"} /\ temp[v] = Null
  BY <1>1, PoolAssumption DEF IInv, Locking
<1>4. /\ Slots' = Slots
      /\ next'[s] = freeList /\ \A r \in Slots \ {s} : next'[r] = next[r]
      /\ next' \in [Slots -> Slots \cup {Null, Garbage}]
  BY <1>1, <1>2 DEF TypeOK, Slots
<1>5. /\ held' \in [Threads -> SUBSET Slots]
      /\ held'[u] = held[u] \ {s} /\ \A v \in Threads \ {u} : held'[v] = held[v]
  BY <1>1 DEF IInv, TypeOK
<1>6. Used' = Used \ {s} /\ Unused' = Unused \cup {s}
  <2>1. ASSUME NEW r PROVE r \in Used' <=> r \in Used \ {s}
    <3>1. r \in Used' <=> \E v \in Threads : r \in held'[v]
      BY DEF Used
    <3>2. r \in Used <=> \E v \in Threads : r \in held[v]
      BY DEF Used
    <3>3. \A v \in Threads : s \in held[v] => v = u
      BY DEF IInv, Chains
    <3>4. QED BY <3>1, <3>2, <3>3, <1>5
  <2>2. Used' = Used \ {s}
    BY <2>1
  <2>3. QED BY <2>2, <1>2, <1>4 DEF Unused
<1>7. freeList \in Unused \cup {Null} /\ (freeList # Null => First(freeList))
  BY <1>1 DEF IInv, Chains, Heads
<1>8. TypeOK'
  BY <1>1, <1>2, <1>4, <1>5 DEF TypeOK, block
<1>9. Geometry'
  BY <1>1, <1>4, GeometryKept DEF IInv
<1>10. Locking'
  BY <1>1, <1>2, <1>3 DEF IInv, TypeOK, Locking
<1>11. Chains'
  <2>1. \A v, w \in Threads : v # w => held'[v] \cap held'[w] = {}
    BY <1>5 DEF IInv, Chains
  <2>2. \A r \in Used' : next'[r] = Garbage
    BY <1>4, <1>6 DEF IInv, Chains, Used, TypeOK
  <2>3. \A r \in Unused' : next'[r] \in Unused' \cup {Null}
    BY <1>4, <1>6, <1>7 DEF IInv, Chains, Unused
  <2>4. \A q, r \in Unused' : next'[q] = next'[r] /\ next'[q] # Null => q = r
    BY <1>2, <1>4, <1>6, <1>7 DEF IInv, Chains, Unused, First
  <2>5. freeList' \in Unused' \cup {Null}
    BY <1>1, <1>6, <1>7
  <2>6. QED BY <2>1, <2>2, <2>3, <2>4, <2>5 DEF Chains
<1>12. Heads'
  <2>1. \A v \in Threads \ {t} : pc'[v] \notin {"pop", "unlink", "push"}
    BY <1>1, <1>2, <1>3 DEF TypeOK
  <2>2. pc'[t] = "push" /\ temp'[t] = s /\ mutex' # Null
    BY <1>1, <1>2 DEF TypeOK
  <2>3. \A r \in Unused' : next'[r] # s
    BY <1>2, <1>4, <1>6, <1>7, SlotsAreNumbers DEF IInv, Chains, Unused
  <2>4. First(s)'
    BY <2>3, <1>6 DEF First
  <2>5. QED BY <1>1, <1>4, <2>1, <2>2, <2>4 DEF Heads
<1>13. QED BY <1>8, <1>9, <1>10, <1>11, <1>12 DEF IInv

(* A slot is cut from a block: the free list, or what a thread under the other mutex
   knows of it, is not disturbed, even if it is emptied in the same step. *)
LEMMA CutFacts ==
  ASSUME IInv, NEW t \in Threads, NEW slot \in Nat, slot \notin Slots, Construct(t, slot),
         pc[t] = "block", pc' = [pc EXCEPT ![t] = "idle"], UNCHANGED <<mutex, temp, rest>>,
         freeList' \in {freeList, Null}
  PROVE  /\ Slots' = Slots \cup {slot}
         /\ Locking' /\ Chains' /\ Heads'
         /\ blocks' \subseteq Bases /\ curSlot' \in Nat /\ lastSlot' \in Nat => TypeOK'
<1>1. TypeOK /\ Unused \subseteq Slots
  BY DEF IInv, Unused
<1>2. /\ Slots' = Slots \cup {slot} /\ next' \in [Slots' -> Slots \cup {Null, Garbage}]
      /\ next'[slot] = Garbage /\ \A s \in Slots \ {slot} : next'[s] = next[s]
      /\ held' \in [Threads -> SUBSET (Slots')]
      /\ held'[t] = held[t] \cup {slot} /\ \A u \in Threads \ {t} : held'[u] = held[u]
      /\ Used' = Used \cup {slot} /\ Unused' = Unused \ {slot}
  BY <1>1, ConstructFacts
<1>3. Unused' = Unused /\ \A s \in Slots : next'[s] = next[s]
  BY <1>1, <1>2
<1>4. Locking'
  BY <1>1 DEF IInv, TypeOK, Locking
<1>5. Chains'
  <2>1. \A v, u \in Threads : v # u => held'[v] \cap held'[u] = {}
    BY <1>1, <1>2 DEF IInv, Chains, TypeOK
  <2>2. \A s \in Used' : next'[s] = Garbage
    BY <1>1, <1>2 DEF IInv, Chains, Used, TypeOK
  <2>3. \A s \in Unused' : next'[s] \in Unused' \cup {Null}
    BY <1>1, <1>3 DEF IInv, Chains
  <2>4. \A r, s \in Unused' : next'[r] = next'[s] /\ next'[r] # Null => r = s
    BY <1>1, <1>3 DEF IInv, Chains
  <2>5. freeList' \in Unused' \cup {Null}
    BY <1>3 DEF IInv, Chains
  <2>6. QED BY <2>1, <2>2, <2>3, <2>4, <2>5 DEF Chains
<1>6. Heads'
  <2>1. ASSUME NEW s PROVE First(s) => First(s)'
    BY <1>1, <1>3 DEF First
  <2>2. mutex' = Null /\ freeList' # Null => First(freeList)'
    BY <1>1, <1>3 DEF IInv, Heads, First
  <2>3. ASSUME NEW u \in Threads
        PROVE  /\ pc'[u] \in {"pop", "unlink", "push"} => First(temp[u])'
               /\ pc'[u] \in {"pop", "unlink"} => freeList' \in {temp'[u], Null}
               /\ pc'[u] = "unlink" => rest'[u] = next'[temp'[u]]
               /\ pc'[u] = "push" => freeList' \in {next'[temp'[u]], Null}
    <3>1. CASE pc'[u] \in {"pop", "unlink", "push"}
      <4>1. pc'[u] = pc[u] /\ temp'[u] = temp[u] /\ rest'[u] = rest[u]
        BY <1>1, <3>1 DEF TypeOK
      <4>2. First(temp[u]) /\ temp[u] \in Slots
        BY <1>1, <3>1, <4>1 DEF IInv, Heads, First
      <4>3. First(temp[u])' /\ next'[temp[u]] = next[temp[u]]
        BY <1>1, <1>3, <4>1, <4>2 DEF First
      <4>4. QED BY <4>1, <4>2, <4>3 DEF IInv, Heads
    <3>2. QED BY <3>1
  <2>4. QED BY <2>2, <2>3 DEF Heads
<1>7. ASSUME blocks' \subseteq Bases, curSlot' \in Nat, lastSlot' \in Nat PROVE TypeOK'
  <2>1. next' \in [Slots' -> Slots' \cup {Null, Garbage}]
    BY <1>2
  <2>2. freeList' \in Slots' \cup {Null}
    BY <1>1, <1>2 DEF TypeOK
  <2>3. temp' \in [Threads -> Slots' \cup {Null}] /\ rest' \in [Threads -> Slots' \cup {Null}]
    BY <1>1, <1>2 DEF TypeOK
  <2>4. /\ mutex' \in Threads \cup {Null}
        /\ pc' \in [Threads -> {"idle", "lock", "pop", "unlink", "block", "push", "fault"}]
    BY <1>1 DEF TypeOK
  <2>5. QED BY <1>2, <1>7, <2>1, <2>2, <2>3, <2>4 DEF TypeOK
<1>8. QED BY <1>2, <1>4, <1>5, <1>6, <1>7

LEMMA NextIsUncut ==
  ASSUME IInv, NEW t \in Threads, BumpSlot(t)
  PROVE  curSlot \notin Slots
<1>1. /\ curSlot < lastSlot /\ curSlot \in Nat /\ lastSlot \in Nat /\ blocks \subseteq Nat
      /\ Slots \subseteq Nat /\ SlotSize \in Nat \ {0} /\ BlockSize \in Nat
  BY SlotsAreNumbers, SlotSizeFacts, PoolAssumption DEF BumpSlot, IInv, TypeOK
<1>2. PICK b \in blocks :
        /\ lastSlot = LastSlot(b)
        /\ \A s \in Slots : s + SlotSize <= curSlot \/ b + BlockSize <= s
  BY <1>1 DEF IInv, Geometry
<1>3. curSlot + SlotSize <= b + BlockSize
  BY <1>1, <1>2 DEF LastSlot
<1>4. ASSUME curSlot \in Slots PROVE FALSE
  BY <1>1, <1>2, <1>3, <1>4
<1>5. QED BY <1>4

LEMMA BumpSlotStep ==
  ASSUME IInv, NEW t \in Threads, BumpSlot(t)
  PROVE  IInv'
<1>1. /\ curSlot < lastSlot /\ pc[t] = "block" /\ pc' = [pc EXCEPT ![t] = "idle"]
      /\ Construct(t, curSlot) /\ curSlot' = curSlot + SlotSize
      /\ UNCHANGED <<freeList, lastSlot, blocks, mutex, temp, rest>>
  BY DEF BumpSlot, At
<1>2. /\ Geometry /\ curSlot \in Nat /\ lastSlot \in Nat /\ blocks \subseteq Nat
      /\ blocks \subseteq Bases /\ Slots \subseteq Nat
  BY SlotsAreNumbers, PoolAssumption DEF IInv, TypeOK
<1>3. SlotSize \in Nat \ {0} /\ BlockSize \in Nat
  BY SlotSizeFacts
<1>4. PICK b \in blocks :
        /\ b + Pointer <= curSlot /\ lastSlot = LastSlot(b)
        /\ \A s \in Slots : s + SlotSize <= curSlot \/ b + BlockSize <= s
  BY <1>1, <1>2 DEF Geometry
<1>5. curSlot + SlotSize <= b + BlockSize
  BY <1>1, <1>2, <1>3, <1>4 DEF LastSlot
<1>6. curSlot \notin Slots
  BY NextIsUncut
<1>7. /\ Slots' = Slots \cup {curSlot} /\ Locking' /\ Chains' /\ Heads'
      /\ blocks' \subseteq Bases /\ curSlot' \in Nat /\ lastSlot' \in Nat => TypeOK'
  BY <1>1, <1>2, <1>6, CutFacts
<1>8. TypeOK'
  BY <1>1, <1>2, <1>3, <1>7
<1>9. Geometry'
  <2>1. Aligned(curSlot) /\ Aligned(curSlot') /\ Inside(curSlot, b)
    <3>1. Aligned(curSlot)
      BY <1>1, <1>2 DEF Geometry
    <3>2. QED BY <3>1, <1>1, <1>2, <1>4, <1>5, NextSlotAligned DEF Inside
  <2>2. ASSUME NEW s \in Slots'
        PROVE  s \in Nat /\ Aligned(s) /\ \E c \in blocks' : Inside(s, c)
    BY <1>1, <1>2, <1>7, <2>1 DEF Geometry
  <2>3. ASSUME NEW r \in Slots', NEW s \in Slots', r < s PROVE r + SlotSize <= s
    BY <1>2, <1>3, <1>4, <1>5, <1>7, <2>3 DEF Geometry
  <2>4. \A s \in Slots' : s + SlotSize <= curSlot' \/ b + BlockSize <= s
    BY <1>1, <1>2, <1>3, <1>4, <1>7
  <2>5. b + Pointer <= curSlot'
    BY <1>1, <1>2, <1>3, <1>4 DEF Pointer
  <2>6. QED BY <1>1, <1>4, <2>1, <2>2, <2>3, <2>4, <2>5 DEF Geometry, Aligned
<1>10. QED BY <1>7, <1>8, <1>9 DEF IInv

LEMMA NewBlockStep ==
  ASSUME IInv, NEW t \in Threads, allocateNewBlock(t)
  PROVE  IInv' /\ blocks' # blocks
<1>1. /\ pc[t] = "block" /\ pc' = [pc EXCEPT ![t] = "idle"]
      /\ freeList' = Null /\ UNCHANGED <<mutex, temp, rest>>
  BY DEF allocateNewBlock, At
<1>2. PICK b \in Bases \ blocks :
        /\ blocks' = blocks \cup {b} /\ Construct(t, FirstSlot(b))
        /\ curSlot' = FirstSlot(b) + SlotSize /\ lastSlot' = LastSlot(b)
  BY DEF allocateNewBlock
<1> DEFINE slot == FirstSlot(b)
<1>3. /\ b \in Nat /\ slot \in Nat /\ LastSlot(b) \in Nat /\ b + Pointer <= slot
      /\ slot + SlotSize <= b + BlockSize /\ Aligned(slot)
  BY FirstSlotFacts
<1> HIDE DEF slot
<1>4. /\ blocks \subseteq Nat /\ blocks \subseteq Bases /\ Slots \subseteq Nat /\ Geometry
      /\ SlotSize \in Nat \ {0} /\ BlockSize \in Nat
  BY SlotsAreNumbers, SlotSizeFacts, PoolAssumption DEF IInv, TypeOK
<1>5. \A s \in Slots : s + SlotSize <= b \/ b + BlockSize <= s
  <2>1. SUFFICES ASSUME NEW s \in Slots PROVE s + SlotSize <= b \/ b + BlockSize <= s
    OBVIOUS
  <2>2. PICK c \in blocks : c + 8 <= s /\ s + SlotSize <= c + BlockSize
    BY <1>4 DEF Geometry, Inside, Pointer
  <2>3. c + BlockSize <= b \/ b + BlockSize <= c
    <3>1. c # b /\ c \in Bases /\ b \in Bases /\ c \in Nat /\ b \in Nat
      BY <1>2, <1>3, <1>4
    <3>2. b < c \/ c < b
      BY <3>1
    <3>3. QED BY <3>1, <3>2, PoolAssumption
  <2>4. s \in Nat /\ c \in Nat
    BY <1>4
  <2>5. QED BY <1>3, <1>4, <2>2, <2>3, <2>4
<1>6. slot \notin Slots
  <2>1. ASSUME slot \in Slots PROVE FALSE
    BY <1>3, <1>4, <1>5, <2>1 DEF Pointer
  <2>2. QED BY <2>1
<1>7. /\ Slots' = Slots \cup {slot} /\ Locking' /\ Chains' /\ Heads'
      /\ blocks' \subseteq Bases /\ curSlot' \in Nat /\ lastSlot' \in Nat => TypeOK'
  <2>1. Construct(t, slot) /\ freeList' \in {freeList, Null}
    BY <1>1, <1>2 DEF slot
  <2>2. QED BY <1>1, <1>3, <1>6, <2>1, CutFacts
<1>8. blocks' \subseteq Bases /\ curSlot' = slot + SlotSize /\ lastSlot' = LastSlot(b)
  BY <1>2, <1>4 DEF slot
<1>9. TypeOK'
  BY <1>3, <1>4, <1>7, <1>8
<1>10. Geometry'
  <2>1. Aligned(curSlot')
    BY <1>3, <1>8, NextSlotAligned
  <2>2. ASSUME NEW s \in Slots'
        PROVE  s \in Nat /\ Aligned(s) /\ \E c \in blocks' : Inside(s, c)
    BY <1>2, <1>3, <1>4, <1>7 DEF Geometry, Inside
  <2>3. ASSUME NEW r \in Slots', NEW s \in Slots', r < s PROVE r + SlotSize <= s
    BY <1>3, <1>4, <1>5, <1>7, <2>3 DEF Geometry, Pointer
  <2>4. \A s \in Slots' : s + SlotSize <= curSlot' \/ b + BlockSize <= s
    BY <1>3, <1>4, <1>5, <1>7, <1>8 DEF Pointer
  <2>5. b + Pointer <= curSlot' /\ b \in blocks'
    BY <1>2, <1>3, <1>4, <1>8 DEF Pointer
  <2>6. QED BY <1>8, <2>1, <2>2, <2>3, <2>4, <2>5 DEF Geometry, Aligned
<1>11. IInv'
  BY <1>7, <1>9, <1>10 DEF IInv
<1>12. QED BY <1>2, <1>11

LEMMA StepIInv == ASSUME IInv, [Next]_vars PROVE IInv'
<1>1. CASE UNCHANGED vars
  <2>1. /\ UNCHANGED <<list, held>> /\ UNCHANGED block
        /\ UNCHANGED <<freeList, next, curSlot, lastSlot, blocks, mutex, pc, temp, rest, held>>
    BY <1>1 DEF vars, list, block
  <2>2. Chains' /\ Slots' = Slots /\ Unused' = Unused
    BY <2>1, ChainsKept DEF IInv
  <2>3. Geometry'
    BY <2>1, <2>2, GeometryKept DEF IInv
  <2>4. TypeOK' /\ Locking' /\ Heads'
    BY <2>1, <2>2 DEF IInv, TypeOK, Locking, Heads, First
  <2>5. QED BY <2>2, <2>3, <2>4 DEF IInv
<1>2. CASE Next
  <2>1. PICK t \in Threads : Step(t)
    BY <1>2 DEF Next
  <2>2. CASE allocate(t) \/ NewFails(t)
    BY <2>2, QuietStep
  <2>3. CASE PopTest(t)
    BY <2>3, PopTestStep
  <2>4. CASE PopRead(t)
    BY <2>4, PopReadStep
  <2>5. CASE PopStore(t)
    BY <2>5, PopStoreStep
  <2>6. CASE BumpSlot(t)
    BY <2>6, BumpSlotStep
  <2>7. CASE allocateNewBlock(t)
    BY <2>7, NewBlockStep
  <2>8. CASE \E u \in Threads : \E s \in held[u] : deallocate(t, u, s)
    BY <2>8, DeallocateStep
  <2>9. CASE PushStore(t)
    BY <2>9, PushStoreStep
  <2>10. QED BY <2>1, <2>2, <2>3, <2>4, <2>5, <2>6, <2>7, <2>8, <2>9 DEF Step
<1>3. QED BY <1>1, <1>2

LEMMA Inductive == Spec => []IInv
<1>1. IInv /\ [Next]_vars => IInv'
  BY StepIInv
<1>2. QED BY <1>1, InitIInv, PTL DEF Spec

-----------------------------------------------------------------------------
(* The slots links lead to *)

(* Linked has its roots and is closed, and lies in every set that is so. *)
LEMMA LinkedFacts ==
  ASSUME NEW roots, NEW link
  PROVE  /\ Linked(roots, link) \subseteq DOMAIN link
         /\ roots \cap DOMAIN link \subseteq Linked(roots, link)
         /\ Closed(Linked(roots, link), link)
         /\ \A C \in SUBSET DOMAIN link :
              roots \cap DOMAIN link \subseteq C /\ Closed(C, link) =>
                Linked(roots, link) \subseteq C
BY DEF Linked, Closed

(* No slot is in use twice, or in use and free, and no two share a byte. *)
THEOREM NoSlotTwice == Spec => []Exclusive
<1>1. IInv => Exclusive
  <2> SUFFICES ASSUME IInv PROVE Exclusive
    OBVIOUS
  <2>1. /\ Size \in Nat /\ Size <= SlotSize /\ SlotSize \in Nat /\ BlockSize \in Nat
        /\ Slots \subseteq Nat /\ blocks \subseteq Nat
    BY SlotSizeFacts, SlotsAreNumbers, PoolAssumption DEF IInv, TypeOK
  <2>2. SlotsApart
    <3>1. ASSUME NEW s \in Slots
          PROVE  /\ s % Pointer = 0 /\ (WordSize % SlotSize = 0 => s % SlotSize = 0)
                 /\ \E b \in blocks : b + Pointer <= s /\ s + Size <= b + BlockSize
      <4>1. Aligned(s) /\ \E b \in blocks : Inside(s, b)
        BY DEF IInv, Geometry
      <4>2. PICK b \in blocks : b + Pointer <= s /\ s + SlotSize <= b + BlockSize
        BY <4>1 DEF Inside
      <4>3. s \in Nat /\ b \in Nat
        BY <2>1
      <4>4. s + Size <= b + BlockSize
        BY <2>1, <4>2, <4>3
      <4>5. QED BY <4>1, <4>2, <4>4 DEF Aligned
    <3>2. ASSUME NEW r \in Slots, NEW s \in Slots, r < s PROVE r + Size <= s
      <4>1. r + SlotSize <= s /\ r \in Nat /\ s \in Nat
        BY <2>1, <3>2 DEF IInv, Geometry
      <4>2. QED BY <2>1, <4>1
    <3>3. QED BY <3>1, <3>2 DEF SlotsApart
  <2>3. \A t \in Threads : held[t] \cap FreeSlots = {}
    <3>1. Unused \in SUBSET DOMAIN next /\ {freeList} \cap DOMAIN next \subseteq Unused
      BY SlotsAreNumbers DEF IInv, Chains, Unused, Slots
    <3>2. Closed(Unused, next)
      BY SlotsAreNumbers DEF IInv, Chains, Closed, Slots
    <3>3. FreeSlots \subseteq Unused
      BY <3>1, <3>2, LinkedFacts DEF FreeSlots
    <3>4. QED BY <3>3 DEF Unused, Used
  <2>4. QED BY <2>2, <2>3 DEF IInv, Chains, Exclusive
<1>2. QED BY <1>1, Inductive, PTL

-----------------------------------------------------------------------------
(* Slots that are lost *)

LEMMA ReachableIs ==
  /\ Reachable = Used \cup Linked(Pointers, next)
  /\ Reachable' = Used' \cup Linked(Pointers', next')
<1>1. Reachable = Used \cup Linked(Pointers, next)
  BY Zenon DEF Reachable, Used
<1>2. Reachable' = Used' \cup Linked(Pointers', next')
  BY Zenon DEF Reachable, Used, Linked, Closed
<1>3. QED BY <1>1, <1>2

(* A step loses no slot if the new pointers and owners still reach the old pointers,
   the slots in use, and the links of what they reach. *)
LEMMA StillReached ==
  ASSUME TypeOK, Slots \subseteq Slots',
         Used \subseteq Reachable',
         Pointers \cap Slots \subseteq Reachable',
         \A s \in Reachable' \cap Slots : next[s] \in Slots => next[s] \in Reachable'
  PROVE  Reachable \subseteq Reachable'
<1> DEFINE C == Reachable' \cap Slots
<1>1. C \in SUBSET DOMAIN next /\ Pointers \cap DOMAIN next \subseteq C /\ Closed(C, next)
  BY DEF Closed, Slots
<1>2. Linked(Pointers, next) \subseteq C
  BY <1>1, LinkedFacts
<1>3. QED BY <1>2, ReachableIs

(* Reachable' has what the new pointers, and links from what they lead to, point at. *)
LEMMA ReachedNow ==
  /\ Used' \subseteq Reachable' /\ Pointers' \cap Slots' \subseteq Reachable'
  /\ \A s \in Reachable' \ Used' : s \in Slots' /\ (next'[s] \in Slots' => next'[s] \in Reachable')
<1> DEFINE L == Linked(Pointers', next')
<1>1. /\ L \subseteq DOMAIN next' /\ Pointers' \cap DOMAIN next' \subseteq L
      /\ Closed(L, next')
  BY LinkedFacts, Zenon
<1>2. Slots' = DOMAIN next' /\ Reachable' = Used' \cup L
  BY ReachableIs, Zenon DEF Slots
<1> HIDE DEF L
<1>3. QED BY <1>1, <1>2 DEF Closed

(* A slot is lost only in a step that opens a block. *)
THEOREM LostOnlyWithNewBlock == Spec => LosesOnlyWithNewBlock
<1>1. IInv /\ [Next]_vars => [Reachable \subseteq Reachable' \/ blocks' # blocks]_vars
  <2> SUFFICES ASSUME IInv, Next, blocks' = blocks PROVE Reachable \subseteq Reachable'
    BY Zenon
  <2>1. PICK t \in Threads : Step(t)
    BY DEF Next
  <2>2. TypeOK /\ Null \notin Slots /\ Garbage \notin Slots
    BY SlotsAreNumbers DEF IInv
  <2>3. \A s \in Used : s \in Slots /\ next[s] = Garbage
    BY <2>2 DEF IInv, Chains, Used, TypeOK
  <2>4. ASSUME UNCHANGED <<next, held>>, Pointers \cap Slots \subseteq Reachable'
        PROVE  Reachable \subseteq Reachable'
    <3>1. Slots' = Slots /\ Used' = Used
      BY <2>4 DEF Slots, Used
    <3>2. \A s \in Reachable' : next[s] \in Slots => next[s] \in Reachable'
      BY <2>2, <2>3, <2>4, <3>1, ReachedNow
    <3>3. QED BY <2>2, <2>4, <3>1, <3>2, ReachedNow, StillReached
  <2>5. CASE allocate(t) \/ NewFails(t)
    <3>1. UNCHANGED <<list, temp, rest, held>>
      BY <2>5 DEF allocate, NewFails
    <3>2. UNCHANGED <<next, held>> /\ Pointers' = Pointers /\ Slots' = Slots
      BY <3>1 DEF list, Pointers, Slots
    <3>3. QED BY <2>4, <3>2, ReachedNow
  <2>6. CASE PopTest(t)
    <3>1. /\ UNCHANGED <<list, rest, held>> /\ temp[t] = Null
          /\ \A u \in Threads \ {t} : temp'[u] = temp[u]
      BY <2>2, <2>6, PoolAssumption DEF PopTest, At, IInv, Locking, TypeOK
    <3>2. UNCHANGED <<next, held>> /\ Slots' = Slots
      BY <3>1 DEF list, Slots
    <3>3. Pointers \cap Slots \subseteq Pointers'
      BY <2>2, <3>1 DEF list, Pointers
    <3>4. QED BY <2>4, <3>2, <3>3, ReachedNow
  <2>7. CASE PopRead(t)
    <3>1. /\ UNCHANGED <<list, temp, held>> /\ rest[t] = Null
          /\ \A u \in Threads \ {t} : rest'[u] = rest[u]
      BY <2>2, <2>7 DEF PopRead, At, IInv, Locking, TypeOK
    <3>2. UNCHANGED <<next, held>> /\ Slots' = Slots
      BY <3>1 DEF list, Slots
    <3>3. Pointers \cap Slots \subseteq Pointers'
      BY <2>2, <3>1 DEF list, Pointers
    <3>4. QED BY <2>4, <3>2, <3>3, ReachedNow
  <2>8. CASE PushStore(t)
    <3>1. /\ UNCHANGED <<next, rest, held>> /\ freeList' = temp[t] /\ pc[t] = "push"
          /\ \A u \in Threads \ {t} : temp'[u] = temp[u]
      BY <2>2, <2>8 DEF PushStore, At, TypeOK
    <3>2. Slots' = Slots /\ Used' = Used
      BY <3>1 DEF Slots, Used
    <3>3. freeList \in {next[temp[t]], Null} /\ temp[t] \in Slots /\ temp[t] \notin Used
      BY <3>1 DEF IInv, Heads, First, Unused
    <3>4. temp[t] \in Reachable'
      BY <3>1, <3>2, <3>3, ReachedNow DEF Pointers
    <3>5. freeList \in Slots => freeList \in Reachable'
      BY <2>2, <3>1, <3>2, <3>3, <3>4, ReachedNow
    <3>6. \A p \in Pointers : p = freeList \/ p = temp[t] \/ p \in Pointers'
      BY <3>1 DEF Pointers
    <3>7. Pointers \cap Slots \subseteq Reachable'
      BY <3>2, <3>4, <3>5, <3>6, ReachedNow
    <3>8. QED BY <2>4, <3>1, <3>7
  <2>9. CASE PopStore(t)
    <3>1. /\ pc[t] = "unlink" /\ freeList' = rest[t] /\ Construct(t, temp[t])
          /\ temp' = [temp EXCEPT ![t] = Null] /\ rest' = [rest EXCEPT ![t] = Null]
      BY <2>9 DEF PopStore, At
    <3>2. /\ temp[t] \in Unused /\ temp[t] \in Slots /\ rest[t] = next[temp[t]]
          /\ freeList \in {temp[t], Null}
      BY <3>1 DEF IInv, Heads, First, Unused
    <3>3. /\ Slots' = Slots \cup {temp[t]} /\ Used' = Used \cup {temp[t]}
          /\ \A s \in Slots \ {temp[t]} : next'[s] = next[s]
      BY <2>2, <3>1, ConstructFacts
    <3>4. Slots' = Slots
      BY <3>2, <3>3
    <3>5. \A p \in Pointers : p \in {Null, temp[t]} \/ p \in Pointers'
      BY <2>2, <3>1, <3>2 DEF Pointers, TypeOK
    <3>6. Pointers \cap Slots \subseteq Reachable' /\ Used \subseteq Reachable'
      BY <2>2, <3>3, <3>4, <3>5, ReachedNow
    <3>7. next[temp[t]] \in Slots => next[temp[t]] \in Reachable'
      BY <3>1, <3>2, <3>4, ReachedNow DEF Pointers
    <3>8. \A s \in Reachable' \cap Slots : next[s] \in Slots => next[s] \in Reachable'
      BY <2>2, <2>3, <3>3, <3>4, <3>7, ReachedNow
    <3>9. QED BY <2>2, <3>4, <3>6, <3>8, StillReached
  <2>10. CASE BumpSlot(t)
    <3>1. Construct(t, curSlot) /\ UNCHANGED <<freeList, temp, rest>>
      BY <2>10 DEF BumpSlot
    <3>2. /\ Slots' = Slots \cup {curSlot} /\ Used' = Used \cup {curSlot}
          /\ \A s \in Slots \ {curSlot} : next'[s] = next[s]
      BY <2>2, <3>1, ConstructFacts
    <3>3. Pointers' = Pointers
      BY <3>1 DEF Pointers
    <3>4. Pointers \cap Slots \subseteq Reachable' /\ Used \subseteq Reachable'
      BY <3>2, <3>3, ReachedNow
    <3>5. curSlot \notin Slots
      BY <2>10, NextIsUncut
    <3>6. \A s \in Reachable' \cap Slots : next[s] \in Slots => next[s] \in Reachable'
      BY <2>2, <2>3, <3>2, <3>5, ReachedNow
    <3>7. QED BY <2>2, <3>2, <3>4, <3>6, StillReached
  <2>11. CASE allocateNewBlock(t)
    BY <2>11, NewBlockStep
  <2>12. CASE \E u \in Threads : \E s \in held[u] : deallocate(t, u, s)
    <3>0. PICK u \in Threads : \E s \in held[u] : deallocate(t, u, s)
      BY <2>12
    <3>1. PICK s \in held[u] : deallocate(t, u, s)
      BY <3>0
    <3>2. /\ mutex = Null /\ temp' = [temp EXCEPT ![t] = s]
          /\ held' = [held EXCEPT ![u] = @ \ {s}] /\ next' = [next EXCEPT ![s] = freeList]
          /\ UNCHANGED <<freeList, rest>>
      BY <3>1 DEF deallocate
    <3>3. s \in Slots /\ next[s] = Garbage /\ temp[t] = Null
      BY <2>2, <2>3, <3>2, PoolAssumption DEF Used, IInv, Locking
    <3>4. Slots' = Slots /\ \A r \in Slots \ {s} : next'[r] = next[r]
      BY <2>2, <3>2 DEF TypeOK, Slots
    <3>5. \A r \in Used : r = s \/ r \in Used'
      <4>1. \A v \in Threads : \A r \in held[v] : r = s \/ r \in held'[v]
        BY <2>2, <3>2 DEF TypeOK
      <4>2. QED BY <4>1 DEF Used
    <3>6. s \in Pointers' /\ Pointers \cap Slots \subseteq Pointers'
      BY <2>2, <3>2, <3>3 DEF Pointers, TypeOK
    <3>7. Pointers \cap Slots \subseteq Reachable' /\ Used \subseteq Reachable'
      BY <3>3, <3>4, <3>5, <3>6, ReachedNow
    <3>8. Used' \subseteq Used
      <4>1. \A v \in Threads : held'[v] \subseteq held[v]
        BY <2>2, <3>2 DEF TypeOK
      <4>2. QED BY <4>1 DEF Used
    <3>9. \A r \in Reachable' \cap Slots : next[r] \in Slots => next[r] \in Reachable'
      BY <2>2, <2>3, <3>3, <3>4, <3>8, ReachedNow
    <3>10. QED BY <2>2, <3>4, <3>7, <3>9, StillReached
  <2>13. QED BY <2>1, <2>5, <2>6, <2>7, <2>8, <2>9, <2>10, <2>11, <2>12 DEF Step
<1>2. QED BY <1>1, Inductive, PTL DEF Spec, LosesOnlyWithNewBlock
=============================================================================
