---------------------------- MODULE HashLfuCache ----------------------------
(***************************************************************************)
(* HashLfuCache: keys are dealt by their hash to slices, each an LfuCache    *)
(* with a mutex of its own.  put and get work on one slice and are a step;   *)
(* purge goes through the slices one by one, clearing the map and then the   *)
(* lists of each without its mutex, while other threads use them.            *)
(***************************************************************************)
EXTENDS LFU

CONSTANTS TotalCapacity,    \* capacity_
          SliceNum,         \* sliceNum_
          Hash              \* std::hash

ASSUME SliceAssumption ==
  /\ TotalCapacity \in Nat /\ SliceNum \in Nat \ {0} /\ Hash \in [Keys -> Nat]
  /\ MaxAverageNum \in Nat /\ Int8Max \in Nat \ {0} /\ MaxTotal \in Nat

Slices == 0..(SliceNum - 1)

(* std::ceil of the quotient *)
SliceSize == (TotalCapacity + SliceNum - 1) \div SliceNum

VARIABLES slices,           \* lfuSliceCaches_
          purging,          \* slices a purge() in progress has still to clear
          half,             \* those of them whose map is cleared and whose lists are not
          torn              \* history: slices filled between the two clears

vars == <<slices, purging, half, torn>>

Init ==
  /\ slices = [i \in Slices |-> EmptyCache(SliceSize)]
  /\ purging = {} /\ half = {} /\ torn = {}

sliceIndex(k) == Hash[k] % SliceNum

(* What a torn slice does next is not followed: it holds keys that are in no list, and
   getInternal looks their list up and does not find it. *)
Put(k, v) ==
  LET i == sliceIndex(k)
  IN  /\ SliceSize # 0 /\ i \notin torn /\ CanCount(slices[i])
      /\ \E c \in put(slices[i], k, v) : slices' = [slices EXCEPT ![i] = c]
      /\ torn' = torn \cup (half \cap {i})
      /\ UNCHANGED <<purging, half>>

(* Between the clears every get is a miss. *)
Get(k) ==
  LET i == sliceIndex(k)
  IN  /\ i \notin torn /\ CanCount(slices[i])
      /\ \E c \in get(slices[i], k) : slices' = [slices EXCEPT ![i] = c]
      /\ UNCHANGED <<purging, half, torn>>

BeginPurge == purging = {} /\ purging' = Slices /\ UNCHANGED <<slices, half, torn>>

(* The slices are cleared in their order. *)
PurgeMap(i) ==
  /\ i \in purging \ half /\ \A j \in purging : i <= j
  /\ slices' = [slices EXCEPT ![i] = clearNodeMap(@)]
  /\ half' = half \cup {i}
  /\ UNCHANGED <<purging, torn>>

PurgeLists(i) ==
  /\ i \in half
  /\ slices' = [slices EXCEPT ![i] = clearFreqToFreqList(@)]
  /\ half' = half \ {i} /\ purging' = purging \ {i}
  /\ UNCHANGED torn

Next ==
  \/ \E k \in Keys, v \in Values : Put(k, v)
  \/ \E k \in Keys : Get(k)
  \/ BeginPurge
  \/ \E i \in Slices : PurgeMap(i) \/ PurgeLists(i)

Spec == Init /\ [][Next]_vars

-----------------------------------------------------------------------------
TypeOK ==
  /\ half \subseteq purging /\ purging \subseteq Slices /\ torn \subseteq Slices
  /\ slices = [i \in Slices |-> slices[i]]
  /\ \A i \in Slices \ torn : IsCache(slices[i]) /\ slices[i].capacity = SliceSize

(* The properties are about the slices that no put() has torn: nothing orders purge()
   with the calls that take the mutex, and after a put() between its two clears a key
   is in the map and in no list. *)

(* No slice holds more keys than its share, and its curTotalNum_ covers the counts,
   so that it never becomes negative. *)
WithinBounds == \A i \in Slices \ torn : Bounded(slices[i])

(* The frequency lists of a slice hold every cached key once, in the list of its
   count, through hits, evictions and aging, and again when both are cleared. *)
ListsMatchMap == TypeOK /\ \A i \in Slices \ (torn \cup half) : ListsMatch(slices[i])

(* minFreq_ of a slice is the smallest count in use, which kickOut relies on, unless
   aging left every count at INT8_MAX or above. *)
MinFreqExact == \A i \in Slices \ torn : MinExact(slices[i])

(* Only a full slice evicts, and only its least frequent key, until one whose counts
   are all at INT8_MAX or above evicts from an empty list. *)
EvictsLeastFrequent == 
  [][\A i \in Slices \ torn' : EvictsLeast(slices[i], slices'[i])]_vars
=============================================================================
