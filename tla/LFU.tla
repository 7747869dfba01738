-------------------------------- MODULE LFU --------------------------------
(***************************************************************************)
(* LfuCache: a map from keys to nodes, a list of nodes for every access      *)
(* count, the smallest count in use, and aging, which lowers all counts when *)
(* their average passes a maximum.  put and get run under one mutex, so each *)
(* is a step; the helpers they call are functions of the cache's state.      *)
(* Where a helper walks an unordered_map, or uses an uninitialised key, it   *)
(* yields the set of the possible results.                                   *)
(***************************************************************************)
EXTENDS Integers, Sequences, FiniteSets, SequencesExt

CONSTANTS Keys, Values,
          MaxAverageNum,    \* maxAverageNum_
          Int8Max,          \* INT8_MAX
          MaxTotal          \* bound on curTotalNum_

Node == [value : Values, freq : 1..MaxTotal]

(* corrupt is history: kickOut has met an empty list. *)
IsCache(c) ==
  /\ c \in [capacity : Nat,
            nodeMap : [DOMAIN c.nodeMap -> Node],
            lists : [DOMAIN c.lists -> Seq(Keys)],        \* freqToFreqList_
            minFreq : 1..(Int8Max + MaxTotal),
            curTotalNum : 0..MaxTotal, curAverageNum : 0..MaxTotal,
            corrupt : BOOLEAN]
  /\ DOMAIN c.nodeMap \subseteq Keys /\ DOMAIN c.lists \subseteq 1..MaxTotal

EmptyCache(capacity) ==
  [capacity |-> capacity, nodeMap |-> <<>>, lists |-> <<>>, minFreq |-> Int8Max,
   curTotalNum |-> 0, curAverageNum |-> 0, corrupt |-> FALSE]

Cached(c) == DOMAIN c.nodeMap
freq(c, k) == c.nodeMap[k].freq
Least(a, b) == IF a < b THEN a ELSE b

-----------------------------------------------------------------------------
(* The lists: FreqList::addNode at the tail, removeNode anywhere *)

removeNode(list, k) == RemoveAt(list, CHOOSE i \in DOMAIN list : list[i] = k)

removeFromFreqList(c, k) == [c EXCEPT !.lists[freq(c, k)] = removeNode(@, k)]

addToFreqList(c, k) ==
  LET f == freq(c, k)
      old == IF f \in DOMAIN c.lists THEN c.lists[f] ELSE <<>>
  IN  [c EXCEPT !.lists = [g \in DOMAIN c.lists \cup {f} |->
                             IF g = f THEN Append(old, k) ELSE c.lists[g]]]

SetFreq(c, k, f) == [c EXCEPT !.nodeMap[k].freq = f]

MoveNoRemove(c, k, f) == addToFreqList(SetFreq(c, k, f), k)       \* mutant
Move(c, k, f) == addToFreqList(SetFreq(removeFromFreqList(c, k), k, f), k)

InUse(c) == {f \in DOMAIN c.lists : c.lists[f] # <<>>}

updateMinFreq(c) ==
  LET least == {f \in InUse(c) \cup {Int8Max} :
                  \A g \in InUse(c) \cup {Int8Max} : f <= g}
      min == CHOOSE f \in least : TRUE
  IN  [c EXCEPT !.minFreq = IF min = Int8Max THEN 1 ELSE min]

(* Aging, in whatever order the map is walked. *)
Aged(c, k) ==
  LET f == freq(c, k) - MaxAverageNum \div 2
  IN  Move(c, k, IF f < 1 THEN 1 ELSE f)

AgedInOrder(c, order) ==
  LET aged[n \in 0..Len(order)] ==
        IF n = 0 THEN c ELSE Aged(aged[n - 1], order[n])
  IN  aged[Len(order)]

handleOverMaxAverageNum(c) ==
  {updateMinFreq(AgedInOrder(c, order)) : order \in SetToSeqs(Cached(c))}

Average(c, total) ==
  IF Cached(c) = {} THEN 0 ELSE total \div Cardinality(Cached(c))

addFreqNum(c) ==
  LET d == [c EXCEPT !.curTotalNum = @ + 1,
                     !.curAverageNum = Average(c, c.curTotalNum + 1)]
  IN  IF d.curAverageNum > MaxAverageNum THEN handleOverMaxAverageNum(d) ELSE {d}

decreaseFreqNum(c, num) ==
  [c EXCEPT !.curTotalNum = @ - num,
            !.curAverageNum = Average(c, c.curTotalNum - num)]

-----------------------------------------------------------------------------
(* Access, eviction and insertion *)

getInternalKeepsMin(c, k) ==                                      \* mutant
  addFreqNum(Move(c, k, freq(c, k) + 1))
getInternal(c, k) ==
  LET f == freq(c, k)
      d == Move(c, k, f + 1)
  IN  addFreqNum(IF f = c.minFreq /\ d.lists[f] = <<>>
                 THEN [d EXCEPT !.minFreq = @ + 1] ELSE d)

Erase(c, k) == [c EXCEPT !.nodeMap = [l \in Cached(c) \ {k} |-> c.nodeMap[l]]]

kickOutLast(c) ==                                                 \* mutant
  LET k == c.lists[c.minFreq][Len(c.lists[c.minFreq])]
  IN  {decreaseFreqNum(Erase(removeFromFreqList(c, k), k), freq(c, k))}

(* From an empty list getFirstNode returns the tail sentinel: it stays, and its
   key, never initialised, is erased from the map, whatever it is. *)
kickOut(c) ==
  LET list == c.lists[c.minFreq]
      k == Head(list)
  IN  IF list # <<>>
      THEN {decreaseFreqNum(Erase(removeFromFreqList(c, k), k), freq(c, k))}
      ELSE {decreaseFreqNum(d, 1) :
              d \in {[Erase(c, l) EXCEPT !.corrupt = TRUE] : l \in Keys}
                      \cup {[c EXCEPT !.corrupt = TRUE]}}

Insert(c, k, v) ==
  LET d == [c EXCEPT !.nodeMap = [l \in Cached(c) \cup {k} |->
                        IF l = k THEN [value |-> v, freq |-> 1] ELSE c.nodeMap[l]]]
  IN  {[e EXCEPT !.minFreq = Least(@, 1)] : e \in addFreqNum(addToFreqList(d, k))}

IsFullLate(c) == Cardinality(Cached(c)) > c.capacity              \* mutant
IsFull(c) == Cardinality(Cached(c)) = c.capacity

putInternal(c, k, v) ==
  UNION {Insert(d, k, v) : d \in IF IsFull(c) THEN kickOut(c) ELSE {c}}

-----------------------------------------------------------------------------
(* What a corrupt cache does next is not followed. *)
CanCount(c) == c.curTotalNum < MaxTotal /\ ~c.corrupt

put(c, k, v) ==
  IF k \in Cached(c) THEN getInternal([c EXCEPT !.nodeMap[k].value = v], k)
  ELSE putInternal(c, k, v)

(* A miss changes nothing. *)
get(c, k) == IF k \in Cached(c) THEN getInternal(c, k) ELSE {c}

(* purge() takes no mutex and is two steps, in this order. *)
clearNodeMap(c) == [c EXCEPT !.nodeMap = <<>>]
clearFreqToFreqList(c) == [c EXCEPT !.lists = <<>>]

-----------------------------------------------------------------------------
(* updateMinFreq uses INT8_MAX also as the mark for "no list": when aging leaves
   every count there or above, it sets minFreq_ to 1. *)
Saturated(c) == \A k \in Cached(c) : freq(c, k) >= Int8Max

(* Every access a count stands for; there are as many as the sum of the counts. *)
Accesses(c) == {a \in Cached(c) \X (1..MaxTotal) : a[2] <= freq(c, a[1])}

(* The cache never holds more than capacity_ keys: the size is only tested for
   equality, so one miss would be final.  And curTotalNum_ is at least the sum of
   the counts, so that subtracting an evicted node's count never makes it negative,
   though it is divided as unsigned. *)
Bounded(c) ==
  ~c.corrupt => /\ Cardinality(Cached(c)) <= c.capacity
                /\ Cardinality(Accesses(c)) <= c.curTotalNum

(* The lists hold every cached key once, in the list of its count: moving nodes
   between lists during aging loses and repeats none. *)
Listed(c, k) ==
  /\ freq(c, k) \in DOMAIN c.lists
  /\ \E i \in DOMAIN c.lists[freq(c, k)] : c.lists[freq(c, k)][i] = k
ListsMatch(c) ==
  ~c.corrupt =>
    /\ \A f \in DOMAIN c.lists :
         /\ \A i \in DOMAIN c.lists[f] :
              c.lists[f][i] \in Cached(c) /\ freq(c, c.lists[f][i]) = f
         /\ IsInjective(c.lists[f])
    /\ \A k \in Cached(c) : Listed(c, k)

(* minFreq_ is the smallest count in use, which kickOut relies on; it is wrong in
   one case only, when aging has left every count at INT8_MAX or above. *)
MinExact(c) ==
  Cached(c) # {} /\ ~c.corrupt =>
    \/ /\ \A k \in Cached(c) : c.minFreq <= freq(c, k)
       /\ \E k \in Cached(c) : c.minFreq = freq(c, k)
    \/ c.minFreq = 1 /\ Saturated(c)

(* A step from c to d that is not of purge() evicts at most one key, only from a full
   cache, and one that was used least often; among these the one that reached its
   count first.  Only a cache whose counts are all at INT8_MAX or above is corrupted:
   it evicts from an empty list, erases an arbitrary key or none, and never knows
   again that it is full. *)
Evicted(c, d) == Cached(c) \ Cached(d)
EvictsLeast(c, d) ==
  /\ d.corrupt => c.corrupt \/ Saturated(c)
  /\ Cached(d) # {} /\ ~d.corrupt =>
       \A k \in Evicted(c, d) :
         /\ Evicted(c, d) = {k}
         /\ Cardinality(Cached(c)) = c.capacity
         /\ \A l \in Cached(c) : freq(c, k) <= freq(c, l)
         /\ Head(c.lists[freq(c, k)]) = k
=============================================================================
