------------------------- MODULE HashLfuCacheProofs -------------------------
(* Proofs about LFU and HashLfuCache for any keys, hash, capacity and number of
   slices. *)
EXTENDS HashLfuCache, FiniteSetTheorems, SequenceTheorems, NaturalsInduction,
        WellFoundedInduction, TLAPS

(* What an operation on the lists and the counts leaves alone. *)
Rest(c) == <<c.capacity, c.minFreq, c.curTotalNum, c.curAverageNum, c.corrupt>>

(* Between the steps of an operation: typed, finite, and every key in its list. *)
Basic(c) ==
  /\ IsCache(c) /\ IsFiniteSet(Cached(c))
  /\ \A k \in Cached(c) : Listed(c, k)

(* Nothing else is in the lists. *)
Matched(c) ==
  \A f \in DOMAIN c.lists :
    /\ \A i \in DOMAIN c.lists[f] :
         c.lists[f][i] \in Cached(c) /\ freq(c, c.lists[f][i]) = f
    /\ IsInjective(c.lists[f])

(* The list of count h once k has left its list. *)
Left(c, k, h) ==
  IF h \notin DOMAIN c.lists THEN <<>>
  ELSE IF h = freq(c, k) THEN removeNode(c.lists[h], k) ELSE c.lists[h]

-----------------------------------------------------------------------------
(* The lists *)

(* removeNode takes one node out and keeps the order of the others. *)
LEMMA RemoveNode ==
  ASSUME NEW s \in Seq(Keys), NEW k, \E i \in DOMAIN s : s[i] = k
  PROVE  /\ removeNode(s, k) \in Seq(Keys)
         /\ \E i \in DOMAIN s :
              /\ s[i] = k
              /\ Len(removeNode(s, k)) = Len(s) - 1
              /\ \A j \in 1..(Len(s) - 1) :
                   removeNode(s, k)[j] = s[IF j < i THEN j ELSE j + 1]
<1> DEFINE i == CHOOSE j \in DOMAIN s : s[j] = k
<1>1. i \in DOMAIN s /\ s[i] = k
  OBVIOUS
<1>2. removeNode(s, k) = SubSeq(s, 1, i - 1) \o SubSeq(s, i + 1, Len(s))
  BY DEF removeNode, RemoveAt
<1> HIDE DEF i
<1>3. i \in 1..Len(s)
  BY <1>1
<1> DEFINE a == SubSeq(s, 1, i - 1)
           b == SubSeq(s, i + 1, Len(s))
<1>4. a \in Seq(Keys) /\ Len(a) = i - 1 /\ \A j \in 1..(i - 1) : a[j] = s[j]
  BY <1>3
<1>5. b \in Seq(Keys) /\ Len(b) = Len(s) - i /\ \A j \in 1..(Len(s) - i) : b[j] = s[i + j]
  BY <1>3
<1> HIDE DEF a, b
<1>6. a \o b \in Seq(Keys) /\ Len(a \o b) = Len(s) - 1
  <2>1. a \o b \in Seq(Keys) /\ Len(a \o b) = Len(a) + Len(b)
    BY <1>4, <1>5, ConcatProperties
  <2>2. QED BY <2>1, <1>3, <1>4, <1>5
<1>7. \A j \in 1..(Len(s) - 1) : (a \o b)[j] = s[IF j < i THEN j ELSE j + 1]
  <2> SUFFICES ASSUME NEW j \in 1..(Len(s) - 1)
               PROVE  (a \o b)[j] = s[IF j < i THEN j ELSE j + 1]
    OBVIOUS
  <2>1. CASE j < i
    BY <2>1, <1>3, <1>4, <1>5
  <2>2. CASE ~(j < i)
    <3>1. (a \o b)[j] = b[j - (i - 1)]
      BY <2>2, <1>3, <1>4, <1>5
    <3>2. j - (i - 1) \in 1..(Len(s) - i) /\ i + (j - (i - 1)) = j + 1
      BY <2>2, <1>3
    <3>3. QED BY <2>2, <3>1, <3>2, <1>5
  <2>3. QED BY <2>1, <2>2
<1>8. QED BY <1>1, <1>2, <1>6, <1>7 DEF a, b

(* Without the node, its list holds the others of it and, if it was there once,
   no longer the node. *)
LEMMA RemovedElements ==
  ASSUME NEW s \in Seq(Keys), NEW k, \E i \in DOMAIN s : s[i] = k
  PROVE  LET r == removeNode(s, k)
         IN  /\ r \in Seq(Keys)
             /\ \A l : l # k /\ (\E i \in DOMAIN s : s[i] = l)
                         => \E j \in DOMAIN r : r[j] = l
             /\ \A j \in DOMAIN r : \E i \in DOMAIN s : s[i] = r[j]
             /\ IsInjective(s) => /\ IsInjective(r)
                                  /\ \A j \in DOMAIN r : r[j] # k
<1> DEFINE r == removeNode(s, k)
<1>1. PICK i \in DOMAIN s :
        /\ s[i] = k
        /\ Len(r) = Len(s) - 1
        /\ \A j \in 1..(Len(s) - 1) : r[j] = s[IF j < i THEN j ELSE j + 1]
  BY RemoveNode
<1>2. r \in Seq(Keys) /\ DOMAIN r = 1..(Len(s) - 1) /\ i \in 1..Len(s)
      /\ DOMAIN s = 1..Len(s)
  BY RemoveNode, <1>1
<1> HIDE DEF r
<1>3. ASSUME NEW l, l # k, NEW m \in DOMAIN s, s[m] = l
      PROVE  \E j \in DOMAIN r : r[j] = l
  <2>1. m # i
    BY <1>1, <1>3
  <2>2. CASE m < i
    <3>1. m \in 1..(Len(s) - 1) /\ r[m] = s[m]
      BY <1>1, <1>2, <2>2
    <3>2. QED BY <3>1, <1>2, <1>3
  <2>3. CASE m > i
    <3>1. m - 1 \in 1..(Len(s) - 1) /\ r[m - 1] = s[m]
      BY <1>1, <1>2, <2>3, SMTT(30)
    <3>2. QED BY <3>1, <1>2, <1>3
  <2>4. QED BY <2>1, <2>2, <2>3, <1>2
<1>4. \A j \in DOMAIN r : \E m \in DOMAIN s : s[m] = r[j]
  BY <1>1, <1>2
<1>5. ASSUME IsInjective(s)
      PROVE  IsInjective(r) /\ \A j \in DOMAIN r : r[j] # k
  <2> DEFINE pos(j) == IF j < i THEN j ELSE j + 1
  <2>1. Len(s) \in Nat
    OBVIOUS
  <2>2. \A j \in 1..(Len(s) - 1) : pos(j) \in 1..Len(s) /\ pos(j) # i
    BY <1>2, <2>1
  <2>3. \A j, m \in 1..(Len(s) - 1) : pos(j) = pos(m) => j = m
    BY <1>2, <2>1
  <2>4. \A j \in DOMAIN r : r[j] = s[pos(j)] /\ pos(j) \in DOMAIN s /\ pos(j) # i
    BY <1>1, <1>2, <2>2
  <2>5. \A j, m \in DOMAIN r : pos(j) = pos(m) => j = m
    BY <1>2, <2>3
  <2>6. \A j, m \in DOMAIN s : s[j] = s[m] => j = m
    BY <1>5 DEF IsInjective
  <2> HIDE DEF pos
  <2>7. \A j, m \in DOMAIN r : r[j] = r[m] => j = m
    BY <2>4, <2>5, <2>6, Zenon
  <2>8. \A j \in DOMAIN r : r[j] # k
    BY <1>1, <2>4, <2>6, Zenon
  <2>9. QED BY <2>7, <2>8, Zenon DEF IsInjective
<1>6. QED BY <1>2, <1>3, <1>4, <1>5 DEF r

(* Move changes the count of its key and takes it from one list to the end of
   another. *)
LEMMA MoveFields ==
  ASSUME NEW c, IsCache(c), NEW k \in Cached(c), Listed(c, k), NEW g \in 1..MaxTotal
  PROVE  LET d == Move(c, k, g)
         IN  /\ IsCache(d) /\ Rest(d) = Rest(c)
             /\ Cached(d) = Cached(c)
             /\ \A l \in Cached(c) : freq(d, l) = IF l = k THEN g ELSE freq(c, l)
             /\ DOMAIN d.lists = DOMAIN c.lists \cup {g}
             /\ \A h \in DOMAIN d.lists :
                  d.lists[h] = IF h = g THEN Append(Left(c, k, h), k) ELSE Left(c, k, h)
<1> DEFINE f == c.nodeMap[k].freq
           r == removeFromFreqList(c, k)
           s == SetFreq(r, k, g)
           d == addToFreqList(s, k)
<1>1. /\ c.nodeMap \in [DOMAIN c.nodeMap -> Node]
      /\ c.lists \in [DOMAIN c.lists -> Seq(Keys)]
      /\ k \in DOMAIN c.nodeMap /\ f \in DOMAIN c.lists /\ k \in Keys
  BY DEF IsCache, Cached, Listed, freq
<1>2. removeNode(c.lists[f], k) \in Seq(Keys)
  BY <1>1, RemovedElements DEF Listed, freq
<1> DEFINE L == [c.lists EXCEPT ![f] = removeNode(c.lists[f], k)]
<1>3. L \in [DOMAIN c.lists -> Seq(Keys)]
  BY <1>1, <1>2
<1>4. r = [c EXCEPT !.lists = L]
  BY <1>1 DEF removeFromFreqList, freq, IsCache
<1> DEFINE N == [c.nodeMap EXCEPT ![k].freq = g]
<1>5. N \in [DOMAIN c.nodeMap -> Node]
  BY <1>1 DEF Node
<1>6. s = [c EXCEPT !.lists = L, !.nodeMap = N]
  BY <1>1, <1>4 DEF SetFreq, IsCache
<1>7. N[k].freq = g /\ \A l \in DOMAIN c.nodeMap : l # k => N[l] = c.nodeMap[l]
  BY <1>1 DEF Node
<1>8. \A h \in DOMAIN c.lists : L[h] = Left(c, k, h)
  BY <1>1 DEF Left, freq
<1> DEFINE M == [h \in DOMAIN c.lists \cup {g} |->
                   IF h = g THEN Append(Left(c, k, h), k) ELSE Left(c, k, h)]
<1>9. s.lists = L /\ s.nodeMap = N /\ DOMAIN L = DOMAIN c.lists
  BY <1>3, <1>6 DEF IsCache
<1> HIDE DEF L, N, r, s
<1>10. d = [s EXCEPT !.lists = M]
  <2>1. freq(s, k) = g
    BY <1>7, <1>9 DEF freq
  <2>2. \A h \in DOMAIN c.lists \cup {g} :
          (IF h \in DOMAIN s.lists THEN s.lists[h] ELSE <<>>) = Left(c, k, h)
    BY <1>8, <1>9 DEF Left
  <2>3. M = [h \in DOMAIN s.lists \cup {g} |->
               IF h = g THEN Append(IF g \in DOMAIN s.lists THEN s.lists[g] ELSE <<>>, k)
                        ELSE s.lists[h]]
    BY <2>2, <1>9
  <2>4. QED BY <2>1, <2>3 DEF addToFreqList
<1>11. M \in [DOMAIN c.lists \cup {g} -> Seq(Keys)]
  <2>1. \A h \in DOMAIN c.lists \cup {g} : Left(c, k, h) \in Seq(Keys)
    BY <1>1, <1>2 DEF Left, freq
  <2>2. QED BY <1>1, <2>1
<1> HIDE DEF M
<1>12. /\ d.lists = M /\ d.nodeMap = N /\ Rest(d) = Rest(c)
       /\ d = [c EXCEPT !.lists = M, !.nodeMap = N]
  BY <1>6, <1>10 DEF IsCache, Rest
<1>13. DOMAIN M = DOMAIN c.lists \cup {g} /\ DOMAIN N = DOMAIN c.nodeMap
  BY <1>5, <1>11
<1>14. IsCache(d)
  BY <1>5, <1>11, <1>12, <1>13 DEF IsCache
<1>15. \A h \in DOMAIN d.lists :
         d.lists[h] = IF h = g THEN Append(Left(c, k, h), k) ELSE Left(c, k, h)
  BY <1>12, <1>13 DEF M
<1>16. d = Move(c, k, g)
  BY DEF Move, r, s
<1> HIDE DEF d
<1>17. QED
  BY <1>7, <1>12, <1>13, <1>14, <1>15, <1>16 DEF Cached, freq

(* The lists once k has left: the others are still there, and only they. *)
LEMMA LeftElements ==
  ASSUME NEW c, Basic(c), NEW k \in Cached(c), NEW h
  PROVE  /\ Left(c, k, h) \in Seq(Keys)
         /\ \A l \in Cached(c) \ {k} :
              freq(c, l) = h => \E i \in DOMAIN Left(c, k, h) : Left(c, k, h)[i] = l
         /\ Matched(c) =>
              /\ IsInjective(Left(c, k, h))
              /\ \A i \in DOMAIN Left(c, k, h) :
                   LET l == Left(c, k, h)[i]
                   IN  l \in Cached(c) /\ l # k /\ freq(c, l) = h
<1>1. /\ c.lists \in [DOMAIN c.lists -> Seq(Keys)]
      /\ \A l \in Cached(c) : Listed(c, l)
  BY DEF Basic, IsCache
<1>2. CASE h \notin DOMAIN c.lists
  <2>1. Left(c, k, h) = <<>> /\ <<>> \in Seq(Keys) /\ DOMAIN <<>> = {}
    BY <1>2 DEF Left
  <2>2. QED BY <1>1, <1>2, <2>1 DEF Listed, IsInjective
<1>3. CASE h \in DOMAIN c.lists /\ h # freq(c, k)
  <2> DEFINE s == c.lists[h]
  <2>1. Left(c, k, h) = s /\ s \in Seq(Keys)
    BY <1>1, <1>3 DEF Left
  <2>2. \A l \in Cached(c) : freq(c, l) = h => \E i \in DOMAIN s : s[i] = l
    BY <1>1 DEF Listed
  <2>3. Matched(c) => /\ IsInjective(s)
                      /\ \A i \in DOMAIN s : s[i] \in Cached(c) /\ freq(c, s[i]) = h
    BY <1>3 DEF Matched
  <2> HIDE DEF s
  <2>4. Matched(c) => \A i \in DOMAIN s : s[i] # k
    BY <1>3, <2>3
  <2>5. \A l \in Cached(c) \ {k} : freq(c, l) = h => \E i \in DOMAIN s : s[i] = l
    BY <2>2
  <2>6. Matched(c) => /\ IsInjective(s)
                      /\ \A i \in DOMAIN s :
                           s[i] \in Cached(c) /\ s[i] # k /\ freq(c, s[i]) = h
    BY <2>3, <2>4
  <2>7. QED BY <2>1, <2>5, <2>6
<1>4. CASE h \in DOMAIN c.lists /\ h = freq(c, k)
  <2> DEFINE s == c.lists[h]
             r == removeNode(s, k)
  <2>1. Left(c, k, h) = r /\ s \in Seq(Keys) /\ \E i \in DOMAIN s : s[i] = k
    BY <1>1, <1>4 DEF Left, Listed
  <2> HIDE DEF s, r
  <2>2. /\ r \in Seq(Keys)
        /\ \A l : l # k /\ (\E i \in DOMAIN s : s[i] = l) => \E j \in DOMAIN r : r[j] = l
        /\ \A j \in DOMAIN r : \E i \in DOMAIN s : s[i] = r[j]
        /\ IsInjective(s) => IsInjective(r) /\ \A j \in DOMAIN r : r[j] # k
    BY <2>1, RemovedElements DEF r
  <2>3. \A l \in Cached(c) : freq(c, l) = h => \E i \in DOMAIN s : s[i] = l
    BY <1>1, <1>4 DEF Listed, s
  <2>4. Matched(c) => /\ IsInjective(s)
                      /\ \A i \in DOMAIN s : s[i] \in Cached(c) /\ freq(c, s[i]) = h
    BY <1>4 DEF Matched, s
  <2>5. \A l \in Cached(c) \ {k} : freq(c, l) = h => \E i \in DOMAIN r : r[i] = l
    BY <2>2, <2>3
  <2>6. Matched(c) => /\ IsInjective(r)
                      /\ \A i \in DOMAIN r :
                           r[i] \in Cached(c) /\ r[i] # k /\ freq(c, r[i]) = h
    <3> SUFFICES ASSUME Matched(c), NEW i \in DOMAIN r
                 PROVE  r[i] \in Cached(c) /\ r[i] # k /\ freq(c, r[i]) = h
      BY <2>2, <2>4
    <3>1. PICK m \in DOMAIN s : s[m] = r[i]
      BY <2>2
    <3>2. QED BY <2>2, <2>4, <3>1
  <2>7. QED BY <2>1, <2>2, <2>5, <2>6
<1>5. QED BY <1>2, <1>3, <1>4

(* Moving a node keeps every key in the list of its count, and nothing else. *)
LEMMA MoveKeeps ==
  ASSUME NEW c, Basic(c), NEW k \in Cached(c), NEW g \in 1..MaxTotal
  PROVE  Basic(Move(c, k, g)) /\ (Matched(c) => Matched(Move(c, k, g)))
<1> DEFINE d == Move(c, k, g)
<1>1. /\ IsCache(d) /\ Cached(d) = Cached(c)
      /\ \A l \in Cached(c) : freq(d, l) = IF l = k THEN g ELSE freq(c, l)
      /\ DOMAIN d.lists = DOMAIN c.lists \cup {g}
      /\ \A h \in DOMAIN d.lists :
           d.lists[h] = IF h = g THEN Append(Left(c, k, h), k) ELSE Left(c, k, h)
  BY MoveFields DEF Basic
<1>2. k \in Keys /\ IsFiniteSet(Cached(c)) /\ \A l \in Cached(c) : Listed(c, l)
  BY DEF Basic, IsCache, Cached
<1> HIDE DEF d
<1>3. \A h : Left(c, k, h) \in Seq(Keys)
  BY LeftElements
<1>4. ASSUME NEW h
      PROVE  LET s == Left(c, k, h)
                 e == Append(s, k)
             IN  /\ e \in Seq(Keys) /\ DOMAIN s = 1..Len(s) /\ Len(s) \in Nat
                 /\ DOMAIN e = 1..(Len(s) + 1)
                 /\ e[Len(s) + 1] = k /\ \A i \in 1..Len(s) : e[i] = s[i]
  BY <1>2, <1>3
<1>5. ASSUME NEW l \in Cached(d) PROVE Listed(d, l)
  <2>1. CASE l = k
    <3>1. freq(d, l) = g /\ g \in DOMAIN d.lists /\ d.lists[g] = Append(Left(c, k, g), k)
      BY <1>1, <1>5, <2>1
    <3>2. \E i \in DOMAIN d.lists[g] : d.lists[g][i] = k
      BY <3>1, <1>4
    <3>3. QED BY <2>1, <3>1, <3>2 DEF Listed
  <2>2. CASE l # k
    <3> DEFINE h == freq(c, l)
    <3>1. freq(d, l) = h /\ h \in DOMAIN d.lists
      BY <1>1, <1>2, <1>5, <2>2 DEF Listed
    <3>2. \E i \in DOMAIN Left(c, k, h) : Left(c, k, h)[i] = l
      <4>1. l \in Cached(c) \ {k} /\ freq(c, l) = h
        BY <1>1, <1>5, <2>2
      <4> HIDE DEF h
      <4>2. \A m \in Cached(c) \ {k} : freq(c, m) = h
               => \E i \in DOMAIN Left(c, k, h) : Left(c, k, h)[i] = m
        BY LeftElements
      <4>3. QED BY <4>1, <4>2, Zenon
    <3>3. \E i \in DOMAIN d.lists[h] : d.lists[h][i] = l
      <4>1. PICK i \in DOMAIN Left(c, k, h) : Left(c, k, h)[i] = l
        BY <3>2
      <4>2. CASE h # g
        BY <1>1, <3>1, <4>1, <4>2
      <4>3. CASE h = g
        <5>1. i \in DOMAIN Append(Left(c, k, h), k) /\ Append(Left(c, k, h), k)[i] = l
          BY <1>4, <4>1
        <5>2. d.lists[h] = Append(Left(c, k, h), k)
          BY <1>1, <3>1, <4>3
        <5>3. QED BY <5>1, <5>2
      <4>4. QED BY <4>2, <4>3
    <3>4. QED BY <3>1, <3>3 DEF Listed
  <2>3. QED BY <2>1, <2>2
<1>6. ASSUME Matched(c) PROVE Matched(d)
  <2> SUFFICES ASSUME NEW h \in DOMAIN d.lists
               PROVE  /\ \A i \in DOMAIN d.lists[h] :
                           d.lists[h][i] \in Cached(d) /\ freq(d, d.lists[h][i]) = h
                      /\ IsInjective(d.lists[h])
    BY DEF Matched
  <2>1. /\ IsInjective(Left(c, k, h))
        /\ \A i \in DOMAIN Left(c, k, h) :
             LET l == Left(c, k, h)[i]
             IN  l \in Cached(c) /\ l # k /\ freq(c, l) = h
    BY <1>6, LeftElements
  <2>2. CASE h # g
    BY <1>1, <2>1, <2>2
  <2>3. CASE h = g
    <3> DEFINE s == Left(c, k, h)
               e == Append(s, k)
    <3>1. /\ DOMAIN s = 1..Len(s) /\ Len(s) \in Nat /\ DOMAIN e = 1..(Len(s) + 1)
          /\ e[Len(s) + 1] = k /\ \A i \in 1..Len(s) : e[i] = s[i]
      BY <1>4
    <3>2. d.lists[h] = e
      BY <1>1, <2>3
    <3> HIDE DEF s, e
    <3>3. /\ \A i, j \in 1..Len(s) : s[i] = s[j] => i = j
          /\ \A i \in 1..Len(s) : s[i] \in Cached(c) /\ s[i] # k /\ freq(c, s[i]) = h
      BY <2>1, <3>1 DEF s, IsInjective
    <3>4. ASSUME NEW i \in DOMAIN e PROVE e[i] \in Cached(d) /\ freq(d, e[i]) = h
      <4>1. CASE i = Len(s) + 1
        BY <1>1, <2>3, <3>1, <4>1
      <4>2. CASE i \in 1..Len(s)
        BY <1>1, <3>1, <3>3, <4>2
      <4>3. QED BY <3>1, <4>1, <4>2
    <3>5. IsInjective(e)
      BY <3>1, <3>3 DEF IsInjective
    <3>6. QED BY <3>2, <3>4, <3>5
  <2>4. QED BY <2>2, <2>3
<1>7. QED BY <1>1, <1>2, <1>5, <1>6 DEF Basic, d

-----------------------------------------------------------------------------
(* Aging *)

(* d is c with some counts lowered. *)
Lowered(c, d) ==
  /\ Basic(d) /\ (Matched(c) => Matched(d))
  /\ Rest(d) = Rest(c) /\ Cached(d) = Cached(c)
  /\ DOMAIN c.lists \subseteq DOMAIN d.lists
  /\ \A k \in Cached(c) : freq(d, k) <= freq(c, k)

(* A cached key has a count of at least 1. *)
LEMMA FreqType ==
  ASSUME NEW c, IsCache(c), NEW k \in Cached(c)
  PROVE  freq(c, k) \in 1..MaxTotal /\ k \in Keys
BY DEF IsCache, Cached, freq, Node

LEMMA AgedLowers ==
  ASSUME NEW c, Basic(c), NEW k \in Cached(c)
  PROVE  Lowered(c, Aged(c, k))
<1> DEFINE f == freq(c, k) - MaxAverageNum \div 2
           g == IF f < 1 THEN 1 ELSE f
           d == Move(c, k, g)
<1>1. MaxAverageNum \div 2 \in Nat
  BY SliceAssumption
<1>2. freq(c, k) \in 1..MaxTotal /\ MaxTotal \in Nat
  BY FreqType, SliceAssumption DEF Basic
<1>3. g \in 1..MaxTotal /\ g <= freq(c, k)
  BY <1>1, <1>2
<1>4. Aged(c, k) = d
  BY DEF Aged
<1> HIDE DEF g
<1>5. /\ Rest(d) = Rest(c) /\ Cached(d) = Cached(c)
      /\ \A l \in Cached(c) : freq(d, l) = IF l = k THEN g ELSE freq(c, l)
      /\ DOMAIN d.lists = DOMAIN c.lists \cup {g}
  BY <1>3, MoveFields DEF Basic
<1>6. Basic(d) /\ (Matched(c) => Matched(d))
  BY <1>3, MoveKeeps
<1> HIDE DEF d
<1>7. \A l \in Cached(c) : freq(c, l) \in Nat
  BY FreqType, SliceAssumption DEF Basic
<1>8. QED BY <1>3, <1>4, <1>5, <1>6, <1>7 DEF Lowered

LEMMA LoweredTwice ==
  ASSUME NEW c, NEW d, NEW e, Basic(c), Lowered(c, d), Lowered(d, e)
  PROVE  Lowered(c, e)
<1>1. \A k \in Cached(c) : freq(c, k) \in Nat /\ freq(d, k) \in Nat /\ freq(e, k) \in Nat
  BY FreqType, SliceAssumption DEF Basic, Lowered
<1>2. QED BY <1>1 DEF Lowered

(* A set of numbers that is not empty has a least one: what proofs by least
   counterexample rest on. *)
LEMMA LeastNumber ==
  ASSUME NEW S \in SUBSET Nat, S # {}
  PROVE  \E n \in S : \A m \in S : n <= m
<1> DEFINE R == {ss \in Nat \X Nat : ss[1] < ss[2]}
<1>1. R = OpToRel(<, Nat)
  BY Zenon DEF OpToRel
<1>2. IsWellFoundedOn(R, Nat)
  BY <1>1, NatLessThanWellFounded, Zenon
<1> HIDE DEF R
<1>3. PICK n \in S : \A m \in S : ~(<<m, n>> \in R)
  BY <1>2, WFMin, Zenon
<1>4. ASSUME NEW m \in S PROVE n <= m
  <2>1. m \in Nat /\ n \in Nat
    OBVIOUS
  <2>2. ~(m < n)
    BY <1>3, <2>1 DEF R
  <2>3. QED BY <2>1, <2>2
<1>5. QED BY <1>4

(* The lines after a up to b. *)
Run(a, b) == [j \in 1..(b - a) |-> a + j]

(* The walk of handleOverMaxAverageNum is defined, however long the map is, and
   lowers counts only. *)
LEMMA WalkLowers ==
  ASSUME NEW c, Basic(c), NEW order \in Seq(Cached(c))
  PROVE  Lowered(c, AgedInOrder(c, order))
<1> DEFINE Walk(w, m) ==
             w = [n \in 0..m |-> IF n = 0 THEN c ELSE Aged(w[n - 1], order[n])]
           N == Len(order)
           S == {m \in 0..N : ~\E w : Walk(w, m)}
<1>1. N \in Nat /\ \A n \in 1..N : order[n] \in Cached(c)
  OBVIOUS
<1>2. S = {}
  <2> SUFFICES ASSUME S # {} PROVE FALSE
    OBVIOUS
  <2>1. S \in SUBSET Nat
    BY <1>1
  <2>2. PICK m \in S : \A n \in S : m <= n
    BY <2>1, LeastNumber
  <2>3. m \in 0..N /\ ~\E w : Walk(w, m)
    OBVIOUS
  <2>4. m # 0
    <3>1. Walk([n \in 0..0 |-> c], 0)
      OBVIOUS
    <3>2. QED BY <2>3, <3>1
  <2>5. m - 1 \in 0..N /\ m - 1 \notin S
    <3>1. m - 1 \in 0..N /\ ~(m <= m - 1)
      BY <1>1, <2>3, <2>4
    <3> HIDE DEF S
    <3>2. QED BY <2>2, <3>1
  <2>6. PICK w : Walk(w, m - 1)
    BY <2>5
  <2> DEFINE x == [n \in 0..m |-> IF n = m THEN Aged(w[m - 1], order[m]) ELSE w[n]]
  <2>7. \A n \in 0..(m - 1) : w[n] = IF n = 0 THEN c ELSE Aged(w[n - 1], order[n])
    BY <2>6
  <2>8. \A n \in 0..m : x[n] = IF n = 0 THEN c ELSE Aged(x[n - 1], order[n])
    BY <1>1, <2>3, <2>4, <2>7
  <2>9. Walk(x, m)
    BY <2>8
  <2>10. QED BY <2>3, <2>9
<1>3. \E w : Walk(w, N)
  BY <1>1, <1>2
<1> DEFINE v == CHOOSE w : Walk(w, N)
<1>4. Walk(v, N)
  BY <1>3, Zenon
<1>5. AgedInOrder(c, order) = v[N]
  BY DEF AgedInOrder
<1>6. \A n \in 0..N : v[n] = IF n = 0 THEN c ELSE Aged(v[n - 1], order[n])
  BY <1>4
<1> HIDE DEF v
<1> DEFINE U == {n \in 0..N : ~Lowered(c, v[n])}
<1>7. U = {}
  <2> SUFFICES ASSUME U # {} PROVE FALSE
    OBVIOUS
  <2>1. U \in SUBSET Nat
    BY <1>1
  <2>2. PICK m \in U : \A n \in U : m <= n
    BY <2>1, LeastNumber
  <2>3. m \in 0..N /\ ~Lowered(c, v[m])
    OBVIOUS
  <2>4. m # 0
    <3>1. Lowered(c, c)
      BY FreqType, SliceAssumption DEF Lowered, Basic
    <3>2. v[0] = c
      BY <1>1, <1>6
    <3>3. QED BY <2>3, <3>1, <3>2
  <2>5. m - 1 \in 0..N /\ m - 1 \notin U
    BY <1>1, <2>2, <2>3, <2>4
  <2>6. Lowered(c, v[m - 1])
    BY <2>5
  <2>7. v[m] = Aged(v[m - 1], order[m]) /\ order[m] \in Cached(c)
    BY <1>1, <1>6, <2>3, <2>4
  <2>8. Lowered(v[m - 1], v[m])
    BY <2>6, <2>7, AgedLowers, SMTT(30) DEF Lowered
  <2>9. QED BY <2>3, <2>6, <2>8, LoweredTwice
<1>8. QED BY <1>1, <1>5, <1>7

(* minFreq_ is the smallest count, or 1 when all are at INT8_MAX or above. *)
Exact(c) ==
  \/ /\ \A k \in Cached(c) : c.minFreq <= freq(c, k)
     /\ \E k \in Cached(c) : c.minFreq = freq(c, k)
  \/ c.minFreq = 1 /\ Saturated(c)

(* What is read from the counts and the lists does not change with the rest. *)
LEMMA SameCounts ==
  ASSUME NEW c, NEW d, d.lists = c.lists, Cached(d) = Cached(c),
         \A k \in Cached(c) : freq(d, k) = freq(c, k)
  PROVE  /\ \A k \in Cached(c) : Listed(d, k) <=> Listed(c, k)
         /\ Matched(d) <=> Matched(c)
<1>1. \A k \in Cached(c) : Listed(d, k) <=> Listed(c, k)
  BY DEF Listed
<1>2. Matched(d) <=> Matched(c)
  BY DEF Matched
<1>3. QED BY <1>1, <1>2

LEMMA SameCore ==
  ASSUME NEW c, NEW d, d.nodeMap = c.nodeMap, d.lists = c.lists
  PROVE  /\ Cached(d) = Cached(c) /\ \A k : freq(d, k) = freq(c, k)
         /\ \A k : Listed(d, k) <=> Listed(c, k)
         /\ Matched(d) <=> Matched(c)
<1>1. Cached(d) = Cached(c) /\ \A k : freq(d, k) = freq(c, k)
  BY DEF Cached, freq
<1>2. \A k : Listed(d, k) <=> Listed(c, k)
  BY <1>1 DEF Listed
<1>3. Matched(d) <=> Matched(c)
  BY <1>1 DEF Matched
<1>4. QED BY <1>1, <1>2, <1>3

(* updateMinFreq finds the smallest count in use. *)
LEMMA UpdatedMin ==
  ASSUME NEW c, Basic(c)
  PROVE  LET d == updateMinFreq(c)
         IN  /\ d.nodeMap = c.nodeMap /\ d.lists = c.lists /\ Basic(d)
             /\ d.capacity = c.capacity /\ d.corrupt = c.corrupt
             /\ d.curTotalNum = c.curTotalNum /\ d.curAverageNum = c.curAverageNum
             /\ Matched(c) => Exact(d)
<1> DEFINE V == InUse(c) \cup {Int8Max}
           least == {f \in V : \A g \in V : f <= g}
           min == CHOOSE f \in least : TRUE
           x == IF min = Int8Max THEN 1 ELSE min
           d == [c EXCEPT !.minFreq = x]
<1>1. IsCache(c) /\ Int8Max \in Nat \ {0} /\ MaxTotal \in Nat
  BY SliceAssumption DEF Basic
<1>2. V \in SUBSET Nat /\ V # {} /\ InUse(c) \subseteq 1..MaxTotal
  BY <1>1 DEF InUse, IsCache
<1>3. min \in V /\ \A g \in V : min <= g
  <2>1. PICK f \in V : \A g \in V : f <= g
    BY <1>2, LeastNumber
  <2>2. f \in least
    BY <2>1
  <2>3. QED BY <2>2
<1> HIDE DEF min
<1>4. x \in 1..(Int8Max + MaxTotal)
  <2>1. min = Int8Max \/ min \in 1..MaxTotal
    BY <1>2, <1>3
  <2>2. 1 \in 1..(Int8Max + MaxTotal) /\ 1..MaxTotal \subseteq 1..(Int8Max + MaxTotal)
    BY <1>1
  <2>3. QED BY <2>1, <2>2
<1> HIDE DEF x
<1>5. d = updateMinFreq(c)
  BY DEF updateMinFreq, x, min
<1>6. /\ d.nodeMap = c.nodeMap /\ d.lists = c.lists /\ d.minFreq = x
      /\ d.capacity = c.capacity /\ d.corrupt = c.corrupt
      /\ d.curTotalNum = c.curTotalNum /\ d.curAverageNum = c.curAverageNum
      /\ IsCache(d)
  BY <1>1, <1>4 DEF IsCache
<1> HIDE DEF d
<1>7. Basic(d)
  BY <1>6, SameCore DEF Basic
<1>8. ASSUME Matched(c) PROVE Exact(d)
  <2>1. \A k \in Cached(c) : freq(c, k) \in InUse(c)
    <3> SUFFICES ASSUME NEW k \in Cached(c) PROVE freq(c, k) \in InUse(c)
      OBVIOUS
    <3>1. Listed(c, k)
      BY DEF Basic
    <3>2. QED BY <3>1 DEF Listed, InUse
  <2>2. \A f \in InUse(c) : \E k \in Cached(c) : freq(c, k) = f
    <3> SUFFICES ASSUME NEW f \in InUse(c) PROVE \E k \in Cached(c) : freq(c, k) = f
      OBVIOUS
    <3>1. f \in DOMAIN c.lists /\ c.lists[f] \in Seq(Keys) /\ c.lists[f] # <<>>
      BY <1>1 DEF InUse, IsCache
    <3>2. 1 \in DOMAIN c.lists[f]
      BY <3>1
    <3>3. c.lists[f][1] \in Cached(c) /\ freq(c, c.lists[f][1]) = f
      BY <1>8, <3>1, <3>2 DEF Matched
    <3>4. QED BY <3>3
  <2>3. Cached(d) = Cached(c) /\ \A k : freq(d, k) = freq(c, k)
    BY <1>6, SameCore
  <2>4. CASE min = Int8Max
    <3>1. \A k \in Cached(c) : freq(c, k) >= Int8Max
      BY <1>1, <1>2, <1>3, <2>1, <2>4
    <3>2. QED BY <1>6, <2>3, <2>4, <3>1 DEF Exact, Saturated, x
  <2>5. CASE min # Int8Max
    <3>1. d.minFreq = min /\ min \in InUse(c)
      BY <1>3, <1>6, <2>5 DEF x
    <3>2. \A k \in Cached(c) : min <= freq(c, k)
      BY <1>3, <2>1
    <3>3. QED BY <2>2, <2>3, <3>1, <3>2 DEF Exact
  <2>6. QED BY <2>4, <2>5
<1>9. QED BY <1>5, <1>6, <1>7, <1>8

(* The effect of addFreqNum: one more access is counted, and aging, if it comes,
   lowers counts and finds the minimum anew. *)
Counted(c, d) ==
  /\ Basic(d) /\ (Matched(c) => Matched(d))
  /\ Cached(d) = Cached(c) /\ d.capacity = c.capacity /\ d.corrupt = c.corrupt
  /\ d.curTotalNum = c.curTotalNum + 1
  /\ DOMAIN c.lists \subseteq DOMAIN d.lists
  /\ \A k \in Cached(c) : freq(d, k) <= freq(c, k)
  /\ \/ d.minFreq = c.minFreq /\ \A k \in Cached(c) : freq(d, k) = freq(c, k)
     \/ Matched(c) => Exact(d)

LEMMA AverageType ==
  ASSUME NEW c, IsFiniteSet(Cached(c)), NEW total \in 0..MaxTotal
  PROVE  Average(c, total) \in 0..MaxTotal
<1>1. MaxTotal \in Nat /\ Cardinality(Cached(c)) \in Nat
  BY SliceAssumption, FS_CardinalityType
<1>2. CASE Cached(c) = {}
  BY <1>1, <1>2 DEF Average
<1>3. CASE Cached(c) # {}
  <2>1. Cardinality(Cached(c)) # 0
    BY <1>3, FS_EmptySet
  <2> DEFINE n == Cardinality(Cached(c))
  <2>2. \A m \in Nat \ {0} : total \div m \in 0..total
    BY <1>1
  <2>3. total \div n \in 0..total
    BY <1>1, <2>1, <2>2
  <2>4. QED BY <1>1, <1>3, <2>3 DEF Average
<1>4. QED BY <1>2, <1>3

LEMMA AddFreqNum ==
  ASSUME NEW c, Basic(c), c.curTotalNum < MaxTotal, NEW e \in addFreqNum(c)
  PROVE  Counted(c, e)
<1> DEFINE t == c.curTotalNum + 1
           a == Average(c, t)
           d == [c EXCEPT !.curTotalNum = t, !.curAverageNum = a]
<1>1. IsCache(c) /\ MaxTotal \in Nat
  BY SliceAssumption DEF Basic
<1>2. t \in 0..MaxTotal
  BY <1>1 DEF IsCache
<1>3. a \in 0..MaxTotal
  BY <1>2, AverageType DEF Basic
<1>4. addFreqNum(c) = IF d.curAverageNum > MaxAverageNum
                      THEN handleOverMaxAverageNum(d) ELSE {d}
  BY <1>1 DEF addFreqNum, IsCache
<1> HIDE DEF t, a
<1>5. /\ d.nodeMap = c.nodeMap /\ d.lists = c.lists /\ d.minFreq = c.minFreq
      /\ d.capacity = c.capacity /\ d.corrupt = c.corrupt /\ d.curTotalNum = t
      /\ IsCache(d)
  BY <1>1, <1>2, <1>3 DEF IsCache
<1> HIDE DEF d
<1>6. /\ Cached(d) = Cached(c) /\ (\A k : freq(d, k) = freq(c, k))
      /\ (\A k : Listed(d, k) <=> Listed(c, k)) /\ (Matched(d) <=> Matched(c))
  BY <1>5, SameCore
<1>7. Basic(d)
  BY <1>5, <1>6 DEF Basic
<1>8. \A k \in Cached(c) : freq(c, k) \in Nat
  BY <1>1, FreqType
<1>9. CASE e = d
  <2>1. \A k \in Cached(c) : freq(d, k) <= freq(c, k)
    BY <1>6, <1>8
  <2>2. QED BY <1>5, <1>6, <1>7, <1>9, <2>1 DEF Counted, t
<1>10. CASE e \in handleOverMaxAverageNum(d)
  <2>1. PICK order \in SetToSeqs(Cached(d)) : e = updateMinFreq(AgedInOrder(d, order))
    BY <1>10 DEF handleOverMaxAverageNum
  <2>2. order \in Seq(Cached(d))
    <3>1. Cardinality(Cached(d)) \in Nat
      BY <1>7, FS_CardinalityType DEF Basic
    <3>2. order \in [1..Cardinality(Cached(d)) -> Cached(d)]
      BY <2>1 DEF SetToSeqs
    <3>3. QED BY <3>1, <3>2
  <2> DEFINE b == AgedInOrder(d, order)
  <2>3. Lowered(d, b)
    BY <1>7, <2>2, WalkLowers
  <2>4. Basic(b)
    BY <2>3 DEF Lowered
  <2> HIDE DEF b
  <2>5. /\ e.nodeMap = b.nodeMap /\ e.lists = b.lists /\ Basic(e)
        /\ e.capacity = b.capacity /\ e.corrupt = b.corrupt
        /\ e.curTotalNum = b.curTotalNum
        /\ Matched(b) => Exact(e)
    BY <2>1, <2>4, UpdatedMin DEF b
  <2>6. /\ Cached(e) = Cached(b) /\ (\A k : freq(e, k) = freq(b, k))
        /\ (Matched(e) <=> Matched(b))
    BY <2>5, SameCore
  <2>7. b.capacity = d.capacity /\ b.corrupt = d.corrupt /\ b.curTotalNum = d.curTotalNum
    BY <2>3 DEF Lowered, Rest
  <2>8. \A k \in Cached(c) : freq(e, k) <= freq(c, k)
    BY <1>6, <2>3, <2>6 DEF Lowered
  <2>9. /\ Cached(b) = Cached(d) /\ DOMAIN d.lists \subseteq DOMAIN b.lists
        /\ (Matched(d) => Matched(b))
    BY <2>3 DEF Lowered
  <2>10. QED BY <1>5, <1>6, <2>5, <2>6, <2>7, <2>8, <2>9 DEF Counted, t
<1>11. QED BY <1>4, <1>9, <1>10

-----------------------------------------------------------------------------
(* The sum of the counts *)

LEMMA AccessesFinite ==
  ASSUME NEW c, IsFiniteSet(Cached(c))
  PROVE  IsFiniteSet(Accesses(c)) /\ Cardinality(Accesses(c)) \in Nat
<1>1. IsFiniteSet(1..MaxTotal)
  BY SliceAssumption, FS_Interval
<1>2. IsFiniteSet(Cached(c) \X (1..MaxTotal))
  BY <1>1, FS_Product
<1>3. Accesses(c) \in SUBSET (Cached(c) \X (1..MaxTotal))
  BY DEF Accesses
<1>4. QED BY <1>2, <1>3, FS_Subset, FS_CardinalityType

(* Counts that are not higher sum up to no more. *)
LEMMA LoweredAccesses ==
  ASSUME NEW c, NEW d, Basic(c), Basic(d), Cached(d) = Cached(c),
         \A k \in Cached(c) : freq(d, k) <= freq(c, k)
  PROVE  Cardinality(Accesses(d)) <= Cardinality(Accesses(c))
<1>1. \A k \in Cached(c) : freq(c, k) \in Nat /\ freq(d, k) \in Nat
  BY FreqType DEF Basic
<1>2. Accesses(d) \in SUBSET Accesses(c)
  <2> SUFFICES ASSUME NEW a \in Accesses(d) PROVE a \in Accesses(c)
    OBVIOUS
  <2>1. a \in Cached(c) \X (1..MaxTotal) /\ a[2] <= freq(d, a[1])
    BY DEF Accesses
  <2>2. a[1] \in Cached(c) /\ a[2] \in Nat
    BY <2>1
  <2>3. a[2] <= freq(c, a[1])
    BY <1>1, <2>1, <2>2
  <2>4. QED BY <2>1, <2>3 DEF Accesses
<1>3. IsFiniteSet(Accesses(c))
  BY AccessesFinite DEF Basic
<1>4. QED BY <1>2, <1>3, FS_Subset

(* One access more counts for one. *)
LEMMA MoreAccesses ==
  ASSUME NEW c, NEW d, IsFiniteSet(Cached(c)), NEW a,
         Accesses(d) \subseteq Accesses(c) \cup {a}
  PROVE  Cardinality(Accesses(d)) <= Cardinality(Accesses(c)) + 1
<1>1. IsFiniteSet(Accesses(c)) /\ Cardinality(Accesses(c)) \in Nat
  BY AccessesFinite
<1>2. /\ IsFiniteSet(Accesses(c) \cup {a})
      /\ Cardinality(Accesses(c) \cup {a}) <= Cardinality(Accesses(c)) + 1
  <2>1. /\ IsFiniteSet(Accesses(c) \cup {a})
        /\ Cardinality(Accesses(c) \cup {a}) =
             IF a \in Accesses(c) THEN Cardinality(Accesses(c))
                                  ELSE Cardinality(Accesses(c)) + 1
    BY <1>1, FS_AddElement
  <2>2. QED BY <1>1, <2>1
<1>3. /\ IsFiniteSet(Accesses(d))
      /\ Cardinality(Accesses(d)) <= Cardinality(Accesses(c) \cup {a})
  BY <1>2, FS_Subset
<1>4. Cardinality(Accesses(d)) \in Nat /\ Cardinality(Accesses(c) \cup {a}) \in Nat
  BY <1>2, <1>3, FS_CardinalityType
<1>5. QED BY <1>1, <1>2, <1>3, <1>4

(* Without a key the sum is lower by its count. *)
LEMMA ErasedAccesses ==
  ASSUME NEW c, Basic(c), NEW k \in Cached(c), NEW d, Cached(d) = Cached(c) \ {k},
         \A l \in Cached(d) : freq(d, l) = freq(c, l)
  PROVE  Cardinality(Accesses(d)) = Cardinality(Accesses(c)) - freq(c, k)
<1> DEFINE f == freq(c, k)
           R == {k} \X (1..f)
<1>1. f \in 1..MaxTotal /\ MaxTotal \in Nat
  BY FreqType, SliceAssumption DEF Basic
<1>2. \A l \in Cached(c) : freq(c, l) \in 1..MaxTotal
  BY FreqType DEF Basic
<1> HIDE DEF f
<1>3. IsFiniteSet(1..f) /\ Cardinality(1..f) = f
  BY <1>1, FS_Interval
<1>4. Cardinality(R) = f
  <2>1. IsFiniteSet({k}) /\ Cardinality({k}) = 1
    BY FS_Singleton
  <2>2. Cardinality(R) = 1 * f
    BY <1>3, <2>1, FS_Product, ZenonT(30)
  <2>3. QED BY <1>1, <2>2
<1>5. R \subseteq Accesses(c)
  <2> SUFFICES ASSUME NEW n \in 1..f PROVE <<k, n>> \in Accesses(c)
    OBVIOUS
  <2>1. n \in 1..MaxTotal /\ n <= f
    BY <1>1
  <2>2. QED BY <2>1 DEF Accesses, f
<1>6. Accesses(d) = Accesses(c) \ R
  <2>1. ASSUME NEW l, NEW n
        PROVE  <<l, n>> \in Accesses(d) <=> <<l, n>> \in Accesses(c) \ R
    <3>1. <<l, n>> \in R <=> l = k /\ n \in 1..f
      OBVIOUS
    <3>2. <<l, n>> \in Accesses(d) <=>
            l \in Cached(c) /\ l # k /\ n \in 1..MaxTotal /\ n <= freq(d, l)
      BY DEF Accesses
    <3>3. <<l, n>> \in Accesses(c) <=>
            l \in Cached(c) /\ n \in 1..MaxTotal /\ n <= freq(c, l)
      BY DEF Accesses
    <3>4. CASE l = k
      <4>1. n \in 1..MaxTotal /\ n <= f => n \in 1..f
        BY <1>1
      <4>2. QED BY <3>1, <3>2, <3>3, <3>4, <4>1 DEF f
    <3>5. CASE l # k
      BY <3>1, <3>2, <3>3, <3>5
    <3>6. QED BY <3>4, <3>5
  <2>2. \A a \in Accesses(d) : a = <<a[1], a[2]>>
    BY DEF Accesses
  <2>3. \A a \in Accesses(c) : a = <<a[1], a[2]>>
    BY DEF Accesses
  <2> HIDE DEF R
  <2>4. ASSUME NEW a \in Accesses(d) PROVE a \in Accesses(c) \ R
    BY <2>1, <2>2
  <2>5. ASSUME NEW a \in Accesses(c) \ R PROVE a \in Accesses(d)
    BY <2>1, <2>3
  <2>6. QED BY <2>4, <2>5
<1> HIDE DEF R
<1>7. IsFiniteSet(Accesses(c))
  BY AccessesFinite DEF Basic
<1>8. Accesses(c) \cap R = R
  BY <1>5
<1>9. Cardinality(Accesses(c) \ R) = Cardinality(Accesses(c)) - Cardinality(R)
  BY <1>7, <1>8, FS_Difference, ZenonT(30)
<1>10. QED BY <1>4, <1>6, <1>9 DEF f

(* So no count is above the sum. *)
LEMMA FreqBelowSum ==
  ASSUME NEW c, Basic(c), NEW k \in Cached(c)
  PROVE  freq(c, k) <= Cardinality(Accesses(c))
<1> DEFINE d == [nodeMap |-> [l \in Cached(c) \ {k} |-> c.nodeMap[l]]]
<1>1. Cached(d) = Cached(c) \ {k} /\ \A l \in Cached(d) : freq(d, l) = freq(c, l)
  BY DEF Cached, freq
<1>2. IsFiniteSet(Cached(d))
  BY <1>1, FS_RemoveElement DEF Basic
<1> HIDE DEF d
<1>3. Cardinality(Accesses(d)) = Cardinality(Accesses(c)) - freq(c, k)
  BY <1>1, ErasedAccesses
<1>4. Cardinality(Accesses(d)) \in Nat /\ Cardinality(Accesses(c)) \in Nat
  BY <1>2, AccessesFinite DEF Basic
<1>5. freq(c, k) \in Nat
  BY FreqType DEF Basic
<1>6. QED BY <1>3, <1>4, <1>5

-----------------------------------------------------------------------------
(* The operations of LfuCache *)

(* The invariant of a cache between operations.  After aging, kickOut may look for
   the list of count 1, so there is one. *)
Good(c) ==
  /\ IsCache(c) /\ IsFiniteSet(Cached(c))
  /\ Bounded(c) /\ ListsMatch(c) /\ MinExact(c)
  /\ Cached(c) # {} /\ ~c.corrupt => 1 \in DOMAIN c.lists

(* The same for a cache that is not corrupt, in the terms of the lemmas. *)
Sound(c) ==
  /\ Basic(c) /\ Matched(c) /\ ~c.corrupt
  /\ Cardinality(Cached(c)) <= c.capacity
  /\ Cardinality(Accesses(c)) <= c.curTotalNum
  /\ Cached(c) # {} => Exact(c) /\ 1 \in DOMAIN c.lists

LEMMA GoodIsSound ==
  ASSUME NEW c, ~c.corrupt
  PROVE  Good(c) <=> Sound(c)
<1>1. ListsMatch(c) <=> Matched(c) /\ \A k \in Cached(c) : Listed(c, k)
  BY DEF ListsMatch, Matched
<1>2. MinExact(c) <=> (Cached(c) # {} => Exact(c))
  BY DEF MinExact, Exact
<1>3. QED BY <1>1, <1>2 DEF Good, Sound, Basic, Bounded

(* An access that is counted leaves a sound cache. *)
LEMMA CountedIsSound ==
  ASSUME NEW b, NEW e, Basic(b), Matched(b), ~b.corrupt, Exact(b),
         1 \in DOMAIN b.lists,
         Cardinality(Cached(b)) <= b.capacity,
         Cardinality(Accesses(b)) <= b.curTotalNum + 1,
         Counted(b, e)
  PROVE  Sound(e) /\ Cached(e) = Cached(b) /\ e.capacity = b.capacity
<1>1. /\ Basic(e) /\ Matched(e) /\ ~e.corrupt
      /\ Cached(e) = Cached(b) /\ e.capacity = b.capacity /\ 1 \in DOMAIN e.lists
      /\ e.curTotalNum = b.curTotalNum + 1
  BY DEF Counted
<1>2. Cardinality(Accesses(e)) <= Cardinality(Accesses(b))
  BY <1>1, LoweredAccesses DEF Counted
<1>3. /\ Cardinality(Accesses(e)) \in Nat /\ Cardinality(Accesses(b)) \in Nat
      /\ b.curTotalNum \in Nat
  BY <1>1, AccessesFinite DEF Basic, IsCache
<1>4. Cardinality(Accesses(e)) <= e.curTotalNum
  BY <1>1, <1>2, <1>3
<1>5. Exact(e)
  <2>1. CASE e.minFreq = b.minFreq /\ \A k \in Cached(b) : freq(e, k) = freq(b, k)
    BY <1>1, <2>1 DEF Exact, Saturated
  <2>2. CASE Matched(b) => Exact(e)
    BY <2>2
  <2>3. QED BY <2>1, <2>2 DEF Counted
<1>6. QED BY <1>1, <1>4, <1>5 DEF Sound

(* A hit: the node moves on by one, and minFreq_ with it when it was the last of the
   least frequent. *)
LEMMA Hit ==
  ASSUME NEW c, Sound(c), c.curTotalNum < MaxTotal, NEW k \in Cached(c),
         NEW e \in getInternal(c, k)
  PROVE  Sound(e) /\ Cached(e) = Cached(c) /\ e.capacity = c.capacity
<1> DEFINE f == freq(c, k)
           d == Move(c, k, f + 1)
           lastLeft == f = c.minFreq /\ d.lists[f] = <<>>
           b == IF lastLeft THEN [d EXCEPT !.minFreq = @ + 1] ELSE d
<1>1. Basic(c) /\ IsCache(c) /\ Matched(c) /\ MaxTotal \in Nat /\ Int8Max \in Nat \ {0}
  BY SliceAssumption DEF Sound, Basic
<1>2. f \in 1..MaxTotal /\ f + 1 \in 1..MaxTotal
  <2>1. f \in 1..MaxTotal /\ f <= Cardinality(Accesses(c))
    BY <1>1, FreqType, FreqBelowSum
  <2>2. Cardinality(Accesses(c)) \in Nat /\ c.curTotalNum \in Nat
        /\ Cardinality(Accesses(c)) <= c.curTotalNum
    BY AccessesFinite DEF Sound, Basic, IsCache
  <2> HIDE DEF f
  <2>3. QED BY <1>1, <2>1, <2>2
<1>3. e \in addFreqNum(b)
  BY DEF getInternal
<1> HIDE DEF f
<1>4. /\ Rest(d) = Rest(c) /\ Cached(d) = Cached(c)
      /\ \A l \in Cached(c) : freq(d, l) = IF l = k THEN f + 1 ELSE freq(c, l)
      /\ DOMAIN d.lists = DOMAIN c.lists \cup {f + 1}
  BY <1>1, <1>2, MoveFields DEF Basic
<1>5. Basic(d) /\ Matched(d)
  BY <1>1, <1>2, MoveKeeps
<1> HIDE DEF d
<1>6. /\ d.minFreq = c.minFreq /\ d.capacity = c.capacity /\ ~d.corrupt
      /\ d.curTotalNum = c.curTotalNum
  BY <1>4 DEF Rest, Sound
<1>7. /\ b.nodeMap = d.nodeMap /\ b.lists = d.lists /\ IsCache(b)
      /\ b.capacity = c.capacity /\ ~b.corrupt /\ b.curTotalNum = c.curTotalNum
      /\ b.minFreq = IF lastLeft THEN f + 1 ELSE c.minFreq
  <2>1. CASE lastLeft
    <3>1. d.minFreq + 1 \in 1..(Int8Max + MaxTotal)
      BY <1>1, <1>2, <1>6, <2>1
    <3>2. b = [d EXCEPT !.minFreq = d.minFreq + 1]
      BY <2>1
    <3>3. IsCache(d)
      BY <1>5 DEF Basic
    <3>4. QED BY <1>6, <2>1, <3>1, <3>2, <3>3 DEF IsCache
  <2>2. CASE ~lastLeft
    BY <1>5, <1>6, <2>2 DEF Basic
  <2>3. QED BY <2>1, <2>2
<1> HIDE DEF b
<1>8. /\ Cached(b) = Cached(c) /\ (\A l : freq(b, l) = freq(d, l))
      /\ (\A l : Listed(b, l) <=> Listed(d, l)) /\ Matched(b)
  BY <1>4, <1>5, <1>7, SameCore
<1>9. Basic(b)
  BY <1>4, <1>5, <1>7, <1>8 DEF Basic
<1>10. Cardinality(Accesses(b)) <= Cardinality(Accesses(c)) + 1
  <2>1. Accesses(b) \subseteq Accesses(c) \cup {<<k, f + 1>>}
    <3> SUFFICES ASSUME NEW a \in Accesses(b), a # <<k, f + 1>>
                 PROVE  a \in Accesses(c)
      OBVIOUS
    <3>1. /\ a \in Cached(c) \X (1..MaxTotal) /\ a[2] <= freq(b, a[1])
          /\ a = <<a[1], a[2]>> /\ a[1] \in Cached(c) /\ a[2] \in Nat
      BY <1>8 DEF Accesses
    <3>2. CASE a[1] = k
      <4>1. a[2] <= f + 1 /\ a[2] # f + 1
        BY <1>4, <1>8, <3>1, <3>2
      <4>2. a[2] <= f
        BY <1>2, <3>1, <4>1
      <4>3. QED BY <3>1, <3>2, <4>2 DEF Accesses, f
    <3>3. CASE a[1] # k
      BY <1>4, <1>8, <3>1, <3>3 DEF Accesses
    <3>4. QED BY <3>2, <3>3
  <2>2. QED BY <1>1, <2>1, MoreAccesses DEF Basic
<1>11. Exact(b)
  <2>1. Exact(c) /\ \A l \in Cached(c) : freq(c, l) \in Nat \ {0}
    BY <1>1, FreqType DEF Sound
  <2>2. \A l \in Cached(c) : freq(b, l) = IF l = k THEN f + 1 ELSE freq(c, l)
    BY <1>4, <1>8
  <2>3. \A l \in Cached(c) : c.minFreq <= freq(c, l)
    BY <2>1 DEF Exact
  <2>4. CASE lastLeft
    <3>1. \A l \in Cached(c) \ {k} : freq(c, l) # f
      <4> SUFFICES ASSUME NEW l \in Cached(c) \ {k}, freq(c, l) = f PROVE FALSE
        OBVIOUS
      <4>1. Listed(d, l) /\ freq(d, l) = f
        BY <1>4, <1>5 DEF Basic
      <4>2. QED BY <2>4, <4>1 DEF Listed
    <3>2. b.minFreq = f + 1 /\ f = c.minFreq
      BY <1>7, <2>4
    <3>3. \A l \in Cached(b) : b.minFreq <= freq(b, l)
      BY <1>2, <1>8, <2>1, <2>2, <2>3, <3>1, <3>2
    <3>4. b.minFreq = freq(b, k)
      BY <2>2, <3>2
    <3>5. QED BY <1>8, <3>3, <3>4 DEF Exact
  <2>5. CASE ~lastLeft
    <3>1. b.minFreq = c.minFreq
      BY <1>7, <2>5
    <3>2. CASE \E l \in Cached(c) : c.minFreq = freq(c, l)
      <4>1. \E l \in Cached(c) : c.minFreq = freq(b, l)
        <5>1. CASE f = c.minFreq
          <6>1. d.lists[f] # <<>>
            BY <2>5, <5>1
          <6>2. f \in DOMAIN d.lists /\ d.lists[f] \in Seq(Keys)
            <7>1. Listed(c, k) /\ IsCache(d)
              BY <1>1, <1>5 DEF Basic
            <7>2. QED BY <1>4, <7>1 DEF Listed, IsCache, f
          <6>3. 1 \in DOMAIN d.lists[f]
            BY <6>1, <6>2
          <6>4. d.lists[f][1] \in Cached(d) /\ freq(d, d.lists[f][1]) = f
            BY <1>5, <6>2, <6>3 DEF Matched
          <6>5. QED BY <1>4, <1>8, <5>1, <6>4
        <5>2. CASE f # c.minFreq
          <6>1. PICK l \in Cached(c) : c.minFreq = freq(c, l)
            BY <3>2
          <6>2. l # k
            BY <5>2, <6>1 DEF f
          <6>3. QED BY <2>2, <6>1, <6>2
        <5>3. QED BY <5>1, <5>2
      <4>2. \A l \in Cached(c) : c.minFreq <= freq(b, l)
        <5> SUFFICES ASSUME NEW l \in Cached(c) PROVE c.minFreq <= freq(b, l)
          OBVIOUS
        <5>1. c.minFreq <= freq(c, l) /\ freq(c, l) \in Nat /\ c.minFreq \in Nat
          BY <1>1, <2>1, <2>3 DEF IsCache
        <5>2. freq(b, l) = freq(c, l) \/ freq(b, l) = freq(c, l) + 1
          BY <2>2 DEF f
        <5>3. QED BY <5>1, <5>2
      <4>3. QED BY <1>8, <3>1, <4>1, <4>2 DEF Exact
    <3>3. CASE c.minFreq = 1 /\ Saturated(c)
      <4>1. \A l \in Cached(c) : freq(b, l) >= Int8Max
        <5> SUFFICES ASSUME NEW l \in Cached(c) PROVE freq(b, l) >= Int8Max
          OBVIOUS
        <5>1. freq(c, l) >= Int8Max /\ freq(c, l) \in Nat
          BY <2>1, <3>3 DEF Saturated
        <5>2. freq(b, l) = freq(c, l) \/ freq(b, l) = freq(c, l) + 1
          BY <2>2 DEF f
        <5>3. QED BY <1>1, <5>1, <5>2
      <4>2. QED BY <1>8, <3>1, <3>3, <4>1 DEF Exact, Saturated
    <3>4. QED BY <2>1, <3>2, <3>3 DEF Exact
  <2>6. QED BY <2>4, <2>5
<1>12. Counted(b, e)
  BY <1>3, <1>7, <1>9, AddFreqNum
<1>13. Cardinality(Accesses(b)) <= b.curTotalNum + 1
  <2>1. /\ Cardinality(Accesses(b)) \in Nat /\ Cardinality(Accesses(c)) \in Nat
        /\ c.curTotalNum \in Nat /\ Cardinality(Accesses(c)) <= c.curTotalNum
    BY <1>1, <1>9, AccessesFinite DEF Sound, Basic, IsCache
  <2>2. QED BY <1>7, <1>10, <2>1
<1>14. 1 \in DOMAIN b.lists /\ Cardinality(Cached(b)) <= b.capacity
  BY <1>4, <1>7, <1>8 DEF Sound
<1>15. QED
  BY <1>7, <1>8, <1>9, <1>11, <1>12, <1>13, <1>14, CountedIsSound

(* Insertion: the new key has count 1, aging included, and it is the minimum. *)
LEMMA Inserted ==
  ASSUME NEW d, Basic(d), d.curTotalNum < MaxTotal, NEW k \in Keys \ Cached(d),
         NEW v \in Values, NEW e \in Insert(d, k, v)
  PROVE  /\ Basic(e) /\ Cached(e) = Cached(d) \cup {k}
         /\ e.corrupt = d.corrupt /\ e.capacity = d.capacity /\ 1 \in DOMAIN e.lists
         /\ e.curTotalNum = d.curTotalNum + 1
         /\ Cardinality(Accesses(e)) <= Cardinality(Accesses(d)) + 1
         /\ Matched(d) => Matched(e) /\ Exact(e)
<1> DEFINE N == [l \in Cached(d) \cup {k} |->
                   IF l = k THEN [value |-> v, freq |-> 1] ELSE d.nodeMap[l]]
           old == IF 1 \in DOMAIN d.lists THEN d.lists[1] ELSE <<>>
           L == [g \in DOMAIN d.lists \cup {1} |->
                   IF g = 1 THEN Append(old, k) ELSE d.lists[g]]
           n == [d EXCEPT !.nodeMap = N]
           b == addToFreqList(n, k)
<1>1. /\ IsCache(d) /\ IsFiniteSet(Cached(d)) /\ MaxTotal \in Nat /\ 1 \in 1..MaxTotal
      /\ Int8Max \in Nat \ {0}
  BY SliceAssumption DEF Basic, IsCache
<1>2. /\ d.nodeMap \in [DOMAIN d.nodeMap -> Node] /\ Cached(d) = DOMAIN d.nodeMap
      /\ d.lists \in [DOMAIN d.lists -> Seq(Keys)] /\ DOMAIN d.lists \subseteq 1..MaxTotal
      /\ Cached(d) \subseteq Keys
  BY <1>1 DEF IsCache, Cached
<1>3. N \in [Cached(d) \cup {k} -> Node]
  BY <1>1, <1>2 DEF Node
<1>4. old \in Seq(Keys) /\ Append(old, k) \in Seq(Keys)
  BY <1>2
<1>5. /\ DOMAIN Append(old, k) = 1..(Len(old) + 1) /\ Append(old, k)[Len(old) + 1] = k
      /\ \A i \in 1..Len(old) : Append(old, k)[i] = old[i]
      /\ DOMAIN old = 1..Len(old) /\ Len(old) \in Nat
  BY <1>4
<1> HIDE DEF old
<1>6. L \in [DOMAIN d.lists \cup {1} -> Seq(Keys)]
  BY <1>2, <1>4
<1>7. N[k].freq = 1 /\ \A l \in Cached(d) : N[l] = d.nodeMap[l]
  OBVIOUS
<1>8. b = [d EXCEPT !.nodeMap = N, !.lists = L]
  <2>1. n.nodeMap = N /\ n.lists = d.lists
    BY <1>1 DEF IsCache
  <2>2. freq(n, k) = 1
    BY <1>7, <2>1 DEF freq
  <2> HIDE DEF n, N
  <2>3. b = [n EXCEPT !.lists = L]
    BY <2>1, <2>2 DEF addToFreqList, old
  <2>4. QED BY <1>1, <2>3 DEF n, IsCache
<1>9. Insert(d, k, v) = {[x EXCEPT !.minFreq = Least(@, 1)] : x \in addFreqNum(b)}
  BY DEF Insert
<1> HIDE DEF N, L, b
<1>10. /\ b.nodeMap = N /\ b.lists = L /\ b.capacity = d.capacity
       /\ b.corrupt = d.corrupt /\ b.curTotalNum = d.curTotalNum
       /\ IsCache(b)
  BY <1>1, <1>2, <1>3, <1>6, <1>8 DEF IsCache
<1>11. /\ Cached(b) = Cached(d) \cup {k} /\ freq(b, k) = 1
       /\ \A l \in Cached(d) : freq(b, l) = freq(d, l)
  BY <1>3, <1>7, <1>10 DEF Cached, freq
<1>12. /\ DOMAIN b.lists = DOMAIN d.lists \cup {1} /\ b.lists[1] = Append(old, k)
       /\ \A g \in DOMAIN d.lists \ {1} : b.lists[g] = d.lists[g]
  BY <1>10 DEF L
<1>13. IsFiniteSet(Cached(b))
  BY <1>1, <1>11, FS_AddElement
<1>14. ASSUME NEW l \in Cached(b) PROVE Listed(b, l)
  <2>1. CASE l = k
    <3>1. Len(old) + 1 \in DOMAIN b.lists[1] /\ b.lists[1][Len(old) + 1] = k
      BY <1>5, <1>12
    <3>2. QED BY <1>11, <1>12, <2>1, <3>1 DEF Listed
  <2>2. CASE l # k
    <3>1. l \in Cached(d) /\ freq(b, l) = freq(d, l) /\ Listed(d, l)
      BY <1>11, <1>14, <2>2 DEF Basic
    <3>2. freq(d, l) \in DOMAIN d.lists
      BY <3>1 DEF Listed
    <3>3. PICK i \in DOMAIN d.lists[freq(d, l)] : d.lists[freq(d, l)][i] = l
      BY <3>1 DEF Listed
    <3>4. CASE freq(d, l) = 1
      <4>1. old = d.lists[1]
        BY <3>2, <3>4 DEF old
      <4>2. i \in DOMAIN b.lists[1] /\ b.lists[1][i] = l
        BY <1>5, <1>12, <3>3, <3>4, <4>1
      <4>3. QED BY <1>12, <3>1, <3>4, <4>2 DEF Listed
    <3>5. CASE freq(d, l) # 1
      BY <1>12, <3>1, <3>2, <3>3, <3>5 DEF Listed
    <3>6. QED BY <3>4, <3>5
  <2>3. QED BY <2>1, <2>2
<1>15. Basic(b)
  BY <1>10, <1>13, <1>14 DEF Basic
<1>16. ASSUME Matched(d) PROVE Matched(b)
  <2> SUFFICES ASSUME NEW g \in DOMAIN b.lists
               PROVE  /\ \A i \in DOMAIN b.lists[g] :
                           b.lists[g][i] \in Cached(b) /\ freq(b, b.lists[g][i]) = g
                      /\ IsInjective(b.lists[g])
    BY DEF Matched
  <2>1. CASE g # 1
    <3>1. g \in DOMAIN d.lists /\ b.lists[g] = d.lists[g]
      BY <1>12, <2>1
    <3>2. /\ IsInjective(d.lists[g])
          /\ \A i \in DOMAIN d.lists[g] :
               d.lists[g][i] \in Cached(d) /\ freq(d, d.lists[g][i]) = g
      BY <1>16, <3>1 DEF Matched
    <3>3. QED BY <1>11, <3>1, <3>2
  <2>2. CASE g = 1
    <3>1. /\ \A i \in 1..Len(old) : old[i] \in Cached(d) /\ freq(d, old[i]) = 1
          /\ \A i, j \in 1..Len(old) : old[i] = old[j] => i = j
      <4>1. CASE 1 \in DOMAIN d.lists
        <5>1. old = d.lists[1]
          BY <4>1 DEF old
        <5>2. QED BY <1>5, <1>16, <4>1, <5>1 DEF Matched, IsInjective
      <4>2. CASE 1 \notin DOMAIN d.lists
        <5>1. old = <<>> /\ Len(<<>>) = 0
          BY <4>2 DEF old
        <5>2. 1..Len(old) = {}
          BY <5>1
        <5>3. QED BY <5>2
      <4>3. QED BY <4>1, <4>2
    <3> DEFINE s == b.lists[1]
    <3>2. /\ DOMAIN s = 1..(Len(old) + 1) /\ s[Len(old) + 1] = k
          /\ \A i \in 1..Len(old) : s[i] = old[i]
      BY <1>5, <1>12
    <3> HIDE DEF s
    <3>3. \A i \in 1..Len(old) : s[i] \in Cached(d) /\ s[i] # k /\ freq(d, s[i]) = 1
      BY <3>1, <3>2
    <3>4. ASSUME NEW i \in DOMAIN s PROVE s[i] \in Cached(b) /\ freq(b, s[i]) = 1
      <4>1. i \in 1..Len(old) \/ i = Len(old) + 1
        BY <1>5, <3>2
      <4>2. QED BY <1>11, <3>2, <3>3, <4>1
    <3>5. ASSUME NEW i \in DOMAIN s, NEW j \in DOMAIN s, s[i] = s[j] PROVE i = j
      <4>1. /\ i \in 1..Len(old) \/ i = Len(old) + 1
            /\ j \in 1..Len(old) \/ j = Len(old) + 1
        BY <1>5, <3>2
      <4>2. QED BY <3>1, <3>2, <3>3, <3>5, <4>1
    <3>6. QED BY <2>2, <3>4, <3>5 DEF s, IsInjective
  <2>3. QED BY <2>1, <2>2
<1>17. PICK x \in addFreqNum(b) : e = [x EXCEPT !.minFreq = Least(@, 1)]
  BY <1>9
<1>18. Counted(b, x)
  BY <1>10, <1>15, AddFreqNum
<1>19. /\ Basic(x) /\ IsCache(x) /\ x.curTotalNum = d.curTotalNum + 1
       /\ x.corrupt = d.corrupt /\ x.capacity = d.capacity
       /\ Cached(x) = Cached(b) /\ 1 \in DOMAIN x.lists
  BY <1>10, <1>12, <1>18 DEF Counted, Basic
<1>20. x.minFreq \in 1..(Int8Max + MaxTotal)
  BY <1>19 DEF IsCache
<1>21. Least(x.minFreq, 1) = 1
  BY <1>1, <1>20 DEF Least
<1>22. e = [x EXCEPT !.minFreq = 1]
  BY <1>17, <1>19, <1>21 DEF IsCache
<1>23. /\ e.nodeMap = x.nodeMap /\ e.lists = x.lists /\ e.minFreq = 1
       /\ e.corrupt = x.corrupt /\ e.capacity = x.capacity
       /\ e.curTotalNum = x.curTotalNum /\ IsCache(e)
  <2>1. 1 \in 1..(Int8Max + MaxTotal)
    BY <1>1
  <2>2. QED BY <1>19, <1>22, <2>1 DEF IsCache
<1>24. /\ Cached(e) = Cached(x) /\ (\A l : freq(e, l) = freq(x, l))
       /\ (\A l : Listed(e, l) <=> Listed(x, l)) /\ (Matched(e) <=> Matched(x))
  BY <1>23, SameCore
<1>25. Basic(e)
  BY <1>19, <1>23, <1>24 DEF Basic
<1>26. Exact(e)
  <2>1. \A l \in Cached(e) : freq(e, l) \in Nat \ {0}
    BY <1>23, FreqType
  <2>2. k \in Cached(e) /\ freq(e, k) <= 1
    BY <1>11, <1>18, <1>19, <1>24 DEF Counted
  <2>3. freq(e, k) = 1
    BY <2>1, <2>2
  <2>4. QED BY <1>23, <2>1, <2>2, <2>3 DEF Exact
<1>27. Cardinality(Accesses(e)) <= Cardinality(Accesses(d)) + 1
  <2>1. Cardinality(Accesses(e)) <= Cardinality(Accesses(b))
    BY <1>15, <1>18, <1>19, <1>24, <1>25, LoweredAccesses DEF Counted
  <2>2. Accesses(b) \subseteq Accesses(d) \cup {<<k, 1>>}
    <3> SUFFICES ASSUME NEW a \in Accesses(b), a # <<k, 1>> PROVE a \in Accesses(d)
      OBVIOUS
    <3>1. /\ a \in (Cached(d) \cup {k}) \X (1..MaxTotal) /\ a[2] <= freq(b, a[1])
          /\ a = <<a[1], a[2]>> /\ a[1] \in Cached(d) \cup {k} /\ a[2] \in 1..MaxTotal
      BY <1>11 DEF Accesses
    <3>2. a[1] # k
      BY <1>1, <1>11, <3>1
    <3>3. QED BY <1>11, <3>1, <3>2 DEF Accesses
  <2>3. Cardinality(Accesses(b)) <= Cardinality(Accesses(d)) + 1
    BY <1>1, <2>2, MoreAccesses
  <2>4. /\ Cardinality(Accesses(b)) \in Nat /\ Cardinality(Accesses(d)) \in Nat
        /\ Cardinality(Accesses(e)) \in Nat
    BY <1>15, <1>25, AccessesFinite DEF Basic
  <2>5. QED BY <2>1, <2>3, <2>4
<1>28. Matched(d) => Matched(e)
  BY <1>16, <1>18, <1>24 DEF Counted
<1>29. QED
  BY <1>11, <1>19, <1>23, <1>24, <1>25, <1>26, <1>27, <1>28

(* decreaseFreqNum changes two numbers. *)
LEMMA Decreased ==
  ASSUME NEW c, IsCache(c), IsFiniteSet(Cached(c)), NEW num \in 0..c.curTotalNum
  PROVE  LET d == decreaseFreqNum(c, num)
         IN  /\ IsCache(d) /\ d.nodeMap = c.nodeMap /\ d.lists = c.lists
             /\ d.minFreq = c.minFreq
             /\ d.capacity = c.capacity /\ d.corrupt = c.corrupt
             /\ d.curTotalNum = c.curTotalNum - num
<1> DEFINE t == c.curTotalNum - num
           a == Average(c, t)
<1>1. t \in 0..MaxTotal
  BY SliceAssumption DEF IsCache
<1>2. a \in 0..MaxTotal
  BY <1>1, AverageType
<1>3. decreaseFreqNum(c, num) = [c EXCEPT !.curTotalNum = t, !.curAverageNum = a]
  BY DEF decreaseFreqNum, IsCache
<1> HIDE DEF t, a
<1>4. QED BY <1>1, <1>2, <1>3 DEF IsCache, t

(* A shorter map and other lists, still typed, make a cache. *)
CanShrink(c, K, L) ==
  IsCache(c) /\ K \in SUBSET Cached(c) /\ L \in [DOMAIN c.lists -> Seq(Keys)]
Shrunk(c, K, L) == [c EXCEPT !.nodeMap = [l \in K |-> c.nodeMap[l]], !.lists = L]

LEMMA Erased ==
  ASSUME NEW c, NEW K, NEW L, CanShrink(c, K, L)
  PROVE  LET d == Shrunk(c, K, L)
         IN  /\ IsCache(d) /\ d.lists = L /\ d.corrupt = c.corrupt
             /\ d.minFreq = c.minFreq /\ d.capacity = c.capacity
             /\ d.curTotalNum = c.curTotalNum
             /\ Cached(d) = K /\ \A l \in K : freq(d, l) = freq(c, l)
<1> DEFINE N == [l \in K |-> c.nodeMap[l]]
           d == Shrunk(c, K, L)
<1> USE DEF CanShrink
<1>0. d = [c EXCEPT !.nodeMap = N, !.lists = L]
  BY DEF Shrunk
<1> HIDE DEF d
<1>1. N \in [K -> Node] /\ K \subseteq Keys
  BY DEF IsCache, Cached
<1> HIDE DEF N
<1>2. /\ IsCache(d) /\ d.nodeMap = N /\ d.lists = L /\ d.corrupt = c.corrupt
      /\ d.minFreq = c.minFreq /\ d.capacity = c.capacity
      /\ d.curTotalNum = c.curTotalNum
  BY <1>0, <1>1 DEF IsCache
<1>3. Cached(d) = K /\ \A l \in K : freq(d, l) = freq(c, l)
  BY <1>1, <1>2 DEF Cached, freq, N
<1>4. QED BY <1>2, <1>3 DEF d

(* kickOut takes the least frequent key, and of these the first in its list. *)
Kicked(c, d, k) ==
  /\ Basic(d) /\ Matched(d) /\ ~d.corrupt /\ d.capacity = c.capacity
  /\ d.curTotalNum <= c.curTotalNum
  /\ Cached(d) = Cached(c) \ {k}
  /\ Cardinality(Accesses(d)) <= d.curTotalNum
  /\ \A l \in Cached(c) : freq(c, k) <= freq(c, l)
  /\ Head(c.lists[freq(c, k)]) = k

(* From the empty list that INT8_MAX leads to it erases some key or none. *)
Wrecked(c, d) ==
  /\ Basic(d) /\ d.corrupt /\ Saturated(c) /\ d.capacity = c.capacity
  /\ d.curTotalNum <= c.curTotalNum
  /\ Cached(d) \subseteq Cached(c)

LEMMA KickOut ==
  ASSUME NEW c, Sound(c), Cached(c) # {}, NEW d \in kickOut(c)
  PROVE  (\E k \in Cached(c) : Kicked(c, d, k)) \/ Wrecked(c, d)
<1> DEFINE list == c.lists[c.minFreq]
           k == Head(list)
<1>1. /\ Basic(c) /\ IsCache(c) /\ Matched(c) /\ IsFiniteSet(Cached(c)) /\ ~c.corrupt
      /\ c.corrupt \in BOOLEAN /\ c.lists \in [DOMAIN c.lists -> Seq(Keys)]
      /\ c.curTotalNum \in Nat /\ Exact(c) /\ 1 \in DOMAIN c.lists
      /\ Cardinality(Accesses(c)) <= c.curTotalNum
      /\ \A l \in Cached(c) : Listed(c, l)
  BY DEF Sound, Basic, IsCache
<1>2. \A l \in Cached(c) : freq(c, l) \in Nat \ {0} /\ freq(c, l) <= c.curTotalNum
  <2>1. \A l \in Cached(c) : freq(c, l) \in 1..MaxTotal /\ freq(c, l) <= Cardinality(Accesses(c))
    BY <1>1, FreqType, FreqBelowSum
  <2>2. Cardinality(Accesses(c)) \in Nat
    BY <1>1, AccessesFinite
  <2>3. QED BY <1>1, <2>1, <2>2
<1>3. c.minFreq \in DOMAIN c.lists /\ list \in Seq(Keys)
  <2>1. CASE \E l \in Cached(c) : c.minFreq = freq(c, l)
    BY <1>1, <2>1 DEF Listed
  <2>2. CASE c.minFreq = 1
    BY <1>1, <2>2
  <2>3. QED BY <1>1, <2>1, <2>2 DEF Exact
<1>4. \A l \in Cached(c) : c.minFreq <= freq(c, l)
  BY <1>1, <1>2 DEF Exact
<1>5. CASE list # <<>>
  <2>1. 1 \in DOMAIN list /\ k = list[1]
    BY <1>3, <1>5
  <2>2. k \in Cached(c) /\ freq(c, k) = c.minFreq
    BY <1>1, <1>3, <2>1 DEF Matched
  <2>3. d = decreaseFreqNum(Erase(removeFromFreqList(c, k), k), freq(c, k))
    BY <1>5 DEF kickOut
  <2> HIDE DEF list, k
  <2> DEFINE f == freq(c, k)
             L == [c.lists EXCEPT ![f] = removeNode(c.lists[f], k)]
             K == Cached(c) \ {k}
             e == Shrunk(c, K, L)
  <2>4. L \in [DOMAIN c.lists -> Seq(Keys)] /\ \A h \in DOMAIN c.lists : L[h] = Left(c, k, h)
    <3>1. \A h \in DOMAIN c.lists : L[h] = Left(c, k, h)
      BY <1>1 DEF Left
    <3>2. \A h : Left(c, k, h) \in Seq(Keys)
      BY <1>1, <2>2, LeftElements
    <3>3. L = [h \in DOMAIN c.lists |-> L[h]]
      BY <1>1
    <3>4. QED BY <3>1, <3>2, <3>3
  <2>5. Erase(removeFromFreqList(c, k), k) = e
    <3>1. removeFromFreqList(c, k) = [c EXCEPT !.lists = L]
      BY <1>1 DEF removeFromFreqList, IsCache
    <3> HIDE DEF L
    <3>2. [c EXCEPT !.lists = L].nodeMap = c.nodeMap
      BY <1>1 DEF IsCache
    <3>3. Erase([c EXCEPT !.lists = L], k)
            = [c EXCEPT !.lists = L, !.nodeMap = [l \in K |-> c.nodeMap[l]]]
      BY <1>1, <3>2 DEF Erase, Cached
    <3> DEFINE N == [l \in K |-> c.nodeMap[l]]
    <3> HIDE DEF N
    <3>4. [c EXCEPT !.lists = L, !.nodeMap = N] = [c EXCEPT !.nodeMap = N, !.lists = L]
      BY <1>1 DEF IsCache
    <3>5. QED BY <3>1, <3>3, <3>4 DEF N, Shrunk
  <2>6. /\ IsCache(e) /\ e.lists = L /\ ~e.corrupt /\ e.capacity = c.capacity
        /\ e.curTotalNum = c.curTotalNum /\ e.minFreq = c.minFreq
        /\ Cached(e) = K /\ \A l \in K : freq(e, l) = freq(c, l)
    <3> HIDE DEF L, K, f
    <3>1. K \in SUBSET Cached(c)
      BY DEF K
    <3>2. IsCache(c) /\ L \in [DOMAIN c.lists -> Seq(Keys)]
      BY <1>1, <2>4
    <3>3. CanShrink(c, K, L)
      BY <3>1, <3>2 DEF CanShrink
    <3>4. QED BY <1>1, <3>3, Erased
  <2> HIDE DEF L, e
  <2>7. IsFiniteSet(K)
    BY <1>1, FS_RemoveElement
  <2>8. f \in 0..e.curTotalNum
    BY <1>1, <1>2, <2>2, <2>6
  <2>9. /\ IsCache(d) /\ d.nodeMap = e.nodeMap /\ d.lists = L /\ d.capacity = c.capacity
        /\ ~d.corrupt /\ d.curTotalNum = c.curTotalNum - f
    BY <2>3, <2>5, <2>6, <2>7, <2>8, Decreased
  <2>10. Cached(d) = K /\ \A l \in K : freq(d, l) = freq(c, l)
    BY <2>6, <2>9, SameCore
  <2>11. DOMAIN d.lists = DOMAIN c.lists /\ \A h \in DOMAIN c.lists : d.lists[h] = Left(c, k, h)
    BY <2>4, <2>9
  <2>12. ASSUME NEW l \in Cached(d) PROVE Listed(d, l)
    <3>1. l \in Cached(c) \ {k} /\ freq(d, l) = freq(c, l) /\ Listed(c, l)
      BY <1>1, <2>10
    <3>2. freq(c, l) \in DOMAIN c.lists
      BY <3>1 DEF Listed
    <3>3. \E i \in DOMAIN Left(c, k, freq(c, l)) : Left(c, k, freq(c, l))[i] = l
      <4>1. \A h : \A m \in Cached(c) \ {k} :
              freq(c, m) = h => \E i \in DOMAIN Left(c, k, h) : Left(c, k, h)[i] = m
        <5> SUFFICES ASSUME NEW h
                     PROVE  \A m \in Cached(c) \ {k} : freq(c, m) = h =>
                              \E i \in DOMAIN Left(c, k, h) : Left(c, k, h)[i] = m
          OBVIOUS
        <5>1. Basic(c) /\ k \in Cached(c)
          BY <1>1, <2>2
        <5>2. QED BY <5>1, LeftElements
      <4>2. QED BY <3>1, <4>1, Zenon
    <3>4. QED BY <2>11, <3>1, <3>2, <3>3 DEF Listed
  <2>13. Basic(d)
    BY <2>7, <2>9, <2>10, <2>12 DEF Basic
  <2>14. Matched(d)
    <3> SUFFICES ASSUME NEW h \in DOMAIN d.lists
                 PROVE  /\ \A i \in DOMAIN d.lists[h] :
                             d.lists[h][i] \in Cached(d) /\ freq(d, d.lists[h][i]) = h
                        /\ IsInjective(d.lists[h])
      BY DEF Matched
    <3>1. /\ IsInjective(Left(c, k, h))
          /\ \A i \in DOMAIN Left(c, k, h) :
               LET l == Left(c, k, h)[i]
               IN  l \in Cached(c) /\ l # k /\ freq(c, l) = h
      BY <1>1, <2>2, LeftElements
    <3>2. QED BY <2>10, <2>11, <3>1
  <2>15. Cardinality(Accesses(d)) = Cardinality(Accesses(c)) - f
    BY <1>1, <2>2, <2>10, ErasedAccesses
  <2>16. Cardinality(Accesses(d)) <= d.curTotalNum /\ d.curTotalNum <= c.curTotalNum
    <3>1. Cardinality(Accesses(c)) \in Nat /\ f \in Nat
      BY <1>1, <1>2, <2>2, AccessesFinite
    <3> HIDE DEF f
    <3>2. QED BY <1>1, <2>9, <2>15, <3>1
  <2>17. Head(c.lists[freq(c, k)]) = k
    BY <2>2 DEF k, list
  <2>18. Kicked(c, d, k)
    BY <1>4, <2>2, <2>9, <2>10, <2>13, <2>14, <2>16, <2>17 DEF Kicked
  <2>19. QED BY <2>2, <2>18
<1>6. CASE list = <<>>
  <2>1. Saturated(c)
    <3> SUFFICES ASSUME NEW l \in Cached(c), c.minFreq = freq(c, l) PROVE FALSE
      BY <1>1 DEF Exact
    <3>1. Listed(c, l)
      BY <1>1
    <3>2. QED BY <1>6, <3>1 DEF Listed
  <2>2. 1 \in 0..c.curTotalNum
    BY <1>1, <1>2
  <2> HIDE DEF list, k
  <2>3. PICK e \in {[Erase(c, l) EXCEPT !.corrupt = TRUE] : l \in Keys}
                     \cup {[c EXCEPT !.corrupt = TRUE]} : d = decreaseFreqNum(e, 1)
    BY <1>6 DEF kickOut, list, k
  <2>4. \E K \in SUBSET Cached(c) : e = [Shrunk(c, K, c.lists) EXCEPT !.corrupt = TRUE]
    <3>1. CASE e = [c EXCEPT !.corrupt = TRUE]
      <4>1. c.nodeMap = [l \in Cached(c) |-> c.nodeMap[l]]
        BY <1>1 DEF IsCache, Cached
      <4> DEFINE N == [l \in Cached(c) |-> c.nodeMap[l]]
      <4>2. c = [c EXCEPT !.nodeMap = N, !.lists = c.lists]
        <5> HIDE DEF N
        <5>1. QED BY <1>1, <4>1 DEF IsCache, N
      <4>3. e = [Shrunk(c, Cached(c), c.lists) EXCEPT !.corrupt = TRUE]
        BY <3>1, <4>2 DEF Shrunk
      <4>4. QED BY <4>3
    <3>2. ASSUME NEW l \in Keys, e = [Erase(c, l) EXCEPT !.corrupt = TRUE]
          PROVE  \E K \in SUBSET Cached(c) :
                   e = [Shrunk(c, K, c.lists) EXCEPT !.corrupt = TRUE]
      <4> DEFINE N == [m \in Cached(c) \ {l} |-> c.nodeMap[m]]
      <4>1. Erase(c, l) = [c EXCEPT !.nodeMap = N]
        BY DEF Erase
      <4>2. Erase(c, l) = [c EXCEPT !.nodeMap = N, !.lists = c.lists]
        <5> HIDE DEF N
        <5>1. QED BY <1>1, <4>1 DEF IsCache
      <4>3. e = [Shrunk(c, Cached(c) \ {l}, c.lists) EXCEPT !.corrupt = TRUE]
        BY <3>2, <4>2 DEF Shrunk
      <4>4. QED BY <4>3
    <3>3. QED BY <2>3, <3>1, <3>2
  <2>5. PICK K \in SUBSET Cached(c) : e = [Shrunk(c, K, c.lists) EXCEPT !.corrupt = TRUE]
    BY <2>4
  <2> DEFINE s == Shrunk(c, K, c.lists)
  <2>6. /\ IsCache(e) /\ e.lists = c.lists /\ e.corrupt /\ e.capacity = c.capacity
        /\ e.curTotalNum = c.curTotalNum
        /\ Cached(e) = K /\ \A l \in K : freq(e, l) = freq(c, l)
    <3>1. CanShrink(c, K, c.lists)
      BY <1>1 DEF CanShrink
    <3>2. /\ IsCache(s) /\ s.lists = c.lists /\ s.capacity = c.capacity
          /\ s.curTotalNum = c.curTotalNum
          /\ Cached(s) = K /\ \A l \in K : freq(s, l) = freq(c, l)
      BY <3>1, Erased
    <3> HIDE DEF s
    <3>3. e = [s EXCEPT !.corrupt = TRUE]
      BY <2>5 DEF s
    <3>4. /\ IsCache(e) /\ e.nodeMap = s.nodeMap /\ e.lists = s.lists /\ e.corrupt
          /\ e.capacity = s.capacity /\ e.curTotalNum = s.curTotalNum
      BY <3>2, <3>3 DEF IsCache
    <3>5. QED BY <3>2, <3>4, SameCore
  <2>7. IsFiniteSet(K)
    BY <1>1, FS_Subset
  <2>8. /\ IsCache(d) /\ d.nodeMap = e.nodeMap /\ d.lists = c.lists
        /\ d.capacity = c.capacity /\ d.corrupt /\ d.curTotalNum = c.curTotalNum - 1
    BY <2>2, <2>3, <2>6, <2>7, Decreased
  <2>9. Cached(d) = K /\ \A l \in K : freq(d, l) = freq(c, l)
    BY <2>6, <2>8, SameCore
  <2>10. \A l \in K : Listed(d, l)
    BY <1>1, <2>8, <2>9 DEF Listed
  <2>11. Basic(d)
    BY <2>7, <2>8, <2>9, <2>10 DEF Basic
  <2>12. d.curTotalNum <= c.curTotalNum
    BY <1>1, <2>8
  <2>13. Wrecked(c, d)
    BY <2>1, <2>8, <2>9, <2>11, <2>12 DEF Wrecked
  <2>14. QED BY <2>13
<1>7. QED BY <1>5, <1>6

(* What a put or get of a sound cache leads to. *)
Serves(c, e) == Good(e) /\ EvictsLeast(c, e) /\ e.capacity = c.capacity

LEMMA HitServes ==
  ASSUME NEW c, Sound(c), c.curTotalNum < MaxTotal, NEW k \in Cached(c),
         NEW e \in getInternal(c, k)
  PROVE  Serves(c, e) /\ Cached(e) = Cached(c)
<1>1. Sound(e) /\ Cached(e) = Cached(c) /\ e.capacity = c.capacity
  BY Hit
<1>2. Good(e)
  BY <1>1, GoodIsSound DEF Sound
<1>3. EvictsLeast(c, e)
  BY <1>1 DEF EvictsLeast, Evicted, Sound
<1>4. QED BY <1>1, <1>2, <1>3 DEF Serves

(* put of a key that is cached sets its value first. *)
LEMMA ValueSet ==
  ASSUME NEW c, Sound(c), NEW k \in Cached(c), NEW v \in Values
  PROVE  LET d == [c EXCEPT !.nodeMap[k].value = v]
         IN  /\ Sound(d) /\ Cached(d) = Cached(c) /\ d.lists = c.lists
             /\ (\A l \in Cached(c) : freq(d, l) = freq(c, l))
             /\ d.capacity = c.capacity /\ d.curTotalNum = c.curTotalNum
<1> DEFINE N == [c.nodeMap EXCEPT ![k].value = v]
           d == [c EXCEPT !.nodeMap = N]
<1>1. IsCache(c) /\ Basic(c) /\ k \in DOMAIN c.nodeMap
      /\ c.nodeMap \in [DOMAIN c.nodeMap -> Node]
  BY DEF Sound, Basic, IsCache, Cached
<1>2. N \in [DOMAIN c.nodeMap -> Node]
  BY <1>1 DEF Node
<1>3. \A l \in DOMAIN c.nodeMap : N[l].freq = c.nodeMap[l].freq
  BY <1>1 DEF Node
<1>4. [c EXCEPT !.nodeMap[k].value = v] = d
  BY <1>1 DEF IsCache
<1> HIDE DEF N
<1>5. /\ IsCache(d) /\ d.nodeMap = N /\ d.lists = c.lists /\ d.minFreq = c.minFreq
      /\ d.capacity = c.capacity /\ d.curTotalNum = c.curTotalNum
      /\ d.corrupt = c.corrupt
  BY <1>1, <1>2 DEF IsCache
<1> HIDE DEF d
<1>6. Cached(d) = Cached(c) /\ \A l \in Cached(c) : freq(d, l) = freq(c, l)
  BY <1>2, <1>3, <1>5 DEF Cached, freq
<1>7. /\ \A l \in Cached(c) : Listed(d, l) <=> Listed(c, l)
      /\ Matched(d) <=> Matched(c)
  BY <1>5, <1>6, SameCounts
<1>8. Basic(d)
  BY <1>1, <1>5, <1>6, <1>7 DEF Basic
<1>9. Exact(c) => Exact(d)
  BY <1>5, <1>6 DEF Exact, Saturated
<1>10. Accesses(d) = Accesses(c)
  <2>1. \A a \in Cached(c) \X (1..MaxTotal) : freq(d, a[1]) = freq(c, a[1])
    BY <1>6
  <2>2. QED BY <1>6, <2>1 DEF Accesses
<1>11. Sound(d)
  BY <1>5, <1>6, <1>7, <1>8, <1>9, <1>10 DEF Sound
<1>12. QED BY <1>4, <1>5, <1>6, <1>11

(* put of a new key into a cache that has room, or that evicts first. *)
LEMMA Miss ==
  ASSUME NEW c, Sound(c), c.curTotalNum < MaxTotal, c.capacity # 0,
         NEW k \in Keys \ Cached(c), NEW v \in Values, NEW e \in putInternal(c, k, v)
  PROVE  Serves(c, e)
<1>1. /\ Basic(c) /\ Matched(c) /\ IsFiniteSet(Cached(c)) /\ IsCache(c) /\ ~c.corrupt
      /\ Cardinality(Cached(c)) \in Nat /\ c.capacity \in Nat /\ c.curTotalNum \in 0..MaxTotal
      /\ Cardinality(Cached(c)) <= c.capacity /\ Cardinality(Accesses(c)) <= c.curTotalNum
  BY FS_CardinalityType DEF Sound, Basic, IsCache
<1>2. ASSUME NEW d, Basic(d), Matched(d), ~d.corrupt, d.capacity = c.capacity,
             d.curTotalNum <= c.curTotalNum, Cached(d) \subseteq Cached(c),
             Cardinality(Cached(d)) < c.capacity,
             Cardinality(Accesses(d)) <= d.curTotalNum, e \in Insert(d, k, v)
      PROVE  Good(e) /\ ~e.corrupt /\ e.capacity = c.capacity
             /\ Cached(e) = Cached(d) \cup {k}
  <2>1. d.curTotalNum \in 0..MaxTotal /\ IsFiniteSet(Cached(d))
    BY <1>2 DEF Basic, IsCache
  <2>2. d.curTotalNum < MaxTotal /\ k \in Keys \ Cached(d)
    BY <1>1, <1>2, <2>1, SliceAssumption
  <2>3. /\ Basic(e) /\ Cached(e) = Cached(d) \cup {k}
        /\ e.corrupt = d.corrupt /\ e.capacity = d.capacity /\ 1 \in DOMAIN e.lists
        /\ e.curTotalNum = d.curTotalNum + 1
        /\ Cardinality(Accesses(e)) <= Cardinality(Accesses(d)) + 1
        /\ Matched(e) /\ Exact(e)
    BY <1>2, <2>2, Inserted
  <2>4. Cardinality(Cached(e)) <= e.capacity
    <3>1. Cardinality(Cached(d)) \in Nat
      BY <2>1, FS_CardinalityType
    <3>2. Cardinality(Cached(e)) = Cardinality(Cached(d)) + 1
      BY <2>1, <2>2, <2>3, FS_AddElement
    <3>3. QED BY <1>1, <1>2, <2>3, <3>1, <3>2
  <2>5. Cardinality(Accesses(e)) <= e.curTotalNum
    <3>1. /\ Cardinality(Accesses(d)) \in Nat /\ Cardinality(Accesses(e)) \in Nat
      BY <2>1, <2>3, AccessesFinite DEF Basic
    <3>2. QED BY <1>2, <2>1, <2>3, <3>1
  <2>6. Sound(e)
    BY <1>2, <2>3, <2>4, <2>5 DEF Sound
  <2>7. QED BY <1>2, <2>3, <2>6, GoodIsSound
<1>3. CASE ~IsFull(c)
  <2>1. e \in Insert(c, k, v)
    BY <1>3 DEF putInternal
  <2>2. Cardinality(Cached(c)) < c.capacity
    BY <1>1, <1>3 DEF IsFull
  <2>3. Good(e) /\ ~e.corrupt /\ e.capacity = c.capacity /\ Cached(e) = Cached(c) \cup {k}
    <3>1. c.curTotalNum <= c.curTotalNum
      BY <1>1
    <3>2. QED BY <1>1, <1>2, <2>1, <2>2, <3>1
  <2>4. EvictsLeast(c, e)
    BY <2>3 DEF EvictsLeast, Evicted
  <2>5. QED BY <2>3, <2>4 DEF Serves
<1>4. CASE IsFull(c)
  <2>1. PICK d \in kickOut(c) : e \in Insert(d, k, v)
    BY <1>4 DEF putInternal
  <2>2. Cardinality(Cached(c)) = c.capacity /\ Cached(c) # {}
    BY <1>4, FS_EmptySet DEF IsFull
  <2>3. ASSUME NEW m \in Cached(c), Kicked(c, d, m) PROVE Serves(c, e)
    <3>1. Cardinality(Cached(d)) < c.capacity /\ Cached(d) = Cached(c) \ {m}
      <4>1. Cached(d) = Cached(c) \ {m}
        BY <2>3 DEF Kicked
      <4>2. Cardinality(Cached(d)) = Cardinality(Cached(c)) - 1
        BY <1>1, <4>1, FS_RemoveElement
      <4>3. QED BY <1>1, <2>2, <4>1, <4>2
    <3>2. /\ Basic(d) /\ Matched(d) /\ ~d.corrupt /\ d.capacity = c.capacity
          /\ d.curTotalNum <= c.curTotalNum /\ Cardinality(Accesses(d)) <= d.curTotalNum
          /\ \A l \in Cached(c) : freq(c, m) <= freq(c, l)
          /\ Head(c.lists[freq(c, m)]) = m
      BY <2>3 DEF Kicked
    <3>3. Good(e) /\ ~e.corrupt /\ e.capacity = c.capacity /\ Cached(e) = Cached(d) \cup {k}
      BY <1>2, <2>1, <3>1, <3>2
    <3>4. Evicted(c, e) = {m}
      BY <3>1, <3>3 DEF Evicted
    <3>5. EvictsLeast(c, e)
      BY <2>2, <3>2, <3>3, <3>4 DEF EvictsLeast
    <3>6. QED BY <3>3, <3>5 DEF Serves
  <2>4. ASSUME Wrecked(c, d) PROVE Serves(c, e)
    <3>1. /\ Basic(d) /\ d.corrupt /\ Saturated(c) /\ d.capacity = c.capacity
          /\ d.curTotalNum <= c.curTotalNum /\ Cached(d) \subseteq Cached(c)
          /\ d.curTotalNum \in 0..MaxTotal
      BY <2>4 DEF Wrecked, Basic, IsCache
    <3>2. d.curTotalNum < MaxTotal /\ k \in Keys \ Cached(d)
      BY <1>1, <3>1, SliceAssumption
    <3>3. Basic(e) /\ e.corrupt = d.corrupt /\ e.capacity = d.capacity
      BY <2>1, <3>1, <3>2, Inserted
    <3>4. Good(e)
      BY <3>1, <3>3 DEF Good, Basic, Bounded, ListsMatch, MinExact
    <3>5. EvictsLeast(c, e)
      BY <3>1, <3>3 DEF EvictsLeast
    <3>6. QED BY <3>1, <3>3, <3>4, <3>5 DEF Serves
  <2>5. QED BY <2>1, <2>2, <2>3, <2>4, KickOut
<1>5. QED BY <1>3, <1>4

LEMMA PutServes ==
  ASSUME NEW c, Good(c), CanCount(c), c.capacity # 0, NEW k \in Keys, NEW v \in Values,
         NEW e \in put(c, k, v)
  PROVE  Serves(c, e)
<1>1. Sound(c) /\ c.curTotalNum < MaxTotal
  BY GoodIsSound DEF CanCount
<1>2. CASE k \in Cached(c)
  <2> DEFINE d == [c EXCEPT !.nodeMap[k].value = v]
  <2>1. /\ Sound(d) /\ Cached(d) = Cached(c) /\ d.lists = c.lists
        /\ (\A l \in Cached(c) : freq(d, l) = freq(c, l))
        /\ d.capacity = c.capacity /\ d.curTotalNum = c.curTotalNum
    BY <1>1, <1>2, ValueSet
  <2>2. e \in getInternal(d, k)
    BY <1>2 DEF put
  <2> HIDE DEF d
  <2>3. Serves(d, e) /\ Cached(e) = Cached(d)
    BY <1>1, <1>2, <2>1, <2>2, HitServes
  <2>4. EvictsLeast(c, e)
    BY <2>1, <2>3 DEF Serves, EvictsLeast, Evicted, Saturated, Sound
  <2>5. QED BY <2>1, <2>3, <2>4 DEF Serves
<1>3. CASE k \notin Cached(c)
  <2>1. e \in putInternal(c, k, v)
    BY <1>3 DEF put
  <2>2. QED BY <1>1, <1>3, <2>1, Miss
<1>4. QED BY <1>2, <1>3

LEMMA GetServes ==
  ASSUME NEW c, Good(c), CanCount(c), NEW k, NEW e \in get(c, k)
  PROVE  Serves(c, e)
<1>1. Sound(c) /\ c.curTotalNum < MaxTotal
  BY GoodIsSound DEF CanCount
<1>2. CASE k \in Cached(c)
  <2>1. e \in getInternal(c, k)
    BY <1>2 DEF get
  <2>2. QED BY <1>1, <1>2, <2>1, HitServes
<1>3. CASE k \notin Cached(c)
  <2>1. e = c
    BY <1>3 DEF get
  <2>2. EvictsLeast(c, c)
    BY DEF EvictsLeast, Evicted
  <2>3. QED BY <2>1, <2>2 DEF Serves
<1>4. QED BY <1>2, <1>3

(* The empty function, as purge() and the constructor leave it. *)
LEMMA EmptyMaps ==
  /\ <<>> \in [{} -> Node] /\ <<>> \in [{} -> Seq(Keys)] /\ DOMAIN <<>> = {}
OBVIOUS

LEMMA EmptyIsGood ==
  ASSUME NEW c, IsCache(c), c.nodeMap = <<>>, c.lists = <<>>
  PROVE  Good(c)
<1>1. Cached(c) = {} /\ DOMAIN c.lists = {}
  BY EmptyMaps DEF Cached
<1>2. Accesses(c) = {}
  BY <1>1 DEF Accesses
<1>3. Cardinality({}) = 0 /\ IsFiniteSet({})
  BY FS_EmptySet
<1>4. c.capacity \in Nat /\ c.curTotalNum \in Nat
  BY DEF IsCache
<1>5. Bounded(c)
  BY <1>1, <1>2, <1>3, <1>4 DEF Bounded
<1>6. ListsMatch(c) /\ MinExact(c)
  BY <1>1 DEF ListsMatch, MinExact
<1>7. QED BY <1>1, <1>3, <1>5, <1>6 DEF Good

(* A slice between the two clears of a purge(). *)
Halved(c) == IsCache(c) /\ c.nodeMap = <<>>

LEMMA MapCleared ==
  ASSUME NEW c, IsCache(c)
  PROVE  LET d == clearNodeMap(c)
         IN  Halved(d) /\ EvictsLeast(c, d) /\ d.capacity = c.capacity
<1> DEFINE d == clearNodeMap(c)
<1>1. Halved(d) /\ d.corrupt = c.corrupt /\ d.capacity = c.capacity
  BY EmptyMaps DEF clearNodeMap, IsCache, Halved
<1> HIDE DEF d
<1>2. Cached(d) = {}
  BY <1>1, EmptyMaps DEF Cached, Halved
<1>3. EvictsLeast(c, d)
  BY <1>1, <1>2 DEF EvictsLeast
<1>4. QED BY <1>1, <1>3 DEF d

LEMMA ListsCleared ==
  ASSUME NEW c, Halved(c)
  PROVE  Serves(c, clearFreqToFreqList(c))
<1> DEFINE d == clearFreqToFreqList(c)
<1>1. IsCache(c) /\ c.nodeMap = <<>>
  BY DEF Halved
<1>2. /\ IsCache(d) /\ d.nodeMap = <<>> /\ d.lists = <<>> /\ d.corrupt = c.corrupt
      /\ d.capacity = c.capacity
  BY <1>1, EmptyMaps DEF clearFreqToFreqList, IsCache
<1> HIDE DEF d
<1>3. Cached(d) = {}
  BY <1>2, EmptyMaps DEF Cached
<1>4. EvictsLeast(c, d)
  BY <1>2, <1>3 DEF EvictsLeast
<1>5. QED BY <1>2, <1>4, EmptyIsGood DEF Serves, d

LEMMA HalvedIsBounded ==
  ASSUME NEW c, Halved(c)
  PROVE  Bounded(c) /\ MinExact(c)
<1>1. Cached(c) = {}
  BY EmptyMaps DEF Cached, Halved
<1>2. Accesses(c) = {}
  BY <1>1 DEF Accesses
<1>3. Cardinality({}) = 0
  BY FS_EmptySet
<1>4. c.capacity \in Nat /\ c.curTotalNum \in Nat
  BY DEF IsCache, Halved
<1>5. Bounded(c)
  BY <1>1, <1>2, <1>3, <1>4 DEF Bounded
<1>6. MinExact(c)
  BY <1>1 DEF MinExact
<1>7. QED BY <1>5, <1>6

(* Between the clears there is nothing to hit. *)
LEMMA GetMisses ==
  ASSUME NEW c, Halved(c), NEW k, NEW e \in get(c, k)
  PROVE  e = c /\ EvictsLeast(c, e)
<1>1. Cached(c) = {}
  BY EmptyMaps DEF Cached, Halved
<1>2. e = c
  BY <1>1 DEF get
<1>3. QED BY <1>2 DEF EvictsLeast, Evicted

-----------------------------------------------------------------------------
(* The slices *)

Sliced(c) == IsCache(c) /\ c.capacity = SliceSize
IInv ==
  TypeOK /\ \A i \in Slices \ torn : IF i \in half THEN Halved(slices[i]) ELSE Good(slices[i])

LEMMA InitIInv == Init => IInv
<1> SUFFICES ASSUME Init PROVE IInv
  OBVIOUS
<1>1. SliceSize \in Nat
  <2>1. \A m \in Nat, n \in Nat \ {0} : m \div n \in Nat
    OBVIOUS
  <2>2. TotalCapacity + SliceNum - 1 \in Nat /\ SliceNum \in Nat \ {0}
    BY SliceAssumption
  <2>3. QED BY <2>1, <2>2 DEF SliceSize
<1>2. Int8Max \in 1..(Int8Max + MaxTotal) /\ 0 \in 0..MaxTotal
  BY SliceAssumption
<1> DEFINE c == EmptyCache(SliceSize)
<1>3. IsCache(c) /\ c.nodeMap = <<>> /\ c.lists = <<>> /\ c.capacity = SliceSize
  BY <1>1, <1>2, EmptyMaps DEF EmptyCache, IsCache
<1> HIDE DEF c
<1>4. Good(c)
  BY <1>3, EmptyIsGood
<1>5. slices = [i \in Slices |-> c] /\ purging = {} /\ half = {} /\ torn = {}
  BY DEF Init, c
<1>6. QED BY <1>3, <1>4, <1>5 DEF IInv, TypeOK

(* A step that replaces at most one slice, and leaves it torn, halved or good. *)
Leads(j, c) ==
  /\ half' \subseteq purging' /\ purging' \subseteq Slices
  /\ torn' \subseteq Slices /\ torn \subseteq torn'
  /\ \A i \in Slices \ {j} : i \in half' <=> i \in half
  /\ j \notin torn' => /\ Sliced(c) /\ EvictsLeast(slices[j], c)
                        /\ IF j \in half' THEN Halved(c) ELSE Good(c)

(* What a step promises. *)
Promised == IInv' /\ \A i \in Slices \ torn' : EvictsLeast(slices[i], slices'[i])

LEMMA StepLeads ==
  ASSUME IInv, NEW j \in Slices, NEW c, slices' = [slices EXCEPT ![j] = c], Leads(j, c)
  PROVE  Promised
<1>1. /\ slices = [i \in Slices |-> slices[i]]
      /\ \A i \in Slices \ torn : Sliced(slices[i])
      /\ \A i \in Slices \ torn : IF i \in half THEN Halved(slices[i]) ELSE Good(slices[i])
  BY Zenon DEF IInv, TypeOK, Sliced
<1>2. /\ slices' = [i \in Slices |-> slices'[i]] /\ slices'[j] = c
      /\ \A i \in Slices \ {j} : slices'[i] = slices[i]
  BY <1>1
<1>3. \A i \in Slices : EvictsLeast(slices[i], slices[i])
  BY DEF EvictsLeast, Evicted
<1>4. ASSUME NEW i \in Slices \ torn'
      PROVE  /\ Sliced(slices'[i]) /\ EvictsLeast(slices[i], slices'[i])
             /\ IF i \in half' THEN Halved(slices'[i]) ELSE Good(slices'[i])
  <2>1. CASE i = j
    BY <1>2, <2>1, Zenon DEF Leads
  <2>2. CASE i # j
    <3>1. i \in Slices \ torn /\ slices'[i] = slices[i] /\ (i \in half' <=> i \in half)
      BY <1>2, <1>4, <2>2, Zenon DEF Leads
    <3>2. QED BY <1>1, <1>3, <3>1, Zenon
  <2>3. QED BY <2>1, <2>2
<1>5. TypeOK'
  BY <1>2, <1>4, Zenon DEF TypeOK, Leads, Sliced
<1>6. QED BY <1>4, <1>5, Zenon DEF Promised, IInv, Halved, IsCache

LEMMA StepServes == ASSUME IInv, [Next]_vars PROVE Promised
<1>1. /\ half \subseteq purging /\ purging \subseteq Slices /\ torn \subseteq Slices
      /\ \A i \in Slices \ torn : Sliced(slices[i])
      /\ \A i \in Slices \ torn : IF i \in half THEN Halved(slices[i]) ELSE Good(slices[i])
  BY Zenon DEF IInv, TypeOK, Sliced
<1>2. ASSUME slices' = slices, half' = half, torn' = torn, purging' \subseteq Slices,
             half \subseteq purging'
      PROVE  Promised
  <2>1. \A i \in Slices : EvictsLeast(slices[i], slices'[i])
    BY <1>2 DEF EvictsLeast, Evicted
  <2>2. QED BY <1>1, <1>2, <2>1 DEF Promised, IInv, TypeOK
<1>3. \A k \in Keys : sliceIndex(k) \in Slices
  <2>1. \A m \in Nat, n \in Nat \ {0} : m % n \in 0..(n - 1)
    OBVIOUS
  <2>2. QED BY <2>1, SliceAssumption DEF sliceIndex, Slices
<1>4. \A c, e : Serves(c, e) => Good(e) /\ EvictsLeast(c, e) /\ IsCache(e)
                               /\ e.capacity = c.capacity
  BY DEF Serves, Good
<1>5. ASSUME NEW k \in Keys, NEW v \in Values, Put(k, v) PROVE Promised
  <2> DEFINE i == sliceIndex(k)
  <2>1. PICK c \in put(slices[i], k, v) : slices' = [slices EXCEPT ![i] = c]
    BY <1>5 DEF Put
  <2>2. /\ SliceSize # 0 /\ i \notin torn /\ CanCount(slices[i])
        /\ torn' = torn \cup (half \cap {i}) /\ purging' = purging /\ half' = half
    BY <1>5 DEF Put
  <2>3. i \in Slices
    BY <1>3
  <2> HIDE DEF i
  <2>4. CASE i \in half
    <3>1. i \in torn' /\ torn' \subseteq Slices /\ torn \subseteq torn'
      BY <1>1, <2>2, <2>3, <2>4
    <3>2. Leads(i, c)
      BY <1>1, <2>2, <3>1, Zenon DEF Leads
    <3>3. QED BY <2>1, <2>3, <3>2, StepLeads, Zenon
  <2>5. CASE i \notin half
    <3>1. Good(slices[i]) /\ Sliced(slices[i])
      BY <1>1, <2>2, <2>3, <2>5
    <3>2. Serves(slices[i], c)
      BY <2>1, <2>2, <3>1, PutServes DEF Sliced
    <3>3. torn' = torn
      BY <2>2, <2>5
    <3>4. Sliced(c) /\ EvictsLeast(slices[i], c) /\ Good(c)
      BY <1>4, <3>1, <3>2, Zenon DEF Sliced
    <3>5. Leads(i, c)
      BY <1>1, <2>2, <2>5, <3>3, <3>4, Zenon DEF Leads
    <3>6. QED BY <2>1, <2>3, <3>5, StepLeads, Zenon
  <2>6. QED BY <2>4, <2>5
<1>6. ASSUME NEW k \in Keys, Get(k) PROVE Promised
  <2> DEFINE i == sliceIndex(k)
  <2>1. PICK c \in get(slices[i], k) : slices' = [slices EXCEPT ![i] = c]
    BY <1>6 DEF Get
  <2>2. /\ i \notin torn /\ CanCount(slices[i]) /\ torn' = torn /\ purging' = purging
        /\ half' = half
    BY <1>6 DEF Get
  <2>3. i \in Slices
    BY <1>3
  <2> HIDE DEF i
  <2>4. Sliced(slices[i])
    BY <1>1, <2>2, <2>3
  <2>5. Sliced(c) /\ EvictsLeast(slices[i], c) /\ IF i \in half' THEN Halved(c) ELSE Good(c)
    <3>1. CASE i \in half
      <4>1. Halved(slices[i])
        BY <1>1, <2>2, <2>3, <3>1
      <4>2. c = slices[i] /\ EvictsLeast(slices[i], c)
        BY <2>1, <4>1, GetMisses
      <4>3. QED BY <2>2, <2>4, <3>1, <4>1, <4>2
    <3>2. CASE i \notin half
      <4>1. Good(slices[i])
        BY <1>1, <2>2, <2>3, <3>2
      <4>2. Serves(slices[i], c)
        BY <2>1, <2>2, <4>1, GetServes
      <4>3. QED BY <1>4, <2>2, <2>4, <3>2, <4>2, Zenon DEF Sliced
    <3>3. QED BY <3>1, <3>2
  <2>6. Leads(i, c)
    BY <1>1, <2>2, <2>5, Zenon DEF Leads
  <2>7. QED BY <2>1, <2>3, <2>6, StepLeads, Zenon
<1>7. CASE BeginPurge
  BY <1>1, <1>2, <1>7 DEF BeginPurge
<1>8. ASSUME NEW j \in Slices, PurgeMap(j) PROVE Promised
  <2> DEFINE c == clearNodeMap(slices[j])
  <2>1. /\ slices' = [slices EXCEPT ![j] = c] /\ purging' = purging /\ torn' = torn
        /\ half' = half \cup {j} /\ j \in purging
    BY <1>8 DEF PurgeMap
  <2>2. ASSUME j \notin torn
        PROVE  Sliced(c) /\ EvictsLeast(slices[j], c) /\ Halved(c)
    <3>1. Sliced(slices[j])
      BY <1>1, <2>2
    <3>2. Halved(c) /\ EvictsLeast(slices[j], c) /\ c.capacity = slices[j].capacity
      BY <3>1, MapCleared DEF Sliced
    <3> HIDE DEF c
    <3>3. QED BY <3>1, <3>2 DEF Sliced, Halved
  <2> HIDE DEF c
  <2>3. /\ half' \subseteq purging' /\ j \in half'
        /\ \A i \in Slices \ {j} : i \in half' <=> i \in half
    BY <1>1, <2>1
  <2>4. Leads(j, c)
    BY <1>1, <2>1, <2>2, <2>3, Zenon DEF Leads
  <2>5. QED BY <2>1, <2>4, StepLeads, Zenon
<1>9. ASSUME NEW j \in Slices, PurgeLists(j) PROVE Promised
  <2> DEFINE c == clearFreqToFreqList(slices[j])
  <2>1. /\ slices' = [slices EXCEPT ![j] = c] /\ purging' = purging \ {j} /\ torn' = torn
        /\ half' = half \ {j} /\ j \in half
    BY <1>9 DEF PurgeLists
  <2>2. ASSUME j \notin torn
        PROVE  Sliced(c) /\ EvictsLeast(slices[j], c) /\ Good(c)
    <3>1. Sliced(slices[j]) /\ Halved(slices[j])
      BY <1>1, <2>1, <2>2
    <3>2. Serves(slices[j], c)
      BY <3>1, ListsCleared
    <3> HIDE DEF c
    <3>3. QED BY <1>4, <3>1, <3>2, Zenon DEF Sliced
  <2> HIDE DEF c
  <2>3. /\ half' \subseteq purging' /\ purging' \subseteq Slices /\ j \notin half'
        /\ \A i \in Slices \ {j} : i \in half' <=> i \in half
    BY <1>1, <2>1
  <2>4. Leads(j, c)
    BY <1>1, <2>1, <2>2, <2>3, Zenon DEF Leads
  <2>5. QED BY <2>1, <2>4, StepLeads, Zenon
<1>10. CASE UNCHANGED vars
  BY <1>1, <1>2, <1>10 DEF vars
<1>11. QED BY <1>5, <1>6, <1>7, <1>8, <1>9, <1>10, Zenon DEF Next

LEMMA Invariant == Spec => []IInv
<1>1. IInv /\ [Next]_vars => IInv'
  BY StepServes DEF Promised
<1>2. QED BY <1>1, InitIInv, PTL DEF Spec

LEMMA SlicesAreGood ==
  ASSUME IInv
  PROVE  /\ \A i \in Slices \ torn : Bounded(slices[i]) /\ MinExact(slices[i])
         /\ \A i \in Slices \ (torn \cup half) : ListsMatch(slices[i])
<1>1. ASSUME NEW i \in Slices \ torn
      PROVE  /\ Bounded(slices[i]) /\ MinExact(slices[i])
             /\ i \notin half => ListsMatch(slices[i])
  <2>1. CASE i \in half
    BY <2>1, HalvedIsBounded, Zenon DEF IInv
  <2>2. CASE i \notin half
    BY <2>2, Zenon DEF IInv, Good
  <2>3. QED BY <2>1, <2>2
<1>2. QED BY <1>1

(* No slice that no put() has torn between the two clears of a purge() holds more keys
   than its share, and curTotalNum_ covers the counts, so that an eviction never makes
   it negative, although aging and purge() do not touch it. *)
THEOREM AlwaysWithinBounds == Spec => []WithinBounds
<1>1. IInv => WithinBounds
  BY SlicesAreGood DEF WithinBounds
<1>2. QED BY <1>1, Invariant, PTL

(* Through hits, evictions and aging in any order of the map, and again after a purge()
   that no put() came into, the lists hold every cached key once, in the list of its
   count. *)
THEOREM ListsAlwaysMatch == Spec => []ListsMatchMap
<1>1. IInv => ListsMatchMap
  BY SlicesAreGood DEF IInv, ListsMatchMap
<1>2. QED BY <1>1, Invariant, PTL

(* minFreq_ is the smallest count in use, unless aging left all of them at INT8_MAX
   or above, in every slice that no put() has torn between the two clears. *)
THEOREM MinFreqAlwaysExact == Spec => []MinFreqExact
<1>1. IInv => MinFreqExact
  BY SlicesAreGood DEF MinFreqExact
<1>2. QED BY <1>1, Invariant, PTL

(* kickOut takes the least frequent key of a full slice and nothing else is evicted;
   only a slice whose counts are all at INT8_MAX or above is ever corrupted.  The same
   slices are meant. *)
THEOREM LeastFrequentEvicted == Spec => EvictsLeastFrequent
<1>1. IInv /\ [Next]_vars
        => [\A i \in Slices \ torn' : EvictsLeast(slices[i], slices'[i])]_vars
  BY StepServes DEF Promised
<1>2. QED BY <1>1, Invariant, PTL DEF Spec, EvictsLeastFrequent
=============================================================================
