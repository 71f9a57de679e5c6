-------------------------- MODULE RequestPathProofs --------------------------
(***************************************************************************)
(* Theorems about RequestPath and the rate limiter in it, for all values   *)
(* of their constants: any limits, window, lifetimes and clock changes.    *)
(***************************************************************************)
EXTENDS RequestPath, FiniteSetTheorems, SequenceTheorems, WellFoundedInduction, TLAPS

-----------------------------------------------------------------------------
(* The window                                                              *)

LEMMA FirstOf ==
    ASSUME NEW S, NEW q \in Seq(S), q # <<>>
    PROVE  1 \in DOMAIN q /\ q[1] \in S
<1>1. Len(q) \in Nat /\ DOMAIN q = 1..Len(q) /\ \A i \in 1..Len(q) : q[i] \in S
  OBVIOUS
<1>2. Len(q) # 0
  BY EmptySeq
<1> QED
  BY <1>1, <1>2

\* What is left of a bucket: all of it when its oldest hit still counts, and
\* less of it otherwise.
LEMMA SinceProperties ==
    ASSUME NEW S \in SUBSET Int, NEW hits \in Seq(S), NEW cutoff \in Int
    PROVE  /\ Since(cutoff, hits) \in Seq(S)
           /\ Len(Since(cutoff, hits)) <= Len(hits)
           /\ hits # <<>> /\ hits[1] >= cutoff => Since(cutoff, hits) = hits
           /\ hits # <<>> /\ hits[1] < cutoff => Len(Since(cutoff, hits)) < Len(hits)
           /\ hits = <<>> => Since(cutoff, hits) = <<>>
<1> DEFINE popped == {i \in DOMAIN hits : \A j \in 1..i : hits[j] < cutoff}
           first == Cardinality(popped) + 1
<1>1. DOMAIN hits = 1..Len(hits) /\ Len(hits) \in Nat /\ \A i \in 1..Len(hits) : hits[i] \in S
  OBVIOUS
<1>2. IsFiniteSet(popped) /\ Cardinality(popped) \in Nat
  <2>1. IsFiniteSet(1..Len(hits))
    BY <1>1, FS_Interval
  <2>2. popped \subseteq 1..Len(hits)
    BY <1>1
  <2> HIDE DEF popped
  <2>3. IsFiniteSet(popped)
    BY <2>1, <2>2, FS_Subset
  <2> QED
    BY <2>3, FS_CardinalityType
<1>3. Since(cutoff, hits) = SubSeq(hits, first, Len(hits))
  BY DEF Since
<1>4. first \in Nat \ {0}
  <2> HIDE DEF popped
  <2> QED
    BY <1>2
<1>5. /\ Since(cutoff, hits) \in Seq(S)
      /\ Len(Since(cutoff, hits)) = IF first <= Len(hits) THEN Len(hits) - first + 1 ELSE 0
  <2> HIDE DEF first
  <2>1. \A i \in first..Len(hits) : hits[i] \in S
    BY <1>1, <1>4
  <2> QED
    BY <1>1, <1>3, <1>4, <2>1, SubSeqProperties
<1>6. ASSUME hits # <<>>, hits[1] >= cutoff  PROVE  Since(cutoff, hits) = hits
  <2>1. hits[1] \in Int /\ ~(hits[1] < cutoff)
    <3>1. hits[1] \in S
      BY <1>6, FirstOf
    <3>2. hits[1] \in Int
      BY <3>1
    <3> QED
      BY <1>6, <3>2
  <2>2. popped = {}
    BY <1>1, <2>1
  <2>3. first = 1
    <3> HIDE DEF popped
    <3> QED
      BY <2>2, FS_EmptySet
  <2> HIDE DEF first
  <2> QED
    BY <1>3, <2>3, SubSeqFull
<1>7. ASSUME hits # <<>>, hits[1] < cutoff  PROVE  Len(Since(cutoff, hits)) < Len(hits)
  <2>1. Len(hits) > 0
    BY <1>7
  <2>2. 1 \in popped
    BY <1>1, <1>7, <2>1
  <2>3. first # 1
    <3> HIDE DEF popped
    <3> QED
      BY <1>2, <2>2, FS_EmptySet
  <2> HIDE DEF first
  <2> QED
    BY <1>1, <1>4, <1>5, <2>1, <2>3
<1> HIDE DEF first
<1>8. Len(Since(cutoff, hits)) <= Len(hits)
  BY <1>1, <1>4, <1>5
<1>9. ASSUME hits = <<>>  PROVE  Since(cutoff, hits) = <<>>
  <2>1. Len(Since(cutoff, hits)) = 0
    BY <1>4, <1>5, <1>9
  <2> QED
    BY <1>5, <2>1, EmptySeq
<1> QED
  BY <1>5, <1>6, <1>7, <1>8, <1>9

\* Among multiples of d, those up to a are those below the next multiple.
LEMMA NextMultiple ==
    ASSUME NEW a \in Nat, NEW w \in Nat, NEW d \in Nat \ {0}, w % d = 0
    PROVE  w <= a <=> w < (a \div d + 1) * d
<1>1. PICK q \in Nat : q = a \div d
  OBVIOUS
<1>2. PICK p \in Nat : p = w \div d
  OBVIOUS
<1>3. q * d <= a /\ a < q * d + d
  BY <1>1
<1>4. w = p * d
  BY <1>2
<1>5. (q + 1) * d = q * d + d
  OBVIOUS
<1>6. ASSUME p <= q  PROVE  p * d <= q * d
  BY <1>6
<1>7. ASSUME p > q  PROVE  p * d >= q * d + d
  <2>1. PICK r \in Nat : p = q + 1 + r
    BY <1>7
  <2>2. p * d = q * d + d + r * d /\ r * d \in Nat
    BY <2>1
  <2> QED
    BY <2>2
<1> QED
  BY <1>1, <1>3, <1>4, <1>5, <1>6, <1>7
-----------------------------------------------------------------------------
(* The limiter                                                             *)

\* The 429 that is remembered was for a bucket that is as full now as then,
\* and its Retry-After counts from the oldest hit of it.
Remembered(r) ==
    LET oldest == store[r.key][1] IN
    /\ Len(store[r.key]) = Limit[r.key[1]]
    /\ r.at <= now /\ oldest <= r.at /\ r.at - oldest <= Window
    /\ r.retry = (Window - (r.at - oldest)) \div Second + 1

LimiterInv ==
    /\ TypeOK
    /\ \A k \in Keys : /\ Len(store[k]) <= Limit[k[1]]
                       /\ \A i \in DOMAIN store[k] : store[k][i] <= now
    /\ \A r \in refusal : Remembered(r)

\* Requests are counted under a key of their own bucket.
LEMMA KeyType ==
    ASSUME NEW c \in Callers
    PROVE  Key(c) \in Keys /\ Key(c)[1] = c[1]
BY LimiterAssumption DEF Key, Keys, Buckets

LEMMA Constants ==
    /\ Window \in Nat /\ Second \in Nat \ {0} /\ MaxNow \in Nat
    /\ \A k \in Keys : Limit[k[1]] \in Nat \ {0}
BY LimiterAssumption DEF Keys

LEMMA LimiterInit == Init => LimiterInv
BY Constants DEF Init, LimiterInv, TypeOK

\* A full bucket holds exactly as many hits as the limit, and none is pruned.
LEMMA FullBucket ==
    ASSUME LimiterInv, NEW k \in Keys
    PROVE  /\ Pruned(store[k]) \in Seq(0..MaxNow)
           /\ Len(Pruned(store[k])) <= Len(store[k])
           /\ Full(k) => /\ Pruned(store[k]) = store[k] /\ store[k] # <<>>
                         /\ Len(store[k]) = Limit[k[1]]
                         /\ store[k][1] \in 0..now /\ store[k][1] >= now - Window
           /\ Len(store[k]) = Limit[k[1]] =>
                 /\ store[k] # <<>> /\ store[k][1] \in 0..now
                 /\ Full(k) <=> store[k][1] >= now - Window
<1>1. /\ store[k] \in Seq(0..MaxNow) /\ Len(store[k]) <= Limit[k[1]]
      /\ \A i \in DOMAIN store[k] : store[k][i] <= now
      /\ now \in 0..MaxNow
  BY DEF LimiterInv, TypeOK
<1>2. Limit[k[1]] \in Nat \ {0} /\ Window \in Nat /\ MaxNow \in Nat
  BY Constants
<1>3. now - Window \in Int /\ 0..MaxNow \in SUBSET Int
  BY <1>1, <1>2
<1>4. /\ Pruned(store[k]) \in Seq(0..MaxNow)
      /\ Len(Pruned(store[k])) <= Len(store[k])
      /\ store[k] # <<>> /\ store[k][1] >= now - Window => Pruned(store[k]) = store[k]
      /\ store[k] # <<>> /\ store[k][1] < now - Window
             => Len(Pruned(store[k])) < Len(store[k])
      /\ store[k] = <<>> => Pruned(store[k]) = <<>>
  BY <1>1, <1>3, SinceProperties DEF Pruned
<1>5. ASSUME store[k] # <<>>  PROVE  store[k][1] \in 0..now
  <2>1. 1 \in DOMAIN store[k] /\ store[k][1] \in 0..MaxNow
    BY <1>1, <1>5, FirstOf
  <2> QED
    BY <1>1, <1>2, <2>1
<1>6. Len(store[k]) \in Nat /\ Len(Pruned(store[k])) \in Nat
  BY <1>1, <1>4
<1>7. store[k] = <<>> <=> Len(store[k]) = 0
  BY <1>1
<1> QED
  BY <1>1, <1>2, <1>4, <1>5, <1>6, <1>7 DEF Full

LEMMA DivType ==
    ASSUME NEW a \in Nat, NEW d \in Nat \ {0}
    PROVE  a \div d \in Nat
OBVIOUS

LEMMA RefuseStep ==
    ASSUME LimiterInv, NEW k \in Keys, Refuse(k)
    PROVE  LimiterInv'
<1> USE Constants
<1>1. now \in 0..MaxNow /\ store \in [Keys -> Seq(0..MaxNow)]
  BY DEF LimiterInv, TypeOK
<1>2. /\ Pruned(store[k]) = store[k] /\ store[k] # <<>>
      /\ Len(store[k]) = Limit[k[1]]
      /\ store[k][1] \in 0..now /\ store[k][1] >= now - Window
  BY FullBucket DEF Refuse
<1>3. store' = store /\ now' = now /\ admitted' = admitted
  BY <1>1, <1>2 DEF Refuse
<1>4. PICK h \in 0..now : h = store[k][1] /\ Head(store[k]) = h
  BY <1>2
<1>5. Window - (now - h) \in Nat
  BY <1>1, <1>2, <1>4
<1>6. PICK q \in Nat : q = (Window - (now - h)) \div Second
  BY <1>5, DivType
<1>7. RetryAfter(Pruned(store[k])) = q + 1
  BY <1>2, <1>4, <1>6 DEF RetryAfter
<1>8. refusal' = {[key |-> k, at |-> now, retry |-> q + 1]}
  BY <1>7 DEF Refuse
<1>9. TypeOK'
  BY <1>1, <1>3, <1>8 DEF LimiterInv, TypeOK
<1>10. \A r \in refusal' : Remembered(r)'
  <2>1. TAKE r \in refusal'
  <2>2. r.key = k /\ r.at = now /\ r.retry = q + 1
    BY <1>8
  <2>3. now - h <= Window
    BY <1>1, <1>2, <1>4
  <2> QED
    BY <1>1, <1>2, <1>3, <1>4, <1>6, <2>2, <2>3 DEF Remembered
<1> QED
  BY <1>3, <1>9, <1>10 DEF LimiterInv

LEMMA AdmitStep ==
    ASSUME LimiterInv, NEW k \in Keys, NEW c \in Callers, Admit(k, c)
    PROVE  LimiterInv'
<1> USE Constants
<1>1. /\ now \in 0..MaxNow /\ store \in [Keys -> Seq(0..MaxNow)]
      /\ admitted \in [Callers -> Seq(0..MaxNow)]
      /\ refusal \subseteq [key : Keys, at : 0..MaxNow, retry : Nat \ {0}]
  BY DEF LimiterInv, TypeOK
<1>2. PICK kept \in Seq(0..MaxNow) :
         kept = Pruned(store[k]) /\ Len(kept) <= Len(store[k]) /\ Len(kept) < Limit[k[1]]
  <2>1. Len(Pruned(store[k])) \in Nat
    BY FullBucket
  <2> QED
    BY <2>1, FullBucket DEF Admit, Full
<1>3. \A i \in DOMAIN kept : kept[i] <= now
  <2>1. PICK past : past = {t \in 0..MaxNow : t <= now}
    OBVIOUS
  <2>2. PICK q \in Seq(0..MaxNow) : q = store[k]
    BY <1>1
  <2>3. \A i \in 1..Len(q) : q[i] \in past
    BY <2>1, <2>2 DEF LimiterInv
  <2>4. PICK n \in Nat : q \in [1..n -> past]
    BY <2>3
  <2>5. q \in Seq(past)
    BY ONLY <2>4, SeqDef
  <2>6. past \in SUBSET Int /\ now - Window \in Int
    BY <1>1, <2>1
  <2>7. kept \in Seq(past)
    BY <1>2, <2>2, <2>5, <2>6, SinceProperties DEF Pruned
  <2> QED
    BY <2>1, <2>7
<1>4. /\ store' = [store EXCEPT ![k] = Append(kept, now)]
      /\ admitted' = [admitted EXCEPT ![c] = Append(@, now)]
      /\ refusal' = {r \in refusal : r.key # k} /\ now' = now
  BY <1>2 DEF Admit
<1>5. TypeOK'
  BY <1>1, <1>2, <1>4 DEF TypeOK
<1>6. ASSUME NEW j \in Keys
      PROVE  /\ Len(store'[j]) <= Limit[j[1]]
             /\ \A i \in DOMAIN store'[j] : store'[j][i] <= now'
  <2>1. CASE j = k
    <3>1. store'[j] = Append(kept, now)
      BY <1>1, <1>4, <2>1
    <3>2. Len(Append(kept, now)) = Len(kept) + 1 /\ Len(kept) \in Nat
      BY <1>1, <1>2
    <3>3. \A i \in DOMAIN Append(kept, now) : Append(kept, now)[i] <= now
      BY <1>1, <1>2, <1>3
    <3>4. Len(kept) < Limit[k[1]] /\ Limit[k[1]] \in Nat
      BY <1>2
    <3>5. Len(Append(kept, now)) <= Limit[k[1]]
      BY <3>2, <3>4
    <3> QED
      BY <1>4, <2>1, <3>1, <3>3, <3>5
  <2>2. CASE j # k
    BY <1>1, <1>4, <2>2 DEF LimiterInv
  <2> QED
    BY <2>1, <2>2
<1>7. \A r \in refusal' : Remembered(r)'
  <2>1. TAKE r \in refusal'
  <2>2. r \in refusal /\ r.key # k /\ r.key \in Keys
    BY <1>1, <1>4
  <2>3. store'[r.key] = store[r.key]
    BY <1>1, <1>4, <2>2
  <2> QED
    BY <1>4, <2>2, <2>3 DEF LimiterInv, Remembered
<1> QED
  BY <1>5, <1>6, <1>7 DEF LimiterInv

LEMMA TickStep ==
    ASSUME LimiterInv, Tick
    PROVE  LimiterInv'
<1> USE Constants
<1>1. /\ now \in 0..MaxNow /\ store \in [Keys -> Seq(0..MaxNow)]
      /\ admitted \in [Callers -> Seq(0..MaxNow)]
      /\ refusal \subseteq [key : Keys, at : 0..MaxNow, retry : Nat \ {0}]
  BY DEF LimiterInv, TypeOK
<1>2. now' \in 0..MaxNow /\ now' = now + 1 /\ store' = store /\ refusal' \subseteq refusal
  BY <1>1 DEF Tick
<1>3. admitted' \in [Callers -> Seq(0..MaxNow)]
  <2>1. now' - Window \in Int /\ 0..MaxNow \in SUBSET Int
    BY <1>2
  <2>2. \A c \in Callers : Since(now' - Window, admitted[c]) \in Seq(0..MaxNow)
    BY <1>1, <2>1, SinceProperties
  <2> QED
    BY <2>2 DEF Tick
<1>4. TypeOK'
  BY <1>1, <1>2, <1>3 DEF TypeOK
<1>5. ASSUME NEW j \in Keys
      PROVE  /\ Len(store'[j]) <= Limit[j[1]]
             /\ \A i \in DOMAIN store'[j] : store'[j][i] <= now'
  <2>1. \A i \in DOMAIN store[j] : store[j][i] \in 0..MaxNow /\ store[j][i] <= now
    BY <1>1 DEF LimiterInv
  <2> QED
    BY <1>1, <1>2, <2>1 DEF LimiterInv
<1>6. \A r \in refusal' : Remembered(r)'
  <2>1. TAKE r \in refusal'
  <2>2. Remembered(r) /\ r.at \in 0..MaxNow
    BY <1>1, <1>2 DEF LimiterInv
  <2> QED
    BY <1>1, <1>2, <2>2 DEF Remembered
<1> QED
  BY <1>4, <1>5, <1>6 DEF LimiterInv

LEMMA RestartStep ==
    ASSUME LimiterInv, Restart
    PROVE  LimiterInv'
BY Constants DEF LimiterInv, TypeOK, Restart

LEMMA LimiterStep ==
    ASSUME LimiterInv, [Next]_vars
    PROVE  LimiterInv'
<1>1. CASE \E c \in Callers : Request(c)
  BY <1>1, KeyType, RefuseStep, AdmitStep DEF Request
<1>2. CASE Tick
  BY <1>2, TickStep
<1>3. CASE Restart
  BY <1>3, RestartStep
<1>4. CASE UNCHANGED vars
  BY <1>4 DEF vars, LimiterInv, TypeOK, Remembered
<1> QED
  BY <1>1, <1>2, <1>3, <1>4 DEF Next

\* RetryAfterExact follows from what is remembered of the 429.
LEMMA RetryAfterFollows == LimiterInv => RetryAfterExact
<1> SUFFICES ASSUME LimiterInv, NEW r \in refusal, (now - r.at) % Second = 0
             PROVE  Full(r.key) <=> now - r.at < r.retry * Second
  BY DEF RetryAfterExact
<1> USE Constants
<1>1. r.key \in Keys /\ r.at \in 0..MaxNow /\ now \in 0..MaxNow /\ Remembered(r)
  BY DEF LimiterInv, TypeOK
<1>2. PICK h : h = store[r.key][1]
  OBVIOUS
<1>3. h \in 0..now /\ (Full(r.key) <=> h >= now - Window)
  BY <1>1, <1>2, FullBucket DEF Remembered
<1>4. /\ now - r.at \in Nat /\ Window - (r.at - h) \in Nat
      /\ r.retry = (Window - (r.at - h)) \div Second + 1
  <2>1. r.at <= now /\ h <= r.at /\ r.at - h <= Window
    BY <1>1, <1>2 DEF Remembered
  <2>2. now - r.at \in Nat /\ Window - (r.at - h) \in Nat
    BY <1>1, <1>3, <2>1
  <2> QED
    BY <1>1, <1>2, <2>2 DEF Remembered
<1>5. now - r.at <= Window - (r.at - h) <=> now - r.at < r.retry * Second
  BY <1>4, NextMultiple
<1> QED
  BY <1>1, <1>3, <1>5
-----------------------------------------------------------------------------
(* The window is never over the limit                                      *)

LessThan == {ss \in Nat \X Nat : ss[1] < ss[2]}

LEMMA LessThanWellFounded == IsWellFoundedOn(LessThan, Nat)
BY NatLessThanWellFounded DEF OpToRel, LessThan

\* A set of numbers that is not empty has a least one.
LEMMA Least ==
    ASSUME NEW S \in SUBSET Nat, S # {}
    PROVE  \E n \in S : \A k \in S : n <= k
<1>1. PICK n \in S : \A k \in S : ~(<<k, n>> \in LessThan)
  BY LessThanWellFounded, WFMin
<1>2. ASSUME NEW k \in S PROVE n <= k
  <2>1. ~(<<k, n>> \in LessThan) /\ n \in Nat /\ k \in Nat
    BY <1>1
  <2> QED BY <2>1 DEF LessThan
<1> QED BY <1>2

\* Since drops the hits in front of the first that is not before the cutoff.
LEMMA SinceCuts ==
    ASSUME NEW S \in SUBSET Int, NEW hits \in Seq(S), NEW cutoff \in Int
    PROVE  \E m \in 0..Len(hits) :
              /\ Since(cutoff, hits) \in Seq(S)
              /\ Len(Since(cutoff, hits)) = Len(hits) - m
              /\ \A i \in 1..Len(hits) - m : Since(cutoff, hits)[i] = hits[i + m]
              /\ \A i \in 1..m : hits[i] < cutoff
              /\ m < Len(hits) => hits[m + 1] >= cutoff
<1> DEFINE popped == {i \in DOMAIN hits : \A j \in 1..i : hits[j] < cutoff}
<1>1. /\ DOMAIN hits = 1..Len(hits) /\ Len(hits) \in Nat
      /\ \A i \in 1..Len(hits) : hits[i] \in S /\ hits[i] \in Int
  <2>1. DOMAIN hits = 1..Len(hits) /\ Len(hits) \in Nat
    OBVIOUS
  <2>2. \A i \in 1..Len(hits) : hits[i] \in S
    BY ElementOfSeq
  <2>3. \A x \in S : x \in Int
    OBVIOUS
  <2> QED BY <2>1, <2>2, <2>3
<1>2. \E m \in 0..Len(hits) : popped = 1..m
  <2>1. CASE popped = DOMAIN hits
    BY <1>1, <2>1
  <2>2. CASE popped # DOMAIN hits
    <3> DEFINE left == {i \in 1..Len(hits) : i \notin popped}
    <3>1. left \in SUBSET Nat /\ left # {}
      BY <1>1, <2>2
    <3>2. PICK b \in left : \A i \in left : b <= i
      BY <3>1, Least
    <3>3. b \in 1..Len(hits) /\ b \notin popped
      BY <3>2
    <3>4. \A i \in 1..Len(hits) : i < b => i \in popped
      BY <3>2, <3>3
    <3>5. \A i \in popped : i < b
      BY <1>1, <3>3
    <3>6. popped = 1..b - 1 /\ b - 1 \in 0..Len(hits)
      <4> HIDE DEF left
      <4>1. popped \subseteq 1..Len(hits)
        BY <1>1
      <4> HIDE DEF popped
      <4>2. /\ b \in Nat /\ b >= 1 /\ b <= Len(hits)
            /\ \A i \in 1..b - 1 : i \in 1..Len(hits) /\ i < b
        BY <1>1, <3>3
      <4>3. b - 1 \in 0..Len(hits)
        BY <1>1, <4>2
      <4>4. \A i \in 1..b - 1 : i \in popped
        BY <3>4, <4>2
      <4>5. \A i \in popped : i \in 1..b - 1
        BY <1>1, <3>5, <4>1, <4>2
      <4> QED BY <4>3, <4>4, <4>5
    <3> QED BY <3>6
  <2> QED BY <2>1, <2>2
<1>3. PICK m \in 0..Len(hits) : popped = 1..m
  BY <1>2
<1>4. Cardinality(popped) = m
  <2> HIDE DEF popped
  <2>1. 1 \in Int /\ m \in Int /\ (IF 1 > m THEN 0 ELSE m - 1 + 1) = m
    BY <1>1, <1>3
  <2>2. Cardinality(1..m) = m
    BY <2>1, FS_Interval
  <2> QED BY <1>3, <2>2
<1>5. Since(cutoff, hits) = SubSeq(hits, m + 1, Len(hits))
  BY <1>4 DEF Since
<1>6. /\ Since(cutoff, hits) \in Seq(S)
      /\ Len(Since(cutoff, hits)) = Len(hits) - m
      /\ \A i \in 1..Len(hits) - m : Since(cutoff, hits)[i] = hits[i + m]
  <2> HIDE DEF popped
  <2>1. m \in Nat /\ m <= Len(hits)
    BY <1>1
  <2>2. \A i \in m + 1..Len(hits) : hits[i] \in S
    BY <1>1, <2>1
  <2>3. /\ SubSeq(hits, m + 1, Len(hits)) \in Seq(S)
        /\ Len(SubSeq(hits, m + 1, Len(hits))) =
              IF m + 1 <= Len(hits) THEN Len(hits) - (m + 1) + 1 ELSE 0
        /\ \A i \in 1..Len(hits) - (m + 1) + 1 :
              SubSeq(hits, m + 1, Len(hits))[i] = hits[m + 1 + i - 1]
    BY <1>1, <2>1, <2>2, SubSeqProperties
  <2>4. Len(hits) - (m + 1) + 1 = Len(hits) - m
    BY <1>1, <2>1
  <2>5. PICK rest : rest = SubSeq(hits, m + 1, Len(hits))
    OBVIOUS
  <2>6. Len(rest) = Len(hits) - m
    <3>1. PICK n \in Nat : n = Len(hits) /\ m <= n
      BY <1>1, <2>1
    <3>2. (IF m + 1 <= n THEN n - (m + 1) + 1 ELSE 0) = n - m
      BY <2>1, <3>1
    <3> QED BY <2>3, <2>5, <3>1, <3>2
  <2>7. ASSUME NEW i \in 1..Len(hits) - m PROVE rest[i] = hits[i + m]
    <3>1. rest[i] = hits[m + 1 + i - 1]
      BY <2>3, <2>4, <2>5
    <3>2. m + 1 + i - 1 = i + m
      BY <1>1, <2>1
    <3> QED BY <3>1, <3>2
  <2> QED BY <1>5, <2>3, <2>5, <2>6, <2>7
<1>7. \A i \in 1..m : hits[i] < cutoff
  <2>1. \A i \in popped : hits[i] < cutoff
    BY <1>1
  <2> HIDE DEF popped
  <2> QED BY <1>3, <2>1
<1>8. ASSUME m < Len(hits) PROVE hits[m + 1] >= cutoff
  <2>1. m + 1 \in DOMAIN hits /\ m + 1 \notin 1..m
    BY <1>1, <1>8
  <2>2. m + 1 \notin popped
    BY <1>3, <2>1
  <2>3. PICK j \in 1..m + 1 : ~(hits[j] < cutoff)
    BY <2>1, <2>2
  <2>4. j = m + 1
    BY <1>1, <1>7, <2>3
  <2> QED BY <1>1, <2>1, <2>3, <2>4
<1> QED BY <1>6, <1>7, <1>8

\* The accepted hits of a window that fall under a key: of a caller the n-th.
HitsIn(adm, k) == {h \in Callers \X Nat : Key(h[1]) = k /\ h[2] \in DOMAIN adm[h[1]]}

\* Each of them is in the bucket of the key, under its own time and place.
Recorded(bucket, adm, k) ==
    \E f \in [HitsIn(adm, k) -> DOMAIN bucket] :
        /\ \A g, h \in HitsIn(adm, k) : f[g] = f[h] => g = h
        /\ \A h \in HitsIn(adm, k) : bucket[f[h]] = adm[h[1]][h[2]]

\* The hits of the window that ends at time, oldest first.
InWindow(hits, time) ==
    \A i, j \in DOMAIN hits :
        /\ hits[i] \in time - Window..time
        /\ i <= j => hits[i] <= hits[j]

WindowInv ==
    /\ \A c \in Callers : InWindow(admitted[c], now)
    /\ \A k \in Keys : Recorded(store[k], admitted, k)

LEMMA HitRead ==
    ASSUME NEW adm \in [Callers -> Seq(0..MaxNow)], NEW k, NEW h \in HitsIn(adm, k)
    PROVE  /\ h = <<h[1], h[2]>> /\ h[1] \in Callers /\ Key(h[1]) = k
           /\ h[2] \in 1..Len(adm[h[1]])
           /\ adm[h[1]] \in Seq(0..MaxNow) /\ adm[h[1]][h[2]] \in 0..MaxNow
<1>1. h \in Callers \X Nat /\ Key(h[1]) = k /\ h[2] \in DOMAIN adm[h[1]]
  BY DEF HitsIn
<1>2. h = <<h[1], h[2]>> /\ h[1] \in Callers
  BY <1>1
<1>3. adm[h[1]] \in Seq(0..MaxNow)
  BY <1>2
<1>4. h[2] \in 1..Len(adm[h[1]])
  BY <1>1, <1>3
<1>5. adm[h[1]][h[2]] \in 0..MaxNow
  BY <1>3, <1>4, ElementOfSeq
<1> QED BY <1>1, <1>2, <1>3, <1>4, <1>5

\* A hit is recorded at the end; those that are pruned are not in the window.
LEMMA RecordedOneMore ==
    ASSUME NEW c \in Callers, NEW k, Key(c) = k,
           NEW bucket \in Seq(0..MaxNow), NEW adm \in [Callers -> Seq(0..MaxNow)],
           NEW time \in 0..MaxNow, NEW cutoff \in Int,
           \A d \in Callers : \A i \in DOMAIN adm[d] : adm[d][i] >= cutoff,
           Recorded(bucket, adm, k)
    PROVE  Recorded(Append(Since(cutoff, bucket), time),
                    [adm EXCEPT ![c] = Append(@, time)], k)
<1>1. PICK f \in [HitsIn(adm, k) -> DOMAIN bucket] :
         /\ \A g, h \in HitsIn(adm, k) : f[g] = f[h] => g = h
         /\ \A h \in HitsIn(adm, k) : bucket[f[h]] = adm[h[1]][h[2]]
  BY DEF Recorded
<1>2. 0..MaxNow \in SUBSET Int /\ MaxNow \in Nat
  BY Constants
<1>3. PICK m \in 0..Len(bucket) :
         /\ Since(cutoff, bucket) \in Seq(0..MaxNow)
         /\ Len(Since(cutoff, bucket)) = Len(bucket) - m
         /\ \A i \in 1..Len(bucket) - m : Since(cutoff, bucket)[i] = bucket[i + m]
         /\ \A i \in 1..m : bucket[i] < cutoff
  BY <1>2, SinceCuts
<1>4. PICK kept \in Seq(0..MaxNow) : kept = Since(cutoff, bucket)
  BY <1>3
<1>5. PICK last : last = Len(bucket) - m + 1
  OBVIOUS
<1>6. PICK longer : longer = Append(kept, time)
  OBVIOUS
<1>7. /\ Len(bucket) \in Nat /\ m \in Nat /\ last \in Nat
      /\ DOMAIN bucket = 1..Len(bucket) /\ DOMAIN longer = 1..last
      /\ \A i \in 1..Len(bucket) - m : longer[i] = bucket[i + m]
      /\ longer[last] = time
  <2>1. Len(bucket) \in Nat /\ m \in Nat /\ m <= Len(bucket) /\ DOMAIN bucket = 1..Len(bucket)
    BY <1>3
  <2>2. last = Len(kept) + 1 /\ Len(kept) = Len(bucket) - m
    BY <1>3, <1>4, <1>5
  <2>3. /\ DOMAIN longer = 1..Len(kept) + 1 /\ longer[Len(kept) + 1] = time
        /\ \A i \in 1..Len(kept) : longer[i] = kept[i]
    BY <1>4, <1>6
  <2>4. last \in Nat
    BY <1>5, <2>1
  <2> QED BY <1>3, <1>4, <2>1, <2>2, <2>3, <2>4
<1>8. PICK more \in [Callers -> Seq(0..MaxNow)] : more = [adm EXCEPT ![c] = Append(@, time)]
  <2>1. Append(adm[c], time) \in Seq(0..MaxNow)
    OBVIOUS
  <2> QED BY <2>1
<1>9. PICK new : new = <<c, Len(adm[c]) + 1>>
  OBVIOUS
<1>10. /\ HitsIn(more, k) = HitsIn(adm, k) \cup {new} /\ new \notin HitsIn(adm, k)
       /\ more[new[1]][new[2]] = time
       /\ \A h \in HitsIn(adm, k) : more[h[1]][h[2]] = adm[h[1]][h[2]]
  <2>1. /\ adm[c] \in Seq(0..MaxNow) /\ Len(adm[c]) \in Nat
        /\ more[c] = Append(adm[c], time) /\ \A d \in Callers : d # c => more[d] = adm[d]
    BY <1>8
  <2>2. /\ DOMAIN adm[c] = 1..Len(adm[c]) /\ DOMAIN more[c] = 1..Len(adm[c]) + 1
        /\ \A i \in 1..Len(adm[c]) : more[c][i] = adm[c][i]
        /\ more[c][Len(adm[c]) + 1] = time
    BY <2>1
  <2>3. new[1] = c /\ new[2] = Len(adm[c]) + 1 /\ new \in Callers \X Nat
    BY <1>9, <2>1
  <2>4. new \in HitsIn(more, k) /\ new \notin HitsIn(adm, k)
    BY <2>1, <2>2, <2>3 DEF HitsIn
  <2>5. ASSUME NEW h \in HitsIn(adm, k)
        PROVE  h \in HitsIn(more, k) /\ more[h[1]][h[2]] = adm[h[1]][h[2]]
    <3>1. h \in Callers \X Nat /\ h[1] \in Callers /\ Key(h[1]) = k /\ h[2] \in DOMAIN adm[h[1]]
      BY DEF HitsIn
    <3>2. h[2] \in DOMAIN more[h[1]] /\ more[h[1]][h[2]] = adm[h[1]][h[2]]
      <4>1. CASE h[1] = c
        BY <2>1, <2>2, <3>1, <4>1
      <4>2. CASE h[1] # c
        BY <2>1, <3>1, <4>2
      <4> QED BY <4>1, <4>2
    <3> QED BY <3>1, <3>2 DEF HitsIn
  <2>6. ASSUME NEW h \in HitsIn(more, k), h \notin HitsIn(adm, k) PROVE h = new
    <3>1. h = <<h[1], h[2]>> /\ h[1] \in Callers /\ Key(h[1]) = k /\ h[2] \in DOMAIN more[h[1]]
          /\ h \in Callers \X Nat
      BY DEF HitsIn
    <3>2. h[1] = c
      BY <2>1, <2>6, <3>1 DEF HitsIn
    <3>3. h[2] \notin DOMAIN adm[c]
      BY <2>6, <3>1, <3>2 DEF HitsIn
    <3>4. h[2] = Len(adm[c]) + 1
      BY <2>1, <2>2, <3>1, <3>2, <3>3
    <3> QED BY <1>9, <3>1, <3>2, <3>4
  <2> QED BY <2>2, <2>3, <2>4, <2>5, <2>6
<1>11. ASSUME NEW h \in HitsIn(adm, k)
       PROVE  f[h] - m \in 1..Len(bucket) - m /\ longer[f[h] - m] = adm[h[1]][h[2]]
              /\ f[h] \in Nat
  <2>1. h[1] \in Callers /\ h[2] \in DOMAIN adm[h[1]] /\ adm[h[1]][h[2]] \in Int
    BY HitRead, <1>2 DEF HitsIn
  <2>2. f[h] \in 1..Len(bucket) /\ bucket[f[h]] = adm[h[1]][h[2]]
    BY <1>1, <1>7
  <2>3. f[h] \notin 1..m
    <3>1. adm[h[1]][h[2]] >= cutoff
      BY <2>1
    <3> QED BY <1>3, <2>1, <2>2, <3>1
  <2>4. f[h] - m \in 1..Len(bucket) - m
    BY <1>7, <2>2, <2>3
  <2>5. PICK p : p = f[h] - m
    OBVIOUS
  <2>6. p \in 1..Len(bucket) - m /\ p + m = f[h]
    BY <1>7, <2>2, <2>4, <2>5
  <2>7. longer[p] = bucket[f[h]]
    BY <1>7, <2>6
  <2> QED BY <1>7, <2>2, <2>5, <2>6, <2>7
<1> DEFINE at == [h \in HitsIn(more, k) |-> IF h \in HitsIn(adm, k) THEN f[h] - m ELSE last]
<1>12. at \in [HitsIn(more, k) -> DOMAIN longer]
  <2>1. ASSUME NEW h \in HitsIn(adm, k) PROVE f[h] - m \in 1..last
    BY <1>5, <1>7, <1>11
  <2>2. last \in 1..last
    BY <1>5, <1>7
  <2> QED BY <1>7, <2>1, <2>2
<1>13. \A h \in HitsIn(adm, k) : at[h] = f[h] - m /\ at[h] # last
  BY <1>5, <1>7, <1>10, <1>11
<1>14. at[new] = last
  BY <1>10
<1> HIDE DEF at
<1>15. \A g, h \in HitsIn(more, k) : at[g] = at[h] => g = h
  <2>1. ASSUME NEW g \in HitsIn(adm, k), NEW h \in HitsIn(adm, k), at[g] = at[h]
        PROVE  f[g] = f[h]
    BY <1>7, <1>11, <1>13, <2>1
  <2> QED BY <1>1, <1>10, <1>13, <1>14, <2>1
<1>16. \A h \in HitsIn(more, k) : longer[at[h]] = more[h[1]][h[2]]
  BY <1>7, <1>10, <1>11, <1>13, <1>14
<1>17. Recorded(longer, more, k)
  BY <1>12, <1>15, <1>16 DEF Recorded
<1> QED BY <1>4, <1>6, <1>8, <1>17

\* What is accepted under another key does not touch this one.
LEMMA RecordedElsewhere ==
    ASSUME NEW c \in Callers, NEW k, Key(c) # k, NEW bucket,
           NEW adm \in [Callers -> Seq(0..MaxNow)], NEW time \in 0..MaxNow,
           Recorded(bucket, adm, k)
    PROVE  Recorded(bucket, [adm EXCEPT ![c] = Append(@, time)], k)
<1>1. PICK more : more = [adm EXCEPT ![c] = Append(@, time)]
  OBVIOUS
<1>2. \A d \in Callers : d # c => more[d] = adm[d]
  BY <1>1
<1>3. HitsIn(more, k) = HitsIn(adm, k)
  BY <1>2 DEF HitsIn
<1>4. \A h \in HitsIn(adm, k) : more[h[1]] = adm[h[1]]
  BY <1>2 DEF HitsIn
<1>5. PICK f \in [HitsIn(adm, k) -> DOMAIN bucket] :
         /\ \A g, h \in HitsIn(adm, k) : f[g] = f[h] => g = h
         /\ \A h \in HitsIn(adm, k) : bucket[f[h]] = adm[h[1]][h[2]]
  BY DEF Recorded
<1>6. \A h \in HitsIn(more, k) : bucket[f[h]] = more[h[1]][h[2]]
  BY <1>3, <1>4, <1>5
<1>7. Recorded(bucket, more, k)
  BY <1>3, <1>5, <1>6 DEF Recorded
<1> QED BY <1>1, <1>7

\* Hits that leave the window need not be recorded.
LEMMA RecordedLess ==
    ASSUME NEW k, NEW bucket, NEW adm \in [Callers -> Seq(0..MaxNow)], NEW cutoff \in Int,
           Recorded(bucket, adm, k)
    PROVE  Recorded(bucket, [d \in Callers |-> Since(cutoff, adm[d])], k)
<1>1. PICK f \in [HitsIn(adm, k) -> DOMAIN bucket] :
         /\ \A g, h \in HitsIn(adm, k) : f[g] = f[h] => g = h
         /\ \A h \in HitsIn(adm, k) : bucket[f[h]] = adm[h[1]][h[2]]
  BY DEF Recorded
<1>2. 0..MaxNow \in SUBSET Int
  BY Constants
<1> DEFINE Cut(d, m) == /\ Since(cutoff, adm[d]) \in Seq(0..MaxNow)
                        /\ Len(Since(cutoff, adm[d])) = Len(adm[d]) - m
                        /\ \A i \in 1..Len(adm[d]) - m :
                              Since(cutoff, adm[d])[i] = adm[d][i + m]
<1> DEFINE gone == [d \in Callers |-> CHOOSE m \in 0..Len(adm[d]) : Cut(d, m)]
<1>3. ASSUME NEW d \in Callers PROVE gone[d] \in 0..Len(adm[d]) /\ Cut(d, gone[d])
  <2>1. \E m \in 0..Len(adm[d]) : Cut(d, m)
    <3>1. PICK hits \in Seq(0..MaxNow) : hits = adm[d]
      OBVIOUS
    <3>2. PICK m \in 0..Len(hits) :
             /\ Since(cutoff, hits) \in Seq(0..MaxNow)
             /\ Len(Since(cutoff, hits)) = Len(hits) - m
             /\ \A i \in 1..Len(hits) - m : Since(cutoff, hits)[i] = hits[i + m]
      BY <1>2, SinceCuts
    <3> QED BY <3>1, <3>2
  <2> HIDE DEF Cut
  <2> QED BY <2>1
<1> HIDE DEF gone
<1>4. PICK less : less = [d \in Callers |-> Since(cutoff, adm[d])]
  OBVIOUS
<1>5. ASSUME NEW d \in Callers
      PROVE  /\ Len(adm[d]) \in Nat /\ gone[d] \in Nat
             /\ DOMAIN adm[d] = 1..Len(adm[d])
             /\ DOMAIN less[d] = 1..Len(adm[d]) - gone[d]
             /\ \A i \in DOMAIN less[d] : less[d][i] = adm[d][i + gone[d]]
  <2>1. adm[d] \in Seq(0..MaxNow) /\ Len(adm[d]) \in Nat
    OBVIOUS
  <2>2. less[d] = Since(cutoff, adm[d])
    BY <1>4
  <2>3. less[d] \in Seq(0..MaxNow) /\ Len(less[d]) = Len(adm[d]) - gone[d]
    BY <1>3, <2>2
  <2> QED BY <1>3, <2>1, <2>2, <2>3
<1> HIDE DEF Cut
<1> DEFINE earlier(h) == <<h[1], h[2] + gone[h[1]]>>
<1>6. ASSUME NEW h \in HitsIn(less, k)
      PROVE  /\ h = <<h[1], h[2]>> /\ h[2] \in Nat /\ gone[h[1]] \in Nat
             /\ earlier(h) \in HitsIn(adm, k)
             /\ less[h[1]][h[2]] = adm[h[1]][h[2] + gone[h[1]]]
  <2>1. /\ h \in Callers \X Nat /\ h = <<h[1], h[2]>> /\ h[1] \in Callers /\ h[2] \in Nat
        /\ Key(h[1]) = k /\ h[2] \in DOMAIN less[h[1]]
    BY DEF HitsIn
  <2>2. h[2] + gone[h[1]] \in DOMAIN adm[h[1]] /\ h[2] + gone[h[1]] \in Nat
    BY <1>5, <2>1
  <2>3. earlier(h) \in HitsIn(adm, k)
    BY <2>1, <2>2 DEF HitsIn
  <2> QED BY <1>5, <2>1, <2>3
<1> DEFINE at == [h \in HitsIn(less, k) |-> f[earlier(h)]]
<1>7. at \in [HitsIn(less, k) -> DOMAIN bucket]
  BY <1>6
<1>8. ASSUME NEW g \in HitsIn(less, k), NEW h \in HitsIn(less, k), at[g] = at[h]
      PROVE  g = h
  <2>1. earlier(g) = earlier(h)
    BY <1>1, <1>6, <1>8
  <2>2. g[1] = h[1] /\ g[2] + gone[g[1]] = h[2] + gone[h[1]]
    BY <2>1
  <2>3. gone[g[1]] = gone[h[1]]
    BY <2>2
  <2>4. g[2] = h[2]
    <3>1. g[2] \in Nat /\ h[2] \in Nat /\ gone[h[1]] \in Nat
      BY <1>6
    <3>2. g[2] + gone[h[1]] = h[2] + gone[h[1]]
      BY <2>2, <2>3
    <3> HIDE DEF earlier, at
    <3> QED BY <3>1, <3>2
  <2> QED BY <1>6, <2>2, <2>4
<1>9. ASSUME NEW h \in HitsIn(less, k) PROVE bucket[at[h]] = less[h[1]][h[2]]
  BY <1>1, <1>6
<1>10. Recorded(bucket, less, k)
  BY <1>7, <1>8, <1>9 DEF Recorded
<1> QED BY <1>4, <1>10

LEMMA InWindowMore ==
    ASSUME NEW hits \in Seq(0..MaxNow), NEW time \in 0..MaxNow, InWindow(hits, time)
    PROVE  InWindow(Append(hits, time), time)
<1>1. /\ Len(hits) \in Nat /\ DOMAIN hits = 1..Len(hits)
      /\ Window \in Nat /\ time \in Nat
  BY Constants
<1>2. PICK more : more = Append(hits, time)
  OBVIOUS
<1>3. /\ DOMAIN more = 1..Len(hits) + 1 /\ more[Len(hits) + 1] = time
      /\ \A i \in 1..Len(hits) : more[i] = hits[i]
  BY <1>2
<1>4. \A i, j \in 1..Len(hits) :
         hits[i] \in time - Window..time /\ (i <= j => hits[i] <= hits[j])
  BY <1>1 DEF InWindow
<1>5. ASSUME NEW i \in DOMAIN more, NEW j \in DOMAIN more
      PROVE  more[i] \in time - Window..time /\ (i <= j => more[i] <= more[j])
  <2>1. CASE i \in 1..Len(hits) /\ j \in 1..Len(hits)
    BY <1>3, <1>4, <2>1
  <2>2. CASE i \in 1..Len(hits) /\ j = Len(hits) + 1
    BY <1>1, <1>3, <1>4, <2>2
  <2>3. CASE i = Len(hits) + 1 /\ j \in 1..Len(hits)
    BY <1>1, <1>3, <2>3
  <2>4. CASE i = Len(hits) + 1 /\ j = Len(hits) + 1
    BY <1>1, <1>3, <2>4
  <2> QED BY <1>1, <1>3, <2>1, <2>2, <2>3, <2>4
<1> QED BY <1>2, <1>5 DEF InWindow

LEMMA InWindowLater ==
    ASSUME NEW hits \in Seq(0..MaxNow), NEW time \in 0..MaxNow, InWindow(hits, time)
    PROVE  InWindow(Since(time + 1 - Window, hits), time + 1)
<1>0. PICK later : later = time + 1
  OBVIOUS
<1>1. PICK cutoff : cutoff = later - Window
  OBVIOUS
<1>2. /\ 0..MaxNow \in SUBSET Int /\ cutoff \in Int
      /\ time \in Nat /\ later \in Nat /\ Window \in Nat
      /\ cutoff = time + 1 - Window
  BY <1>0, <1>1, Constants
<1>3. PICK m \in 0..Len(hits) :
         /\ Since(cutoff, hits) \in Seq(0..MaxNow)
         /\ Len(Since(cutoff, hits)) = Len(hits) - m
         /\ \A i \in 1..Len(hits) - m : Since(cutoff, hits)[i] = hits[i + m]
         /\ m < Len(hits) => hits[m + 1] >= cutoff
  BY <1>2, SinceCuts
<1>4. PICK rest : rest = Since(cutoff, hits)
  OBVIOUS
<1>5. /\ Len(hits) \in Nat /\ m \in Nat /\ DOMAIN hits = 1..Len(hits)
      /\ DOMAIN rest = 1..Len(hits) - m
      /\ \A i \in DOMAIN rest : rest[i] = hits[i + m]
  BY <1>3, <1>4
<1>6. \A i, j \in 1..Len(hits) :
         hits[i] \in time - Window..time /\ (i <= j => hits[i] <= hits[j])
  BY <1>5 DEF InWindow
<1>7. ASSUME NEW i \in DOMAIN rest, NEW j \in DOMAIN rest
      PROVE  rest[i] \in later - Window..later /\ (i <= j => rest[i] <= rest[j])
  <2>1. PICK a \in 1..Len(hits) : a = i + m /\ rest[i] = hits[a]
    BY <1>5
  <2>2. PICK b \in 1..Len(hits) : b = j + m /\ rest[j] = hits[b]
    BY <1>5
  <2>3. i <= j => hits[a] <= hits[b]
    BY <1>5, <1>6, <2>1, <2>2
  <2>4. m < Len(hits) /\ m + 1 \in 1..Len(hits) /\ m + 1 <= a
    BY <1>5, <2>1
  <2>5. hits[m + 1] <= hits[a] /\ hits[a] \in time - Window..time
        /\ hits[m + 1] \in time - Window..time
    BY <1>6, <2>4
  <2>6. hits[a] >= cutoff /\ hits[a] \in Int /\ hits[a] <= time
    BY <1>2, <1>3, <2>4, <2>5
  <2>7. hits[a] \in cutoff..later
    BY <1>0, <1>2, <2>6
  <2> QED BY <1>1, <2>1, <2>2, <2>3, <2>7
<1>8. InWindow(rest, later)
  BY <1>7 DEF InWindow
<1> QED BY <1>0, <1>2, <1>4, <1>8

LEMMA WindowInit == Init => WindowInv
<1> SUFFICES ASSUME Init PROVE WindowInv
  OBVIOUS
<1>1. \A k : HitsIn(admitted, k) = {}
  BY DEF Init, HitsIn
<1>2. ASSUME NEW k \in Keys PROVE Recorded(store[k], admitted, k)
  <2>1. [h \in {} |-> 0] \in [HitsIn(admitted, k) -> DOMAIN store[k]]
    BY <1>1
  <2> QED BY <1>1, <2>1 DEF Recorded
<1> QED BY <1>2 DEF Init, WindowInv, InWindow

LEMMA WindowAdmit ==
    ASSUME LimiterInv, WindowInv, NEW c \in Callers, Admit(Key(c), c)
    PROVE  WindowInv'
<1>1. /\ now \in 0..MaxNow /\ now \in Int /\ now - Window \in Int
      /\ store \in [Keys -> Seq(0..MaxNow)] /\ admitted \in [Callers -> Seq(0..MaxNow)]
      /\ Key(c) \in Keys
  BY Constants, KeyType DEF LimiterInv, TypeOK
<1>2. /\ store' = [store EXCEPT ![Key(c)] = Append(Since(now - Window, store[Key(c)]), now)]
      /\ admitted' = [admitted EXCEPT ![c] = Append(@, now)]
      /\ now' = now
  BY <1>1 DEF Admit, Pruned
<1>3. ASSUME NEW d \in Callers PROVE InWindow(admitted'[d], now')
  <2>1. InWindow(admitted[d], now) /\ admitted[d] \in Seq(0..MaxNow)
    BY <1>1 DEF WindowInv
  <2>2. InWindow(Append(admitted[d], now), now)
    BY <1>1, <2>1, InWindowMore
  <2> QED BY <1>1, <1>2, <2>1, <2>2
<1>4. \A d \in Callers : \A i \in DOMAIN admitted[d] : admitted[d][i] >= now - Window
  BY <1>1, Constants DEF WindowInv, InWindow
<1>5. ASSUME NEW k \in Keys PROVE Recorded(store'[k], admitted', k)
  <2>1. Recorded(store[k], admitted, k) /\ store[k] \in Seq(0..MaxNow)
    BY <1>1 DEF WindowInv
  <2>2. CASE k = Key(c)
    <3>1. Recorded(Append(Since(now - Window, store[k]), now),
                   [admitted EXCEPT ![c] = Append(@, now)], k)
      BY <1>1, <1>4, <2>1, <2>2, RecordedOneMore
    <3>2. store'[k] = Append(Since(now - Window, store[k]), now)
      BY <1>1, <1>2, <2>2
    <3> QED BY <1>2, <3>1, <3>2
  <2>3. CASE k # Key(c)
    <3>1. Recorded(store[k], [admitted EXCEPT ![c] = Append(@, now)], k)
      BY <1>1, <2>1, <2>3, RecordedElsewhere
    <3>2. store'[k] = store[k]
      BY <1>1, <1>2, <2>3
    <3> QED BY <1>2, <3>1, <3>2
  <2> QED BY <2>2, <2>3
<1> QED BY <1>3, <1>5 DEF WindowInv

LEMMA WindowRefuse ==
    ASSUME LimiterInv, WindowInv, NEW k \in Keys, Refuse(k)
    PROVE  WindowInv'
<1>1. Pruned(store[k]) = store[k]
  BY FullBucket DEF Refuse
<1>2. store' = store /\ now' = now /\ admitted' = admitted
  BY <1>1 DEF Refuse, LimiterInv, TypeOK
<1> QED BY <1>2 DEF WindowInv

LEMMA WindowTick ==
    ASSUME LimiterInv, WindowInv, Tick
    PROVE  WindowInv'
<1>1. /\ now \in 0..MaxNow /\ now' = now + 1 /\ now' - Window \in Int
      /\ now' - Window = now + 1 - Window
      /\ admitted \in [Callers -> Seq(0..MaxNow)]
      /\ admitted' = [d \in Callers |-> Since(now' - Window, admitted[d])]
      /\ store' = store
  BY Constants DEF LimiterInv, TypeOK, Tick
<1>2. ASSUME NEW d \in Callers PROVE InWindow(admitted'[d], now')
  <2>1. InWindow(Since(now + 1 - Window, admitted[d]), now + 1)
    BY <1>1, InWindowLater DEF WindowInv
  <2> QED BY <1>1, <2>1
<1>3. ASSUME NEW k \in Keys PROVE Recorded(store'[k], admitted', k)
  <2>1. Recorded(store[k], [d \in Callers |-> Since(now' - Window, admitted[d])], k)
    BY <1>1, RecordedLess DEF WindowInv
  <2> QED BY <1>1, <2>1
<1> QED BY <1>2, <1>3 DEF WindowInv

LEMMA WindowRestart ==
    ASSUME Restart
    PROVE  WindowInv'
<1>1. \A k : HitsIn(admitted', k) = {}
  BY DEF Restart, HitsIn
<1>2. ASSUME NEW k \in Keys PROVE Recorded(store'[k], admitted', k)
  <2>1. [h \in {} |-> 0] \in [HitsIn(admitted', k) -> DOMAIN store'[k]]
    BY <1>1
  <2> QED BY <1>1, <2>1 DEF Recorded
<1> QED BY <1>2 DEF Restart, WindowInv, InWindow

LEMMA WindowStep ==
    ASSUME LimiterInv, WindowInv, [Next]_vars
    PROVE  WindowInv'
<1>1. CASE \E c \in Callers : Request(c)
  BY <1>1, KeyType, WindowAdmit, WindowRefuse DEF Request
<1>2. CASE Tick
  BY <1>2, WindowTick
<1>3. CASE Restart
  BY <1>3, WindowRestart
<1>4. CASE UNCHANGED vars
  BY <1>4 DEF vars, WindowInv
<1> QED BY <1>1, <1>2, <1>3, <1>4 DEF Next

\* As many hits as are admitted in the window are in the bucket, which is never
\* over the limit.
LEMMA WindowFollows == LimiterInv /\ WindowInv => WindowRespected
<1> SUFFICES ASSUME LimiterInv, WindowInv, NEW c \in Callers
             PROVE  Cardinality(UNION {{d} \X DOMAIN admitted[d] :
                                          d \in {d \in Callers : Same(c, d)}}) <= Limit[c[1]]
  BY DEF WindowRespected
<1>1. PICK all : all = UNION {{d} \X DOMAIN admitted[d] : d \in {d \in Callers : Same(c, d)}}
  OBVIOUS
<1>2. PICK k : k = Key(c)
  OBVIOUS
<1>3. /\ k \in Keys /\ k[1] = c[1] /\ Limit[k[1]] \in Nat
      /\ store[k] \in Seq(0..MaxNow) /\ Len(store[k]) <= Limit[k[1]]
      /\ admitted \in [Callers -> Seq(0..MaxNow)]
  BY <1>2, KeyType, Constants DEF LimiterInv, TypeOK
<1>4. all \subseteq HitsIn(admitted, k)
  <2>1. ASSUME NEW d \in Callers, Same(c, d), NEW n \in DOMAIN admitted[d]
        PROVE  <<d, n>> \in HitsIn(admitted, k)
    <3>1. Key(d) = k
      BY <1>2, <2>1 DEF Same, Key
    <3>2. n \in Nat
      BY <1>3
    <3> QED BY <3>1, <3>2 DEF HitsIn
  <2> QED BY <1>1, <2>1
<1>5. PICK f \in [HitsIn(admitted, k) -> DOMAIN store[k]] :
         \A g, h \in HitsIn(admitted, k) : f[g] = f[h] => g = h
  BY <1>3 DEF WindowInv, Recorded
<1>6. PICK places : places = 1..Len(store[k])
  OBVIOUS
<1>7. IsFiniteSet(places) /\ Cardinality(places) = Len(store[k]) /\ DOMAIN store[k] = places
  <2>1. PICK n \in Nat : n = Len(store[k])
    BY <1>3
  <2>2. 1 \in Int /\ n \in Int /\ (IF 1 > n THEN 0 ELSE n - 1 + 1) = n
    BY <2>1
  <2>3. IsFiniteSet(1..n) /\ Cardinality(1..n) = n
    BY <2>2, FS_Interval
  <2> QED BY <1>3, <1>6, <2>1, <2>3
<1>8. PICK at : at = [h \in all |-> f[h]]
  OBVIOUS
<1>9. at \in Injection(all, places)
  <2>1. at \in [all -> places]
    BY <1>4, <1>5, <1>7, <1>8
  <2>2. \A g, h \in all : at[g] = at[h] => g = h
    BY <1>4, <1>5, <1>8
  <2> QED BY <2>1, <2>2 DEF Injection, IsInjective
<1>10. IsFiniteSet(all) /\ Cardinality(all) <= Cardinality(places)
  BY <1>7, <1>9, FS_Injection
<1>11. Cardinality(all) \in Nat
  BY <1>10, FS_CardinalityType
<1> QED BY <1>1, <1>3, <1>7, <1>10, <1>11

-----------------------------------------------------------------------------
(* Tokens                                                                  *)

\* Whole seconds: less than one second is cut off.
LEMMA WholeSeconds ==
    ASSUME NEW x \in Int, NEW d \in Nat \ {0}
    PROVE  /\ (x \div d) * d \in Int
           /\ (x \div d) * d <= x /\ x - d < (x \div d) * d
<1>1. PICK q \in Int : q = x \div d
  OBVIOUS
<1>2. q * d <= x /\ x < q * d + d
  BY <1>1
<1> QED
  BY <1>1, <1>2

LEMMA PathConstants ==
    /\ Second \in Nat \ {0} /\ Hour \in Nat \ {0} /\ MaxNow \in Nat
    /\ AccessTtl \in Nat \ {0} /\ RefreshTtl \in Nat \ {0}
    /\ Changes \subseteq [at : Nat \ {0}, autumn : BOOLEAN]
BY LimiterAssumption, PathAssumption

\* An expiry computed with local times is off by an hour at most, and only
\* around the change of the clock.
LEMMA ExpiryBounds ==
    ASSUME change \in Changes, NEW at \in Nat, NEW ttl \in Nat \ {0}, NEW slack,
           slack = IF at + ttl < change.at \/ at >= change.at + Hour THEN 0 ELSE Hour
    PROVE  /\ Expiry(at, ttl) \in Int
           /\ at + ttl - slack - Second < Expiry(at, ttl)
           /\ Expiry(at, ttl) <= at + ttl + slack
<1> USE PathConstants
<1>1. PICK jump \in Nat \ {0} : jump = change.at
  OBVIOUS
<1>2. PICK x : x = Timestamp(Local(at) + ttl)
  OBVIOUS
<1>3. x \in Int /\ at + ttl - slack <= x /\ x <= at + ttl + slack
  <2>1. CASE change.autumn
    <3>1. x = LET local == at + (IF at < jump THEN Hour ELSE 0) + ttl
              IN  local - (IF local < jump + Hour THEN Hour ELSE 0)
      BY <1>1, <1>2, <2>1 DEF Timestamp, Local, OffsetBefore, OffsetAfter
    <3> QED
      BY <1>1, <3>1
  <2>2. CASE ~change.autumn
    <3>1. x = LET local == at + (IF at < jump THEN 0 ELSE Hour) + ttl
              IN  local - (IF local < jump + Hour THEN 0 ELSE Hour)
      BY <1>1, <1>2, <2>2 DEF Timestamp, Local, OffsetBefore, OffsetAfter
    <3> QED
      BY <1>1, <3>1
  <2> QED
    BY <2>1, <2>2
<1>4. Expiry(at, ttl) = (x \div Second) * Second
  BY <1>2 DEF Expiry
<1>5. /\ Expiry(at, ttl) \in Int
      /\ Expiry(at, ttl) <= x /\ x - Second < Expiry(at, ttl)
  BY <1>3, <1>4, WholeSeconds
<1>6. slack \in Int
  OBVIOUS
<1> QED
  BY <1>3, <1>5, <1>6

\* The pair that is remembered was issued as a whole, not after now.
SessionInv ==
    /\ change \in Changes
    /\ session = NoSession \/ (session.at \in 0..now /\ session = Pair(session.at))

LEMMA PairType ==
    ASSUME change \in Changes, NEW at \in 0..MaxNow
    PROVE  Pair(at) \in [at : 0..MaxNow, access : Int, refresh : Int] /\ Pair(at).at = at
<1>1. at \in Nat
  BY PathConstants
<1>2. Expiry(at, AccessTtl) \in Int /\ Expiry(at, RefreshTtl) \in Int
  BY <1>1, ExpiryBounds, PathConstants
<1> QED
  BY <1>2 DEF Pair

LEMMA LifetimeFollows ==
    ASSUME change \in Changes, now \in 0..MaxNow, session.at \in Nat,
           NEW ttl \in Nat \ {0}
    PROVE  Kept(Expiry(session.at, ttl), ttl)
<1> USE PathConstants
<1>1. PICK slack : slack = Slack(ttl)
  OBVIOUS
<1>2. slack = IF session.at + ttl < change.at \/ session.at >= change.at + Hour
              THEN 0 ELSE Hour
  BY <1>1 DEF Slack
<1>3. /\ Expiry(session.at, ttl) \in Int
      /\ session.at + ttl - slack - Second < Expiry(session.at, ttl)
      /\ Expiry(session.at, ttl) <= session.at + ttl + slack
  BY <1>2, ExpiryBounds
<1>4. slack \in Nat
  BY <1>2
<1> QED
  BY <1>1, <1>3, <1>4 DEF Kept, Valid

LEMMA LifetimesFollow ==
    ASSUME SessionInv, now \in 0..MaxNow
    PROVE  LifetimesKept
<1>1. SUFFICES ASSUME session # NoSession
               PROVE  Kept(session.access, AccessTtl) /\ Kept(session.refresh, RefreshTtl)
  BY DEF LifetimesKept
<1>2. session.at \in Nat /\ session = Pair(session.at)
  BY <1>1, PathConstants DEF SessionInv
<1>3. /\ session.access = Expiry(session.at, AccessTtl)
      /\ session.refresh = Expiry(session.at, RefreshTtl)
  BY <1>2 DEF Pair
<1> QED
  BY <1>2, <1>3, LifetimeFollows, PathConstants DEF SessionInv

-----------------------------------------------------------------------------
(* The chain                                                               *)

LEMMA Places ==
    /\ Place["headers"] = 1 /\ Place["audit"] = 2 /\ Place["allowlist"] = 3
    /\ Place["limit"] = 4 /\ Place["size"] = 5 /\ Place["routes"] = 6
<1>1. DOMAIN Chain = 1..6
  BY DEF Chain
<1>2. \A i \in 1..6 : Chain[i] \in Range(Chain)
  BY <1>1 DEF Range
<1>3. /\ Chain[1] = "headers" /\ Chain[2] = "audit" /\ Chain[3] = "allowlist"
      /\ Chain[4] = "limit" /\ Chain[5] = "size" /\ Chain[6] = "routes"
  BY DEF Chain
<1>4. ASSUME NEW n \in 1..6  PROVE  Place[Chain[n]] = n
  <2>1. \A i \in DOMAIN Chain : Chain[i] = Chain[n] <=> i = n
    BY <1>1, <1>3
  <2>2. Place[Chain[n]] = CHOOSE i \in DOMAIN Chain : Chain[i] = Chain[n]
    BY <1>2 DEF Place
  <2> QED
    BY <1>1, <2>1, <2>2
<1> QED
  BY <1>3, <1>4

\* The layer that answers would answer, and none further out would.
LEMMA AnswererIsFirst ==
    ASSUME NEW caller, NEW big \in BOOLEAN
    PROVE  /\ Answerer(caller, big) \in Answerers(caller, big)
           /\ \A other \in Answerers(caller, big) :
                  Place[Answerer(caller, big)] <= Place[other]
<1>1. \E layer \in Answerers(caller, big) :
         \A other \in Answerers(caller, big) : Place[layer] <= Place[other]
  <2>1. Answerers(caller, big) \subseteq {"allowlist", "limit", "size", "routes"}
    BY DEF Answerers
  <2>2. "routes" \in Answerers(caller, big)
    BY DEF Answerers
  <2>3. CASE "allowlist" \in Answerers(caller, big)
    BY <2>1, <2>3, Places
  <2>4. CASE "allowlist" \notin Answerers(caller, big) /\ "limit" \in Answerers(caller, big)
    BY <2>1, <2>4, Places
  <2>5. CASE /\ Answerers(caller, big) \cap {"allowlist", "limit"} = {}
             /\ "size" \in Answerers(caller, big)
    BY <2>1, <2>5, Places
  <2>6. CASE Answerers(caller, big) \cap {"allowlist", "limit", "size"} = {}
    BY <2>1, <2>2, <2>6, Places
  <2> QED
    BY <2>3, <2>4, <2>5, <2>6
<1> QED
  BY <1>1 DEF Answerer

\* What any request does to the state: one layer answers it, it counts if it
\* gets as far as the limiter, and only addresses that are allowed get there.
LEMMA HandledBy ==
    ASSUME NEW path \in DOMAIN BucketOf, NEW c \in Callers, Handled(path, c)
    PROVE  /\ \E layer \in {"allowlist", "limit", "size", "routes"}, status \in Statuses :
                 /\ Answer(path, c, layer, status)
                 /\ Place["limit"] <= Place[layer] => c[2] \in Allowed
           /\ session' = session \/ session' = Pair(now)
           /\ change' = change
<1>1. ASSUME NEW big \in BOOLEAN
      PROVE  /\ Answerer(c, big) \in {"allowlist", "limit", "size", "routes"}
             /\ Place["limit"] <= Place[Answerer(c, big)] => c[2] \in Allowed
  <2>1. Answerer(c, big) \in {"allowlist", "limit", "size", "routes"}
    BY AnswererIsFirst DEF Answerers
  <2>2. ASSUME c[2] \notin Allowed  PROVE  Place[Answerer(c, big)] <= 3
    <3>1. "allowlist" \in Answerers(c, big)
      BY <2>2 DEF Answerers
    <3> QED
      BY <3>1, AnswererIsFirst, Places
  <2>3. Place[Answerer(c, big)] \in 3..6
    BY <2>1, Places
  <2> QED
    BY <2>1, <2>2, <2>3, Places
<1>2. CASE \E big \in BOOLEAN : TurnedAway(path, c, big)
  <2>1. PICK big \in BOOLEAN : TurnedAway(path, c, big)
    BY <1>2
  <2>2. PICK layer : layer = Answerer(c, big)
    OBVIOUS
  <2>3. PICK status : status = [allowlist |-> 403, limit |-> 429, size |-> 413][layer]
    OBVIOUS
  <2>4. layer \in {"allowlist", "limit", "size"} /\ Answer(path, c, layer, status)
    BY <1>1, <2>1, <2>2, <2>3 DEF TurnedAway
  <2>5. status \in Statuses
    BY <2>3, <2>4 DEF Statuses
  <2> QED
    BY <1>1, <2>1, <2>2, <2>4, <2>5 DEF TurnedAway
<1>3. CASE Answerer(c, FALSE) = "routes"
  <2>1. c[2] \in Allowed
    <3>1. Place["limit"] <= Place[Answerer(c, FALSE)] => c[2] \in Allowed
      BY <1>1
    <3>2. Place[Answerer(c, FALSE)] = 6
      BY <1>3, Places, Zenon
    <3> QED
      BY <3>1, <3>2, Places
  <2>2. ASSUME NEW satisfied \in BOOLEAN, NEW otherwise \in {401, 403},
               Issues(path, c, satisfied, otherwise)
        PROVE  /\ \E status \in Statuses : Answer(path, c, "routes", status)
               /\ session' = session \/ session' = Pair(now)
               /\ change' = change
    BY <2>2 DEF Issues, Statuses
  <2>3. CASE path = "token" /\ \E right \in BOOLEAN : IssueToken(c, right)
    BY <2>1, <2>2, <2>3 DEF IssueToken
  <2>4. CASE path = "refresh" /\ \E type \in {"access", "refresh"} : RefreshToken(c, type)
    <3>1. PICK type : Issues(path, c, type = "refresh" /\ Valid(session.refresh), 401)
      BY <2>4 DEF RefreshToken
    <3>2. PICK ok \in BOOLEAN : Issues(path, c, ok, 401)
      <4>1. CASE type = "refresh" /\ Valid(session.refresh)
        <5>1. Issues(path, c, TRUE, 401)
          BY <3>1, <4>1 DEF Issues
        <5> QED
          BY <5>1
      <4>2. CASE ~(type = "refresh" /\ Valid(session.refresh))
        <5>1. Issues(path, c, FALSE, 401)
          BY <3>1, <4>2 DEF Issues
        <5> QED
          BY <5>1
      <4> QED
        BY <4>1, <4>2
    <3> QED
      BY <2>1, <2>2, <3>2
  <2>5. CASE path = "dev_token" /\ DevToken(c)
    <3>1. PICK ok \in BOOLEAN : Issues(path, c, ok, 403)
      <4>1. CASE c[2] \in DevIps
        <5>1. Issues(path, c, TRUE, 403)
          BY <2>5, <4>1 DEF DevToken, Issues
        <5> QED
          BY <5>1
      <4>2. CASE c[2] \notin DevIps
        <5>1. Issues(path, c, FALSE, 403)
          BY <2>5, <4>2 DEF DevToken, Issues
        <5> QED
          BY <5>1
      <4> QED
        BY <4>1, <4>2
    <3> QED
      BY <2>1, <2>2, <3>1
  <2>6. CASE \E type \in {"access", "refresh"} : Data(path, c, type)
    BY <2>1, <2>6 DEF Data, Statuses
  <2> QED
    BY <1>2, <1>3, <2>1, <2>3, <2>4, <2>5, <2>6 DEF Handled
<1> QED
  BY <1>2, <1>3 DEF Handled
-----------------------------------------------------------------------------
(* The theorems                                                            *)

\* The limiter, the tokens and the two promises of the chain together: each is
\* preserved by every step, and the state properties follow from it.
PathInv ==
    /\ LimiterInv /\ WindowInv
    /\ SessionInv
    /\ OnlyCrashesSlip
    /\ ForbiddenCostsNothing

LEMMA PathInitial == PathInit => PathInv
<1> SUFFICES ASSUME PathInit PROVE PathInv
  OBVIOUS
<1>1. LimiterInv /\ WindowInv
  BY LimiterInit, WindowInit DEF PathInit
<1> QED
  BY <1>1 DEF PathInit, Init, PathInv, SessionInv, OnlyCrashesSlip, ForbiddenCostsNothing

\* A session that was there, or is issued now, is one the invariant allows.
LEMMA SessionStep ==
    ASSUME SessionInv, now \in 0..MaxNow, now' \in 0..MaxNow, now <= now',
           session' = session \/ (session' = Pair(now) /\ now' = now), change' = change
    PROVE  SessionInv'
<1>1. \A time : Pair(time)' = Pair(time)
  BY DEF Pair, Expiry, Timestamp, Local, OffsetBefore, OffsetAfter
<1>2. CASE session' = session
  <2>1. CASE session = NoSession
    BY <1>2, <2>1 DEF SessionInv, NoSession
  <2>2. CASE session.at \in 0..now /\ session = Pair(session.at)
    <3>1. session.at \in 0..now'
      BY <2>2, PathConstants
    <3>2. session' = Pair(session.at)'
      BY <1>1, <1>2, <2>2
    <3> QED
      BY <1>2, <3>1, <3>2 DEF SessionInv
  <2> QED
    BY <2>1, <2>2 DEF SessionInv
<1>3. CASE session' = Pair(now) /\ now' = now
  <2>1. Pair(now).at = now
    BY PairType DEF SessionInv
  <2>2. session' = Pair(session.at)' /\ session'.at \in 0..now'
    BY <1>1, <1>3, <2>1, PathConstants
  <2> QED
    BY <2>2 DEF SessionInv
<1> QED
  BY <1>2, <1>3

LEMMA HandledStep ==
    ASSUME PathInv, NEW path \in DOMAIN BucketOf, NEW c \in Callers, Handled(path, c)
    PROVE  PathInv'
<1>1. PICK layer \in {"allowlist", "limit", "size", "routes"}, status \in Statuses :
         /\ Answer(path, c, layer, status)
         /\ Place["limit"] <= Place[layer] => c[2] \in Allowed
  BY HandledBy
<1>2. (session' = session \/ session' = Pair(now)) /\ change' = change
  BY HandledBy
<1>3. \/ Request(c) /\ c[2] \in Allowed
      \/ UNCHANGED vars
  BY <1>1 DEF Answer, Counted
<1>4. LimiterInv' /\ WindowInv'
  BY <1>3, LimiterStep, WindowStep DEF Next, PathInv
<1>5. now' = now /\ now \in 0..MaxNow
  BY <1>3 DEF Request, Admit, Refuse, vars, PathInv, LimiterInv, TypeOK
<1>6. SessionInv'
  BY <1>2, <1>5, SessionStep, PathConstants DEF PathInv
<1>7. OnlyCrashesSlip'
  <2>1. Place["headers"] < Place[layer] /\ Place["audit"] < Place[layer]
    BY Places
  <2>2. slipped' = slipped \/ (status = 500 /\ slipped' = slipped \cup {500})
    BY <1>1, <2>1 DEF Answer
  <2> QED
    BY <2>2 DEF PathInv, OnlyCrashesSlip
<1>8. ForbiddenCostsNothing'
  <2>1. CASE Request(c) /\ c[2] \in Allowed
    <3>1. ASSUME NEW d \in Callers, d # c  PROVE  admitted'[d] = admitted[d]
      BY <2>1, <3>1 DEF Request, Admit, Refuse, PathInv, LimiterInv, TypeOK
    <3> QED
      BY <2>1, <3>1 DEF PathInv, ForbiddenCostsNothing
  <2>2. CASE UNCHANGED vars
    BY <2>2 DEF vars, PathInv, ForbiddenCostsNothing
  <2> QED
    BY <1>3, <2>1, <2>2
<1> QED
  BY <1>4, <1>6, <1>7, <1>8 DEF PathInv

LEMMA PathStep ==
    ASSUME PathInv, [PathNext]_pathVars
    PROVE  PathInv'
<1>1. CASE \E path \in DOMAIN BucketOf, c \in Callers : Handled(path, c)
  BY <1>1, HandledStep
<1>2. CASE (Tick \/ Restart) /\ UNCHANGED <<change, session, slipped>>
  <2>1. LimiterInv' /\ WindowInv'
    BY <1>2, LimiterStep, WindowStep DEF Next, PathInv
  <2>2. now \in 0..MaxNow /\ now' \in 0..MaxNow /\ now <= now'
    BY <1>2, <2>1, PathConstants DEF PathInv, LimiterInv, TypeOK, Tick, Restart
  <2>3. SessionInv'
    BY <1>2, <2>2, SessionStep DEF PathInv
  <2>4. OnlyCrashesSlip'
    BY <1>2 DEF PathInv, OnlyCrashesSlip
  <2>5. \A c \in Callers : admitted[c] = <<>> => admitted'[c] = <<>>
    <3>1. CASE Tick
      <4>1. now' - Window \in Int /\ 0..MaxNow \in SUBSET Int
        BY <2>2, Constants
      <4>2. \A c \in Callers : admitted[c] \in Seq(0..MaxNow)
        BY DEF PathInv, LimiterInv, TypeOK
      <4>3. \A c \in Callers : admitted[c] = <<>> => Since(now' - Window, admitted[c]) = <<>>
        BY <4>1, <4>2, SinceProperties
      <4> QED
        BY <3>1, <4>3 DEF Tick
    <3>2. CASE Restart
      BY <3>2 DEF Restart
    <3> QED
      BY <1>2, <3>1, <3>2
  <2>6. ForbiddenCostsNothing'
    BY <2>5 DEF PathInv, ForbiddenCostsNothing
  <2> QED
    BY <2>1, <2>3, <2>4, <2>6 DEF PathInv
<1>3. CASE UNCHANGED pathVars
  <2>1. UNCHANGED vars /\ UNCHANGED <<change, session, slipped>> /\ now' = now
    BY <1>3 DEF pathVars, vars
  <2>2. LimiterInv' /\ WindowInv' /\ now \in 0..MaxNow
    BY <2>1, LimiterStep, WindowStep DEF PathInv, LimiterInv, TypeOK
  <2>3. SessionInv'
    BY <2>1, <2>2, SessionStep, PathConstants DEF PathInv
  <2> QED
    BY <2>1, <2>2, <2>3 DEF vars, PathInv, OnlyCrashesSlip, ForbiddenCostsNothing
<1> QED
  BY <1>1, <1>2, <1>3 DEF PathNext

LEMMA PathInvariant == PathSpec => []PathInv
BY PathInitial, PathStep, PTL DEF PathSpec

LEMMA PathTyped == PathInv => PathTypeOK
<1> SUFFICES ASSUME PathInv PROVE PathTypeOK
  OBVIOUS
<1>1. TypeOK /\ now \in 0..MaxNow
  BY DEF PathInv, LimiterInv, TypeOK
<1>2. session \in [at : 0..MaxNow, access : Int, refresh : Int]
  <2>1. CASE session = NoSession
    BY <2>1, PathConstants DEF NoSession
  <2>2. CASE session.at \in 0..now /\ session = Pair(session.at)
    <3>1. session.at \in 0..MaxNow
      BY <1>1, <2>2, PathConstants
    <3> QED
      BY <2>2, <3>1, PairType DEF PathInv, SessionInv
  <2> QED
    BY <2>1, <2>2 DEF PathInv, SessionInv
<1> QED
  BY <1>1, <1>2 DEF PathTypeOK, PathInv, SessionInv, OnlyCrashesSlip, Statuses

\* The windows of the limiter, the tokens and the record of what slipped by
\* stay typed.
THEOREM TypeCorrect == PathSpec => []PathTypeOK
BY PathInvariant, PathTyped, PTL

\* No interval of one window has more requests of one caller in it than the
\* limit, whatever the window and the limits, and although hits are forgotten:
\* each request of the window is still in the bucket (_SlidingWindow.hit).
THEOREM LimitsAreKept == PathSpec => []WindowRespected
<1>1. PathInv => WindowRespected
  BY WindowFollows DEF PathInv
<1> QED
  BY <1>1, PathInvariant, PTL

\* Retry-After is neither too short nor too long, whatever the limits, the
\* window and the instants at which requests come (_SlidingWindow.hit).
THEOREM RetryAfterTellsTheTruth == PathSpec => []RetryAfterExact
<1>1. PathInv => RetryAfterExact
  BY RetryAfterFollows DEF PathInv
<1> QED
  BY <1>1, PathInvariant, PTL

\* Tokens are good for the lifetime that is stated with them, but for the hour
\* around a change of the clock, whatever the lifetimes (_issue_token, _decode).
THEOREM TokensKeepTheirLifetimes == PathSpec => []LifetimesKept
<1>1. PathInv => LifetimesKept
  BY LifetimesFollow DEF PathInv, LimiterInv, TypeOK
<1> QED
  BY <1>1, PathInvariant, PTL

\* No response but that of an uncaught exception lacks its headers or its row
\* in the audit log (main.py's order of the middleware).
THEOREM ResponsesAreStampedAndLogged == PathSpec => []OnlyCrashesSlip
BY PathInvariant, PTL DEF PathInv

\* Requests from addresses off the allowlist never count in a window.
THEOREM ForbiddenRequestsAreFree == PathSpec => []ForbiddenCostsNothing
BY PathInvariant, PTL DEF PathInv
=============================================================================
