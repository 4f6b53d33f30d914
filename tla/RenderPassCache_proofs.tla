----------------------- MODULE RenderPassCache_proofs -----------------------
(***************************************************************************)
(* The render pass cache for any number of threads, any infos, workloads,  *)
(* tables and hashes: first its hash maps, then its lock, then the         *)
(* requests made of both, and the passes that are built.                   *)
(***************************************************************************)
EXTENDS RenderPassCache, TLAPS, WellFoundedInduction, FiniteSetTheorems, SequenceTheorems

(***************************************************************************)
(* The hash maps keep every element where it is found: what each operation *)
(* of HashMap does to a map of any size, any list and any hash.            *)
(*                                                                         *)
(* A growth reinserts a whole list, and a frame erases a whole ring.  The  *)
(* folds that do so are unfolded into the chain of their steps, and what   *)
(* holds of the chain follows by the least step at which it would fail.    *)
(***************************************************************************)

(* A set of numbers that is not empty has a least element.                 *)
LEMMA Least ==
  ASSUME NEW T \in SUBSET Nat, T # {}
  PROVE  \E n \in T : \A m \in T : n <= m
<1> DEFINE R == {ss \in Nat \X Nat : ss[1] < ss[2]}
<1>1. IsWellFoundedOn(R, Nat) BY NatLessThanWellFounded DEF OpToRel
<1> HIDE DEF R
<1>2. \E x \in T : \A y \in T : ~ (<<y, x>> \in R) BY <1>1, WFMin
<1>3. PICK x \in T : \A y \in T : ~ (<<y, x>> \in R) BY <1>2
<1>4. ASSUME NEW y \in T PROVE x <= y
  <2>1. <<y, x>> \notin R BY <1>3
  <2>2. x \in Nat /\ y \in Nat /\ <<y, x>> \in Nat \X Nat OBVIOUS
  <2>3. ~ (y < x) BY <2>1, <2>2 DEF R
  <2> QED BY <2>2, <2>3
<1> QED BY <1>4

(* What Min chooses in a set of natural numbers.                           *)
LEMMA MinOf ==
  ASSUME NEW T \in SUBSET Nat, T # {}
  PROVE  Min(T) \in T /\ \A m \in T : Min(T) <= m
BY Least DEF Min

(* Factor is what its recursive definition says.                           *)
LEMMA FactorGrows ==
  /\ Factor[0] = 1
  /\ \A n \in 1..MaxDoublings : Factor[n] = 2 * Factor[n - 1]
<1> DEFINE Body(h, k) == [n \in 0..k |-> IF n = 0 THEN 1 ELSE 2 * h[n - 1]]
           Bad == {k \in 0..MaxDoublings : ~ \E h : h = Body(h, k)}
<1>0. MaxDoublings \in Nat
  BY SizesAssumption
<1>1. \A k \in 0..MaxDoublings : \E h : h = Body(h, k)
  <2> SUFFICES ASSUME Bad # {} PROVE FALSE
    OBVIOUS
  <2>1. PICK m \in Bad : \A k \in Bad : m <= k
    <3>1. Bad \in SUBSET Nat
      BY <1>0
    <3> HIDE DEF Bad
    <3> QED BY <3>1, Least
  <2>2. m \in Nat /\ m \in 0..MaxDoublings /\ ~ \E h : h = Body(h, m)
    <3>1. m \in 0..MaxDoublings /\ m \in Nat
      BY <1>0
    <3>2. ~ \E h : h = Body(h, m)
      BY Zenon
    <3> QED BY <3>1, <3>2, Zenon
  <2>3. m # 0
    <3> DEFINE z == [n \in 0..0 |-> 1]
    <3>1. z = Body(z, 0)
      OBVIOUS
    <3> QED BY <2>2, <3>1
  <2>4. PICK h : h = Body(h, m - 1)
    <3>1. m - 1 \in 0..MaxDoublings /\ m - 1 \notin Bad
      <4> HIDE DEF Bad
      <4>1. m - 1 \in 0..MaxDoublings /\ ~(m <= m - 1)
        BY <2>2, <2>3, <1>0
      <4> QED BY <4>1, <2>1
    <3> QED BY <3>1, Zenon
  <2> HIDE DEF Bad
  <2> DEFINE h2 == Body(h, m)
  <2>5. ASSUME NEW n \in 0..m
        PROVE  h2[n] = IF n = 0 THEN 1 ELSE 2 * h2[n - 1]
    <3>1. CASE n = 0
      BY <3>1
    <3>2. CASE n # 0
      <4>1. n - 1 \in 0..m - 1 /\ n - 1 \in 0..m
        BY <3>2, <2>2
      <4>2. h[n - 1] = IF n - 1 = 0 THEN 1 ELSE 2 * h[n - 1 - 1]
        BY <2>4, <4>1, Zenon
      <4>3. h2[n - 1] = h[n - 1]
        BY <4>1, <4>2
      <4> QED BY <3>2, <4>3
    <3> QED BY <3>1, <3>2
  <2>6. h2 = Body(h2, m)
    BY <2>5
  <2> QED BY <2>2, <2>6
<1>2. Factor = Body(Factor, MaxDoublings)
  <2>1. \E h : h = Body(h, MaxDoublings)
    <3>1. MaxDoublings \in 0..MaxDoublings
      BY <1>0
    <3> QED BY <1>1, <3>1, Zenon
  <2>2. (CHOOSE h : h = Body(h, MaxDoublings))
          = Body((CHOOSE h : h = Body(h, MaxDoublings)), MaxDoublings)
    BY <2>1, Zenon
  <2> QED BY <2>2 DEF Factor
<1> QED BY <1>0, <1>2

(* A table is never made smaller.                                          *)
LEMMA FactorPositive ==
  \A n \in 0..MaxDoublings : Factor[n] \in Nat \ {0}
<1> DEFINE Bad == {n \in 0..MaxDoublings : Factor[n] \notin Nat \ {0}}
<1>0. MaxDoublings \in Nat
  BY SizesAssumption
<1> SUFFICES ASSUME Bad # {} PROVE FALSE
  OBVIOUS
<1>1. PICK m \in Bad : \A k \in Bad : m <= k
  <2>1. Bad \in SUBSET Nat
    BY <1>0
  <2> HIDE DEF Bad
  <2> QED BY <2>1, Least
<1>2. m # 0
  BY FactorGrows
<1>3. m - 1 \in 0..MaxDoublings /\ m \in 1..MaxDoublings /\ m - 1 \notin Bad
  <2>1. m \in 0..MaxDoublings
    OBVIOUS
  <2> HIDE DEF Bad
  <2>2. ~(m <= m - 1)
    BY <2>1, <1>0
  <2> QED BY <2>1, <2>2, <1>1, <1>2, <1>0
<1>4. Factor[m - 1] \in Nat \ {0} /\ Factor[m] = 2 * Factor[m - 1]
  BY <1>3, FactorGrows
<1> QED BY <1>4

(* A remainder is below its divisor, and small numbers are their own.      *)
LEMMA Remainder ==
  ASSUME NEW a \in Nat, NEW b \in Nat \ {0}
  PROVE  a % b \in 0..b - 1 /\ (a < b => a % b = a)
OBVIOUS

(* The bound on hashes: the last doubling of any table has a slot for each.*)
LEMMA LargestFits ==
  ASSUME NEW size \in Nat, size >= InitialSize, NEW h \in HashValues
  PROVE  /\ h < InitialSize * Factor[MaxDoublings - 1]
         /\ InitialSize * Factor[MaxDoublings - 1] <= size * Factor[MaxDoublings]
<1>1. MaxDoublings - 1 \in 0..MaxDoublings /\ MaxDoublings \in 1..MaxDoublings
      /\ MaxDoublings \in 0..MaxDoublings
  BY SizesAssumption
<1>2. PICK f \in Nat \ {0} : f = Factor[MaxDoublings - 1]
  BY <1>1, FactorPositive
<1>3. Factor[MaxDoublings] = 2 * f
  BY <1>1, <1>2, FactorGrows
<1>4. InitialSize \in Nat
  BY SizesAssumption
<1>5. InitialSize * f <= size * (2 * f)
  BY <1>4
<1>6. InitialSize * f \in Int /\ h < InitialSize * f
  BY <1>2, <1>4 DEF HashValues
<1> QED BY <1>2, <1>3, <1>5, <1>6

(* A probe of a table that has slots is one of them.                       *)
LEMMA ProbeInside ==
  ASSUME NEW map, map.size \in Nat \ {0}, NEW h \in HashValues, NEW i \in Nat
  PROVE  Probe(map, h, i) \in 0..map.size - 1
<1>1. h + i \in Nat
  BY DEF HashValues
<1> QED BY <1>1, Remainder DEF Probe

(* The probes depend on nothing but the size and the load.                 *)
LEMMA ProbeAgrees ==
  ASSUME NEW map, NEW other, other.size = map.size, other.load = map.load
  PROVE  /\ Probes(other) = Probes(map)
         /\ \A h, i : Probe(other, h, i) = Probe(map, h, i)
BY DEF Probe, Probes

(* Probes are tried in order, the first is 0.                              *)
LEMMA ProbesAreNumbers ==
  ASSUME NEW map, map.load \in Nat
  PROVE  /\ Probes(map) \in SUBSET Nat
         /\ \A i \in Probes(map) : \A j \in 0..i - 1 : j \in Probes(map)
         /\ map.load > 0 => 0 \in Probes(map)
BY DEF Probes

(* A null pointer is not a hash.                                           *)
LEMMA VacantIsNoHash == Vacant \notin HashValues
<1>1. \A h \in HashValues : h >= 0
  BY DEF HashValues
<1> QED BY <1>1 DEF Vacant

(* A hash that goes into a vacant slot of its own probes.                  *)
LEMMA PlacingKeeps ==
  ASSUME NEW map, Shaped(map), map.size > 0,
         NEW held \in SUBSET HashValues, Keeps(map, held),
         NEW hash \in HashValues, hash \notin held,
         NEW at \in Probes(map), map.slots[Probe(map, hash, at)] = Vacant,
         NEW new, new.size = map.size, new.load = map.load,
         new.slots = [map.slots EXCEPT ![Probe(map, hash, at)] = hash]
  PROVE  /\ Keeps(new, held \cup {hash})
         /\ new.slots \in [0..map.size - 1 -> HashValues \cup {Vacant}]
<1> DEFINE p == Probe(map, hash, at)
<1>1. map.size \in Nat \ {0} /\ map.load \in Nat
      /\ map.slots \in [0..map.size - 1 -> HashValues \cup {Vacant}]
  BY DEF Shaped
<1>2. p \in 0..map.size - 1
  BY <1>1, ProbesAreNumbers, ProbeInside
<1>3. Probes(new) = Probes(map) /\ \A h, i : Probe(new, h, i) = Probe(map, h, i)
  BY ProbeAgrees
<1>4. Probes(map) \in SUBSET Nat
  BY <1>1, ProbesAreNumbers
<1>5. \A i \in 0..map.size - 1 : new.slots[i] = IF i = p THEN hash ELSE map.slots[i]
  BY <1>1
<1> HIDE DEF p
<1>6. \A i \in 0..map.size - 1 : new.slots[i] \in held \cup {hash} \cup {Vacant}
  BY <1>5 DEF Keeps
<1>7. \A i, j \in 0..map.size - 1 :
        new.slots[i] = new.slots[j] /\ new.slots[i] # Vacant => i = j
  BY <1>5, VacantIsNoHash DEF Keeps
<1>8. ASSUME NEW h \in held \cup {hash} PROVE Found(new, h)
  <2>1. CASE h = hash
    BY <2>1, <1>2, <1>3, <1>5 DEF Found, p
  <2>2. CASE h # hash
    <3>1. PICK i \in Probes(map) : map.slots[Probe(map, h, i)] = h
      BY <2>2 DEF Keeps, Found
    <3>2. Probe(map, h, i) \in 0..map.size - 1
      BY <2>2, <1>1, <1>4, ProbeInside
    <3>3. Probe(map, h, i) # p
      BY <3>1, <2>2, VacantIsNoHash DEF p
    <3>4. new.slots[Probe(new, h, i)] = h
      BY <3>1, <3>2, <3>3, <1>3, <1>5
    <3> QED BY <3>4, <1>3 DEF Found
  <2> QED BY <2>1, <2>2
<1>9. new.slots \in [0..map.size - 1 -> HashValues \cup {Vacant}]
  BY <1>1, <1>2
<1> QED BY <1>6, <1>7, <1>8, <1>9 DEF Keeps

(* At the first vacant slot: no vacant slot comes before a hash.           *)
LEMMA PlacingUnbroken ==
  ASSUME NEW map, Shaped(map), map.size > 0,
         NEW held \in SUBSET HashValues, Unbroken(map, held),
         NEW hash \in HashValues,
         NEW at \in Probes(map), map.slots[Probe(map, hash, at)] = Vacant,
         \A j \in 0..at - 1 : map.slots[Probe(map, hash, j)] # Vacant,
         NEW new, new.size = map.size, new.load = map.load,
         new.slots = [map.slots EXCEPT ![Probe(map, hash, at)] = hash]
  PROVE  Unbroken(new, held \cup {hash})
<1> DEFINE p == Probe(map, hash, at)
<1>1. map.size \in Nat \ {0} /\ map.load \in Nat
      /\ map.slots \in [0..map.size - 1 -> HashValues \cup {Vacant}]
  BY DEF Shaped
<1>2. p \in 0..map.size - 1
  BY <1>1, ProbesAreNumbers, ProbeInside
<1>3. Probes(new) = Probes(map) /\ \A h, i : Probe(new, h, i) = Probe(map, h, i)
  BY ProbeAgrees
<1>4. Probes(map) \in SUBSET Nat /\ \A i \in Probes(map) : \A j \in 0..i - 1 : j \in Probes(map)
  BY <1>1, ProbesAreNumbers
<1>5. \A i \in 0..map.size - 1 : new.slots[i] = IF i = p THEN hash ELSE map.slots[i]
  BY <1>1
<1>6. \A h \in HashValues : \A i \in Nat : Probe(map, h, i) \in 0..map.size - 1
  BY <1>1, ProbeInside
<1>7. map.slots[p] = Vacant /\ hash # Vacant
  BY VacantIsNoHash
<1> HIDE DEF p
<1>8. \A h \in HashValues : \A i \in Probes(map) :
        map.slots[Probe(map, h, i)] # Vacant
          => new.slots[Probe(new, h, i)] = map.slots[Probe(map, h, i)]
  BY <1>3, <1>4, <1>5, <1>6, <1>7
<1> SUFFICES ASSUME NEW h \in held \cup {hash}
             PROVE  \E i \in Probes(new) :
                      /\ new.slots[Probe(new, h, i)] = h
                      /\ \A j \in 0..i - 1 : new.slots[Probe(new, h, j)] # Vacant
  BY DEF Unbroken
<1>9. CASE h = hash
  <2>1. new.slots[Probe(new, h, at)] = h
    BY <1>9, <1>2, <1>3, <1>5 DEF p
  <2>2. \A j \in 0..at - 1 : new.slots[Probe(new, h, j)] # Vacant
    BY <1>9, <1>4, <1>8
  <2> QED BY <2>1, <2>2, <1>3
<1>10. CASE h # hash
  <2>1. PICK i \in Probes(map) :
          /\ map.slots[Probe(map, h, i)] = h
          /\ \A j \in 0..i - 1 : map.slots[Probe(map, h, j)] # Vacant
    BY <1>10 DEF Unbroken
  <2>2. h \in HashValues
    OBVIOUS
  <2>3. new.slots[Probe(new, h, i)] = h
    BY <2>1, <2>2, <1>8, VacantIsNoHash
  <2>4. \A j \in 0..i - 1 : new.slots[Probe(new, h, j)] # Vacant
    BY <2>1, <2>2, <1>4, <1>8
  <2> QED BY <2>3, <2>4, <1>3
<1> QED BY <1>9, <1>10

(* What Max chooses in a set of bounded numbers.                           *)
LEMMA MaxOf ==
  ASSUME NEW n \in Nat, NEW s \in SUBSET (1..n), s # {}
  PROVE  Max(s) \in s /\ \A y \in s : Max(s) >= y
<1> DEFINE T == {n - x : x \in s}
<1>1. T \in SUBSET Nat /\ T # {}
  <2>1. \A x \in s : x \in 1..n
    OBVIOUS
  <2>2. \A x \in s : n - x \in Nat
    BY <2>1
  <2> QED BY <2>2
<1>2. PICK d \in T : \A m \in T : d <= m
  BY <1>1, Least
<1>3. PICK x \in s : d = n - x
  BY <1>2
<1>4. \A y \in s : n - x <= n - y
  BY <1>2, <1>3
<1>5. \A y \in s : x >= y
  BY <1>4
<1> QED BY <1>5 DEF Max

\* The maps g[0] to g[n] are the steps of Reinserted.
Refilling(g, map, times, n) ==
    /\ g[0] = Doubled(map, times)
    /\ \A k \in 1..n : g[k] = InsertInner(g[k-1], map.list[k])
    /\ Reinserted(map, times) = g[n]

(* The reinsertion of a list, one insert_inner after the other.            *)
LEMMA ReinsertedChain ==
  ASSUME NEW map, NEW times, NEW n \in Nat, DOMAIN map.list = 1..n
  PROVE  \E g : Refilling(g, map, times, n)
<1> DEFINE base == Doubled(map, times)
           seq == map.list
<1>a. Reinserted(map, times) = Reinserted(map, times)
  BY DEF Reinserted
<1>0. DOMAIN seq = 1..n
  OBVIOUS
<1> DEFINE Body(h, k) == [s \in SUBSET (1..k) |-> IF s = {} THEN base ELSE InsertInner(h[s \ {Max(s)}], seq[Max(s)])]
           Bad == {k \in 0..n : ~ \E h : h = Body(h, k)}
<1>1. \A k \in 0..n : \E h : h = Body(h, k)
  <2> SUFFICES ASSUME Bad # {} PROVE FALSE
    OBVIOUS
  <2>1. PICK m \in Bad : \A k \in Bad : m <= k
    <3>1. Bad \in SUBSET Nat
      OBVIOUS
    <3> HIDE DEF Bad
    <3> QED BY <3>1, Least
  <2>2. m \in Nat /\ m \in 0..n /\ ~ \E h : h = Body(h, m)
    <3>1. m \in 0..n /\ m \in Nat
      OBVIOUS
    <3>2. ~ \E h : h = Body(h, m)
      BY Zenon
    <3> QED BY <3>1, <3>2, Zenon
  <2>3. m # 0
    <3> DEFINE z == [s \in SUBSET (1..0) |-> base]
    <3>1. z = Body(z, 0)
      <4>1. \A s \in SUBSET (1..0) : s = {}
        OBVIOUS
      <4> QED BY <4>1
    <3> QED BY <2>2, <3>1
  <2>4. PICK h : h = Body(h, m - 1)
    <3>1. m - 1 \in 0..n /\ m - 1 \notin Bad
      <4> HIDE DEF Bad
      <4>1. m - 1 \in 0..n /\ ~(m <= m - 1)
        BY <2>2, <2>3
      <4> QED BY <4>1, <2>1
    <3> QED BY <3>1, Zenon
  <2> HIDE DEF Bad
  <2> DEFINE h2 == Body(h, m)
  <2>5. ASSUME NEW s \in SUBSET (1..m)
        PROVE  h2[s] = IF s = {} THEN base ELSE InsertInner(h2[s \ {Max(s)}], seq[Max(s)])
    <3>1. CASE s = {}
      BY <3>1
    <3>2. CASE s # {}
      <4> DEFINE r == s \ {Max(s)}
      <4>1. Max(s) \in s /\ (\A y \in s : Max(s) >= y)
        BY <3>2, <2>2, MaxOf
      <4>2. r \in SUBSET (1..m - 1)
        <5>1. \A y \in r : y \in 1..m /\ y # Max(s) /\ Max(s) \in 1..m /\ Max(s) >= y
          BY <4>1
        <5>2. \A y \in r : y \in 1..m - 1
          BY <5>1, <2>2
        <5> QED BY <5>2
      <4>3. h[r] = IF r = {} THEN base ELSE InsertInner(h[r \ {Max(r)}], seq[Max(r)])
        BY <2>4, <4>2, Zenon
      <4>4. r \in SUBSET (1..m)
        OBVIOUS
      <4>5. h2[r] = h[r]
        BY <4>3, <4>4
      <4> QED BY <3>2, <4>5
    <3> QED BY <3>1, <3>2
  <2>6. h2 = Body(h2, m)
    BY <2>5
  <2> QED BY <2>2, <2>6
<1>2. PICK f : f = Body(f, n) /\ Reinserted(map, times) = f[1..n]
  <2>1. \E f : f = Body(f, n)
    <3>1. n \in 0..n
      OBVIOUS
    <3> QED BY <1>1, <3>1, Zenon
  <2>2. (CHOOSE f : f = Body(f, n)) = Body((CHOOSE f : f = Body(f, n)), n)
    BY <2>1, Zenon
  <2>3. Reinserted(map, times) = (CHOOSE f : f = Body(f, n))[1..n]
    BY DEF Reinserted, FoldLeft, MapThenFoldSet
  <2> QED BY <2>2, <2>3
<1> DEFINE g == [k \in 0..n |-> f[1..k]]
<1>3. g[0] = base
  <2>1. 1..0 = {} /\ 1..0 \in SUBSET (1..n)
    OBVIOUS
  <2>2. f[{}] = base
    BY <1>2, <2>1
  <2> QED BY <2>1, <2>2
<1>4. ASSUME NEW k \in 1..n
      PROVE  g[k] = InsertInner(g[k-1], seq[k])
  <2>1. Max(1..k) = k
    <3>1. 1..k \in SUBSET (1..k) /\ 1..k # {}
      <4>1. k \in Nat /\ 1 \in 1..k
        OBVIOUS
      <4> QED BY <4>1
    <3>2. Max(1..k) \in 1..k /\ \A y \in 1..k : Max(1..k) >= y
      <4>1. k \in Nat
        OBVIOUS
      <4> DEFINE all == 1..k
      <4>2. all \in SUBSET (1..k) /\ all # {}
        BY <3>1
      <4> HIDE DEF all
      <4>3. Max(all) \in all /\ \A y \in all : Max(all) >= y
        BY <4>1, <4>2, MaxOf
      <4> QED BY <4>3 DEF all
    <3> QED BY <3>2
  <2>2. (1..k) \ {k} = 1..(k-1) /\ 1..k # {} /\ 1..k \in SUBSET (1..n)
    OBVIOUS
  <2>3. f[1..k] = IF 1..k = {} THEN base ELSE InsertInner(f[(1..k) \ {Max(1..k)}], seq[Max(1..k)])
    BY <1>2, <2>2, Zenon
  <2>4. f[1..k] = InsertInner(f[1..(k-1)], seq[k])
    BY <2>1, <2>2, <2>3
  <2> QED BY <2>4
<1>5. Reinserted(map, times) = g[n]
  <2>1. n \in 0..n
    OBVIOUS
  <2>2. g[n] = f[1..n]
    BY <2>1
  <2> HIDE DEF g
  <2> QED BY <1>2, <2>2
<1> HIDE DEF g
<1> QED BY <1>3, <1>4, <1>5 DEF Refilling

(* The table of a round of grow: vacant, and in the end a slot per hash.   *)
LEMMA DoubledIs ==
  ASSUME NEW map, Shaped(map), NEW n \in 1..MaxDoublings
  PROVE  /\ DOMAIN Doubled(map, n) = MapFields
         /\ Doubled(map, n).size \in Nat \ {0} /\ Doubled(map, n).size >= InitialSize
         /\ Doubled(map, n).load \in Nat \ {0}
         /\ Doubled(map, n).list = map.list
         /\ Doubled(map, n).slots = [i \in 0..Doubled(map, n).size - 1 |-> Vacant]
         /\ n = MaxDoublings => \A h \in HashValues : h < Doubled(map, n).size
<1>1. /\ n \in Nat /\ n - 1 \in 0..MaxDoublings /\ n \in 0..MaxDoublings
      /\ InitialSize \in Nat \ {0} /\ InitialLoadCount \in Nat \ {0}
  BY SizesAssumption
<1>2. PICK f \in Nat \ {0} : f = Factor[n]
  BY <1>1, FactorPositive
<1>3. PICK g \in Nat \ {0} : g = Factor[n - 1]
  BY <1>1, FactorPositive
<1>4. map.size \in Nat /\ map.load \in Nat /\ (map.size = 0 \/ map.size >= InitialSize)
  BY DEF Shaped
<1> DEFINE size == IF map.size = 0 THEN InitialSize * Factor[n - 1] ELSE map.size * Factor[n]
           load == IF map.size = 0 THEN InitialLoadCount + n - 1 ELSE map.load + n
<1>5. size \in Nat \ {0} /\ size >= InitialSize
  <2>1. CASE map.size = 0
    <3>1. InitialSize * g >= InitialSize /\ InitialSize * g \in Nat
      BY <1>1
    <3> QED BY <2>1, <3>1, <1>1, <1>3
  <2>2. CASE map.size # 0
    <3>1. map.size * f >= map.size /\ map.size * f \in Nat
      BY <1>4
    <3> QED BY <2>2, <3>1, <1>1, <1>2, <1>4
  <2> QED BY <2>1, <2>2
<1>6. load \in Nat \ {0}
  BY <1>1, <1>4
<1>7. Doubled(map, n) = [size |-> size, load |-> load,
                         slots |-> [i \in 0..size - 1 |-> Vacant], list |-> map.list]
  BY DEF Doubled
<1>8. n = MaxDoublings => \A h \in HashValues : h < size
  <2> SUFFICES ASSUME n = MaxDoublings, NEW h \in HashValues PROVE h < size
    OBVIOUS
  <2>1. CASE map.size = 0
    BY <2>1, <1>1, LargestFits
  <2>2. CASE map.size # 0
    <3>1. /\ h < InitialSize * Factor[MaxDoublings - 1]
          /\ InitialSize * Factor[MaxDoublings - 1] <= map.size * Factor[MaxDoublings]
      BY <2>2, <1>4, LargestFits
    <3>2. InitialSize * Factor[MaxDoublings - 1] \in Nat /\ map.size * Factor[MaxDoublings] \in Nat
          /\ h \in Nat
      BY <1>1, <1>2, <1>3, <1>4, SMT DEF HashValues
    <3> QED BY <2>2, <3>1, <3>2
  <2> QED BY <2>1, <2>2
<1> HIDE DEF size, load
<1>9. DOMAIN Doubled(map, n) = MapFields
  BY <1>7 DEF MapFields
<1> QED BY <1>5, <1>6, <1>7, <1>8, <1>9

\* The vacant probes of a hash.
RoomFor(map, hash) == {i \in Probes(map) : map.slots[Probe(map, hash, i)] = Vacant}

(* insert_inner, of a hash that is not there yet.                          *)
LEMMA InsertInnerIs ==
  ASSUME NEW map, DOMAIN map = MapFields, NEW hash
  PROVE  \/ InsertInner(map, hash) = EmptyMap /\ (map.size = 0 \/ RoomFor(map, hash) = {})
         \/ /\ DOMAIN InsertInner(map, hash) = MapFields
            /\ InsertInner(map, hash).size = map.size
            /\ InsertInner(map, hash).load = map.load
            /\ InsertInner(map, hash).list = map.list
            /\ RoomFor(map, hash) # {}
            /\ InsertInner(map, hash).slots
                 = [map.slots EXCEPT ![Probe(map, hash, Min(RoomFor(map, hash)))] = hash]
<1> DEFINE room == RoomFor(map, hash)
<1>1. CASE map.size = 0 \/ room = {}
  BY <1>1 DEF InsertInner, RoomFor
<1>2. CASE ~(map.size = 0 \/ room = {})
  <2> DEFINE new == [map EXCEPT !.slots[Probe(map, hash, Min(room))] = hash]
  <2>1. InsertInner(map, hash) = new
    BY <1>2 DEF InsertInner, RoomFor
  <2>2. /\ DOMAIN new = MapFields /\ new.size = map.size /\ new.load = map.load
        /\ new.list = map.list
        /\ new.slots = [map.slots EXCEPT ![Probe(map, hash, Min(room))] = hash]
    <3> HIDE DEF room
    <3> QED BY DEF MapFields
  <2> HIDE DEF new, room
  <2>3. room # {} /\ map.size # 0
    BY <1>2
  <2> QED BY <2>1, <2>2, <2>3 DEF room
<1> QED BY <1>1, <1>2

(* What the slots hold once the first k of the list are in: `map' is the   *)
(* table as it was doubled, `now' the one being filled.                    *)
Filled(map, now, k) ==
    LET held == {map.list[i] : i \in 1..k}
    IN \/ now = EmptyMap
       \/ /\ Shaped(now) /\ now.size > 0
          /\ now.size = map.size /\ now.load = map.load /\ now.list = map.list
          /\ Keeps(now, held) /\ Unbroken(now, held)

\* Large tables never fail: each hash sits at its own slot.
Spread(now) ==
    now # EmptyMap /\ \A i \in 0..now.size - 1 : now.slots[i] \in {Vacant, i}

(* In a table larger than the hash the first probe is the hash itself.     *)
LEMMA OwnSlot ==
  ASSUME NEW map, map.size \in Nat \ {0}, NEW h \in HashValues, h < map.size
  PROVE  Probe(map, h, 0) = h /\ h \in 0..map.size - 1
<1>1. h \in Nat /\ h + 0 = h
  BY DEF HashValues
<1> QED BY <1>1, Remainder DEF Probe

(* One insert_inner of grow: it fails, or one more hash is in its place.   *)
LEMMA FillingStep ==
  ASSUME NEW map, map.list \in Seq(HashValues), IsInjective(map.list),
         NEW now, NEW k \in 1..Len(map.list), Filled(map, now, k - 1)
  PROVE  /\ Filled(map, InsertInner(now, map.list[k]), k)
         /\ (Spread(now) /\ \A h \in HashValues : h < map.size)
              => Spread(InsertInner(now, map.list[k]))
<1> DEFINE hash == map.list[k]
           held == {map.list[i] : i \in 1..k - 1}
           new == InsertInner(now, hash)
           room == RoomFor(now, hash)
<1>1. hash \in HashValues /\ held \in SUBSET HashValues /\ hash \notin held
  BY DEF IsInjective
<1>2. {map.list[i] : i \in 1..k} = held \cup {hash}
  OBVIOUS
<1>3. CASE now = EmptyMap
  <2>1. new = EmptyMap
    BY <1>3 DEF InsertInner, EmptyMap
  <2> QED BY <2>1, <1>3 DEF Filled, Spread
<1>4. CASE now # EmptyMap
  <2> HIDE DEF hash, held
  <2>1. /\ Shaped(now) /\ now.size > 0
        /\ now.size = map.size /\ now.load = map.load /\ now.list = map.list
        /\ Keeps(now, held) /\ Unbroken(now, held)
    BY <1>4 DEF Filled, held
  <2>2. DOMAIN now = MapFields /\ now.size \in Nat \ {0} /\ now.load \in Nat
        /\ now.slots \in [0..now.size - 1 -> HashValues \cup {Vacant}]
    BY <2>1 DEF Shaped
  <2>3. room \in SUBSET Nat /\ Probes(now) \in SUBSET Nat
        /\ \A i \in Probes(now) : \A j \in 0..i - 1 : j \in Probes(now)
    BY <2>2, ProbesAreNumbers DEF RoomFor
  <2> HIDE DEF new
  <2>4. CASE new = EmptyMap /\ room = {}
    <3>1. ASSUME Spread(now), \A h \in HashValues : h < map.size PROVE FALSE
      <4>1. Probe(now, hash, 0) = hash /\ hash \in 0..now.size - 1
        BY <3>1, <2>1, <2>2, <1>1, OwnSlot
      <4>2. now.slots[hash] \in held \cup {Vacant} /\ now.slots[hash] \in {Vacant, hash}
        BY <3>1, <4>1, <2>1 DEF Keeps, Spread
      <4>3. now.slots[hash] = Vacant
        BY <4>2, <1>1
      <4>4. 0 \in Probes(now)
        BY <2>2, <2>1, ProbesAreNumbers DEF Shaped
      <4> QED BY <4>1, <4>3, <4>4, <2>4 DEF room, RoomFor
    <3> QED BY <3>1, <2>4 DEF Filled, hash, new
  <2>5. CASE /\ DOMAIN new = MapFields /\ new.size = now.size /\ new.load = now.load
             /\ new.list = now.list /\ room # {}
             /\ new.slots = [now.slots EXCEPT ![Probe(now, hash, Min(room))] = hash]
    <3>1. Min(room) \in room /\ \A m \in room : Min(room) <= m
      <4> HIDE DEF room
      <4> QED BY <2>3, <2>5, MinOf
    <3>2. PICK at \in Probes(now) : at = Min(room) /\ now.slots[Probe(now, hash, at)] = Vacant
      BY <3>1 DEF RoomFor
    <3>3. \A j \in 0..at - 1 : now.slots[Probe(now, hash, j)] # Vacant
      <4> SUFFICES ASSUME NEW j \in 0..at - 1, now.slots[Probe(now, hash, j)] = Vacant
                   PROVE  FALSE
        OBVIOUS
      <4>1. j \in room
        BY <2>3 DEF RoomFor
      <4>2. at \in Nat /\ at <= j
        BY <4>1, <3>1, <3>2, <2>3
      <4> QED BY <4>2
    <3>4. new.slots = [now.slots EXCEPT ![Probe(now, hash, at)] = hash]
      BY <2>5, <3>2
    <3>5. Keeps(new, held \cup {hash})
          /\ new.slots \in [0..now.size - 1 -> HashValues \cup {Vacant}]
      <4>1. Shaped(now) /\ now.size > 0 /\ Keeps(now, held) /\ new.size = now.size
            /\ new.load = now.load
        BY <2>1, <2>5
      <4>2. /\ held \in SUBSET HashValues /\ hash \in HashValues /\ hash \notin held
            /\ at \in Probes(now) /\ now.slots[Probe(now, hash, at)] = Vacant
        BY <1>1, <3>2
      <4> QED BY <4>1, <4>2, <3>4, PlacingKeeps, Zenon
    <3>6. Unbroken(new, held \cup {hash})
      BY <1>1, <2>1, <2>5, <3>2, <3>3, <3>4, PlacingUnbroken
    <3>7. Shaped(new)
      BY <2>1, <2>2, <2>5, <3>5 DEF Shaped
    <3>8. Filled(map, new, k)
      BY <3>5, <3>6, <3>7, <2>1, <2>5, <1>2 DEF Filled
    <3>9. ASSUME Spread(now), \A h \in HashValues : h < map.size PROVE Spread(new)
      <4>1. Probe(now, hash, 0) = hash /\ hash \in 0..now.size - 1
        BY <3>9, <2>1, <2>2, <1>1, OwnSlot
      <4>2. now.slots[hash] \in held \cup {Vacant} /\ now.slots[hash] \in {Vacant, hash}
        BY <3>9, <4>1, <2>1 DEF Keeps, Spread
      <4>3. 0 \in Probes(now)
        BY <2>2, <2>1, ProbesAreNumbers DEF Shaped
      <4>4. 0 \in room
        BY <4>1, <4>2, <4>3, <1>1 DEF room, RoomFor
      <4>5. at = 0
        BY <4>4, <3>1, <3>2, <2>3
      <4>6. new.slots = [now.slots EXCEPT ![hash] = hash]
        BY <3>4, <4>1, <4>5
      <4>7. new # EmptyMap
        BY <2>1, <2>5 DEF EmptyMap
      <4> QED BY <4>1, <4>6, <4>7, <2>2, <2>5, <3>9 DEF Spread
    <3> QED BY <3>8, <3>9 DEF new, hash
  <2>6. \/ new = EmptyMap /\ (now.size = 0 \/ room = {})
        \/ /\ DOMAIN new = MapFields /\ new.size = now.size /\ new.load = now.load
           /\ new.list = now.list /\ room # {}
           /\ new.slots = [now.slots EXCEPT ![Probe(now, hash, Min(room))] = hash]
    BY <2>2, InsertInnerIs, Zenon DEF new
  <2> HIDE DEF room
  <2> QED BY <2>1, <2>4, <2>5, <2>6
<1> QED BY <1>3, <1>4

(* grow: a round holds the whole list or fails, and the last never fails.  *)
LEMMA ReinsertedIs ==
  ASSUME NEW map, Shaped(map), IsInjective(map.list), NEW n \in 1..MaxDoublings
  PROVE  LET new == Reinserted(map, n)
         IN /\ \/ new = EmptyMap
               \/ /\ Shaped(new) /\ new.size > 0 /\ new.list = map.list
                  /\ Keeps(new, ToSet(map.list)) /\ Unbroken(new, ToSet(map.list))
            /\ n = MaxDoublings
                 => Spread(new) /\ \A h \in HashValues : h < new.size
<1> DEFINE first == Doubled(map, n)
           list == map.list
           len == Len(list)
<1>1. /\ DOMAIN first = MapFields
      /\ first.size \in Nat \ {0} /\ first.size >= InitialSize
      /\ first.load \in Nat \ {0}
      /\ first.list = list
      /\ first.slots = [i \in 0..first.size - 1 |-> Vacant]
      /\ n = MaxDoublings => \A h \in HashValues : h < first.size
  BY DoubledIs
<1>2. list \in Seq(HashValues) /\ len \in Nat /\ DOMAIN list = 1..len
  BY DEF Shaped
<1> HIDE DEF first, list, len
<1>b. len \in Nat /\ DOMAIN map.list = 1..len
  BY <1>2 DEF list
<1>c. PICK g : Refilling(g, map, n, len)
  BY <1>b, ReinsertedChain
<1>3. /\ g[0] = first
      /\ \A k \in 1..len : g[k] = InsertInner(g[k-1], list[k])
      /\ Reinserted(map, n) = g[len]
  BY <1>c DEF Refilling, first, list
<1>4. Reinserted(map, n) = g[len]
  BY <1>3
<1> DEFINE Good(k) == /\ Filled(first, g[k], k)
                      /\ n = MaxDoublings => Spread(g[k])
           Bad == {k \in 0..len : ~Good(k)}
<1>5. Good(0)
  <2>1. Shaped(first)
    BY <1>1, <1>2 DEF Shaped
  <2>2. first # EmptyMap
    BY <1>1 DEF EmptyMap
  <2> DEFINE none == {first.list[i] : i \in 1..0}
  <2>3. none = {}
    OBVIOUS
  <2>4. Keeps(first, {}) /\ Unbroken(first, {})
    BY <1>1 DEF Keeps, Unbroken
  <2>5. Filled(first, first, 0)
    <3>1. Keeps(first, none) /\ Unbroken(first, none)
      <4> HIDE DEF none
      <4> QED BY <2>3, <2>4
    <3> QED BY <2>1, <3>1, <1>1 DEF Filled
  <2>6. Spread(first)
    BY <2>2, <1>1 DEF Spread
  <2> QED BY <1>3, <2>5, <2>6
<1>6. ASSUME NEW k \in 1..len, Good(k - 1) PROVE Good(k)
  <2>1. first.list = list /\ g[k] = InsertInner(g[k - 1], list[k])
    BY <1>1, <1>3
  <2>2. IsInjective(first.list) /\ first.list \in Seq(HashValues) /\ len = Len(first.list)
    BY <2>1, <1>2 DEF list, len
  <2>3. /\ Filled(first, g[k], k)
        /\ (Spread(g[k - 1]) /\ \A h \in HashValues : h < first.size) => Spread(g[k])
    BY <2>1, <2>2, <1>6, FillingStep
  <2> QED BY <2>3, <1>1, <1>6
<1> HIDE DEF Good
<1>7. Bad = {}
  <2> SUFFICES ASSUME Bad # {} PROVE FALSE
    OBVIOUS
  <2>1. PICK m \in Bad : \A k \in Bad : m <= k
    <3>1. Bad \in SUBSET Nat
      BY <1>2
    <3> HIDE DEF Bad
    <3> QED BY <3>1, Least
  <2>2. m \in 0..len /\ ~Good(m)
    OBVIOUS
  <2>3. m \in 1..len /\ m - 1 \in 0..len /\ ~(m <= m - 1)
    BY <2>2, <1>5, <1>2
  <2>4. Good(m - 1)
    BY <2>1, <2>3
  <2> QED BY <2>2, <2>3, <2>4, <1>6
<1>8. Good(len)
  BY <1>2, <1>7
<1> DEFINE all == {first.list[i] : i \in 1..len}
<1>9. all = ToSet(list)
  BY <1>1, <1>2 DEF ToSet
<1>10. Filled(first, g[len], len) /\ (n = MaxDoublings => Spread(g[len]))
  BY <1>8 DEF Good
<1>11. \/ g[len] = EmptyMap
       \/ /\ Shaped(g[len]) /\ g[len].size > 0 /\ g[len].list = list
          /\ g[len].size = first.size
          /\ Keeps(g[len], ToSet(list)) /\ Unbroken(g[len], ToSet(list))
  <2>1. \/ g[len] = EmptyMap
        \/ /\ Shaped(g[len]) /\ g[len].size > 0 /\ g[len].list = list
           /\ g[len].size = first.size
           /\ Keeps(g[len], all) /\ Unbroken(g[len], all)
    BY <1>1, <1>10 DEF Filled
  <2> HIDE DEF all
  <2> QED BY <2>1, <1>9
<1>12. n = MaxDoublings => Spread(g[len]) /\ \A h \in HashValues : h < g[len].size
  BY <1>1, <1>10, <1>11 DEF Spread
<1> QED BY <1>4, <1>11, <1>12 DEF list

(* An element put in front of a sequence that does not have it.            *)
LEMMA Prepended ==
  ASSUME NEW S, NEW s \in Seq(S), NEW e \in S
  PROVE  /\ <<e>> \o s \in Seq(S)
         /\ ToSet(<<e>> \o s) = ToSet(s) \cup {e}
         /\ IsInjective(s) /\ e \notin ToSet(s) => IsInjective(<<e>> \o s)
<1> DEFINE r == <<e>> \o s
<1>1. r \in Seq(S) /\ Len(r) = Len(s) + 1 /\ Len(s) \in Nat
      /\ DOMAIN r = 1..Len(s) + 1 /\ DOMAIN s = 1..Len(s)
      /\ r[1] = e /\ \A i \in 2..Len(s) + 1 : r[i] = s[i - 1]
  OBVIOUS
<1> HIDE DEF r
<1>2. ToSet(r) = ToSet(s) \cup {e}
  <2>1. ASSUME NEW i \in DOMAIN r PROVE r[i] \in ToSet(s) \cup {e}
    <3>1. CASE i = 1
      BY <3>1, <1>1
    <3>2. CASE i # 1
      <4>1. i \in 2..Len(s) + 1 /\ i - 1 \in DOMAIN s
        BY <3>2, <1>1
      <4> QED BY <4>1, <1>1 DEF ToSet
    <3> QED BY <3>1, <3>2
  <2>2. ASSUME NEW i \in DOMAIN s PROVE s[i] \in ToSet(r)
    <3>1. i + 1 \in 2..Len(s) + 1 /\ i + 1 \in DOMAIN r /\ i + 1 - 1 = i
      BY <1>1
    <3>2. r[i + 1] = s[i]
      BY <3>1, <1>1
    <3> QED BY <3>1, <3>2 DEF ToSet
  <2>3. e \in ToSet(r)
    <3>1. 1 \in DOMAIN r
      BY <1>1
    <3> QED BY <3>1, <1>1 DEF ToSet
  <2> QED BY <2>1, <2>2, <2>3 DEF ToSet
<1>3. ASSUME IsInjective(s), e \notin ToSet(s) PROVE IsInjective(r)
  <2> SUFFICES ASSUME NEW i \in DOMAIN r, NEW j \in DOMAIN r, r[i] = r[j] PROVE i = j
    BY DEF IsInjective
  <2>1. \A k \in DOMAIN r : k # 1 => k - 1 \in DOMAIN s /\ r[k] = s[k - 1] /\ r[k] \in ToSet(s)
    <3> SUFFICES ASSUME NEW k \in DOMAIN r, k # 1
                 PROVE  k - 1 \in DOMAIN s /\ r[k] = s[k - 1] /\ r[k] \in ToSet(s)
      OBVIOUS
    <3>1. k \in 2..Len(s) + 1 /\ k - 1 \in DOMAIN s
      BY <1>1
    <3> QED BY <3>1, <1>1 DEF ToSet
  <2>2. i # 1 /\ j # 1 => i - 1 = j - 1
    BY <2>1, <1>3 DEF IsInjective
  <2> QED BY <2>1, <2>2, <1>1, <1>3
<1> QED BY <1>1, <1>2, <1>3 DEF r

(* A sequence without its m-th element.                                    *)
LEMMA RemovedAt ==
  ASSUME NEW S, NEW s \in Seq(S), NEW m \in 1..Len(s)
  PROVE  /\ RemoveAt(s, m) \in Seq(S) /\ Len(RemoveAt(s, m)) = Len(s) - 1
         /\ \A j \in 1..Len(s) - 1 :
              RemoveAt(s, m)[j] = IF j < m THEN s[j] ELSE s[j + 1]
<1> DEFINE n == Len(s)
           a == SubSeq(s, 1, m - 1)
           b == SubSeq(s, m + 1, n)
<1>0. n \in Nat /\ DOMAIN s = 1..n /\ m \in Nat /\ m >= 1 /\ m <= n
      /\ \A i \in 1..n : s[i] \in S
  OBVIOUS
<1>1. RemoveAt(s, m) = a \o b
  BY DEF RemoveAt
<1> HIDE DEF n
<1>2. a \in Seq(S) /\ Len(a) = m - 1 /\ \A j \in 1..m - 1 : a[j] = s[j]
  <2>1. 1 \in Int /\ m - 1 \in Int /\ \A i \in 1..m - 1 : s[i] \in S
    BY <1>0
  <2>2. /\ a \in Seq(S) /\ Len(a) = IF 1 <= m - 1 THEN m - 1 - 1 + 1 ELSE 0
        /\ \A i \in 1..m - 1 - 1 + 1 : a[i] = s[1 + i - 1]
    BY <2>1, SubSeqProperties
  <2> HIDE DEF a
  <2> QED BY <2>2, <1>0
<1>3. b \in Seq(S) /\ Len(b) = n - m /\ \A j \in 1..n - m : b[j] = s[m + j]
  <2>1. m + 1 \in Int /\ n \in Int /\ \A i \in m + 1..n : s[i] \in S
    BY <1>0
  <2>2. /\ b \in Seq(S) /\ Len(b) = IF m + 1 <= n THEN n - (m + 1) + 1 ELSE 0
        /\ \A i \in 1..n - (m + 1) + 1 : b[i] = s[(m + 1) + i - 1]
    BY <2>1, SubSeqProperties
  <2> HIDE DEF b
  <2>3. Len(b) = n - m
    BY <2>2, <1>0
  <2>4. ASSUME NEW j \in 1..n - m PROVE b[j] = s[m + j]
    <3>1. j \in 1..n - (m + 1) + 1 /\ (m + 1) + j - 1 = m + j
      BY <1>0
    <3>2. b[j] = s[(m + 1) + j - 1]
      BY <2>2, <3>1
    <3> QED BY <3>1, <3>2
  <2> QED BY <2>2, <2>3, <2>4
<1> HIDE DEF a, b
<1>4. /\ a \o b \in Seq(S) /\ Len(a \o b) = Len(a) + Len(b)
      /\ \A j \in 1..Len(a) + Len(b) :
           (a \o b)[j] = IF j <= Len(a) THEN a[j] ELSE b[j - Len(a)]
  BY <1>2, <1>3, ConcatProperties
<1>5. Len(a) + Len(b) = n - 1 /\ Len(a) = m - 1
  BY <1>0, <1>2, <1>3
<1> DEFINE r == a \o b
<1>6. /\ r \in Seq(S) /\ Len(r) = n - 1
      /\ \A j \in 1..n - 1 : r[j] = IF j <= m - 1 THEN a[j] ELSE b[j - (m - 1)]
  BY <1>4, <1>5
<1> HIDE DEF r
<1>7. ASSUME NEW j \in 1..n - 1
      PROVE  r[j] = IF j < m THEN s[j] ELSE s[j + 1]
  <2>1. CASE j < m
    <3>1. j <= m - 1 /\ j \in 1..m - 1
      BY <2>1, <1>0
    <3> QED BY <2>1, <3>1, <1>2, <1>6
  <2>2. CASE ~(j < m)
    <3>1. ~(j <= m - 1) /\ j - (m - 1) \in 1..n - m /\ m + (j - (m - 1)) = j + 1
      BY <2>2, <1>0
    <3>2. r[j] = b[j - (m - 1)]
      BY <3>1, <1>6
    <3>3. b[j - (m - 1)] = s[m + (j - (m - 1))]
      BY <3>1, <1>3
    <3> QED BY <2>2, <3>1, <3>2, <3>3
  <2> QED BY <2>1, <2>2
<1> QED BY <1>1, <1>6, <1>7 DEF n, r

(* RemoveFirst takes an element out of a sequence that has it once.        *)
LEMMA Removed ==
  ASSUME NEW S, NEW s \in Seq(S), IsInjective(s), NEW e
  PROVE  /\ RemoveFirst(s, e) \in Seq(S)
         /\ ToSet(RemoveFirst(s, e)) = ToSet(s) \ {e}
         /\ IsInjective(RemoveFirst(s, e))
<1> DEFINE I == {i \in 1..Len(s) : s[i] = e}
<1>0. Len(s) \in Nat /\ DOMAIN s = 1..Len(s)
  OBVIOUS
<1>1. CASE I = {}
  <2>1. RemoveFirst(s, e) = s
    BY <1>1 DEF RemoveFirst
  <2>2. e \notin ToSet(s)
    BY <1>0, <1>1 DEF ToSet
  <2> QED BY <2>1, <2>2
<1>2. CASE I # {}
  <2>1. I \in SUBSET Nat
    OBVIOUS
  <2>2. RemoveFirst(s, e) = RemoveAt(s, Min(I))
    BY <1>2 DEF RemoveFirst, SelectInSeq
  <2>3. PICK m \in 1..Len(s) : m = Min(I) /\ s[m] = e
    <3>1. Min(I) \in I
      <4> HIDE DEF I
      <4> QED BY <1>2, <2>1, MinOf
    <3> QED BY <3>1
  <2> DEFINE r == SubSeq(s, 1, m - 1) \o SubSeq(s, m + 1, Len(s))
  <2>4. RemoveFirst(s, e) = r
    BY <2>2, <2>3 DEF RemoveAt
  <2>5. /\ r \in Seq(S) /\ Len(r) = Len(s) - 1 /\ DOMAIN r = 1..Len(s) - 1
        /\ \A j \in 1..Len(s) - 1 : r[j] = IF j < m THEN s[j] ELSE s[j + 1]
    <3>1. r = RemoveAt(s, m)
      BY DEF RemoveAt
    <3> HIDE DEF r
    <3>2. /\ r \in Seq(S) /\ Len(r) = Len(s) - 1
          /\ \A j \in 1..Len(s) - 1 : r[j] = IF j < m THEN s[j] ELSE s[j + 1]
      BY <3>1, RemovedAt
    <3>3. DOMAIN r = 1..Len(r)
      BY <3>2
    <3> QED BY <3>2, <3>3
  <2> HIDE DEF r
  <2>6. IsInjective(r)
    <3> SUFFICES ASSUME NEW i \in DOMAIN r, NEW j \in DOMAIN r, r[i] = r[j] PROVE i = j
      BY DEF IsInjective
    <3> DEFINE up(k) == IF k < m THEN k ELSE k + 1
    <3>1. \A k \in DOMAIN r : r[k] = s[up(k)] /\ up(k) \in DOMAIN s
      BY <2>5, <1>0
    <3>2. up(i) = up(j)
      BY <3>1 DEF IsInjective
    <3> QED BY <3>2, <2>5, <1>0
  <2>7. ToSet(r) = ToSet(s) \ {e}
    <3>1. ASSUME NEW k \in DOMAIN r PROVE r[k] \in ToSet(s) \ {e}
      <4> DEFINE w == IF k < m THEN k ELSE k + 1
      <4>0. w \in DOMAIN s /\ r[k] = s[w] /\ w # m
        BY <2>5, <1>0
      <4>1. PICK u \in DOMAIN s : r[k] = s[u] /\ u # m
        BY <4>0
      <4>2. s[u] # e
        BY <4>1, <2>3, <1>0 DEF IsInjective
      <4> QED BY <4>1, <4>2 DEF ToSet
    <3>2. ASSUME NEW k \in DOMAIN s, s[k] # e PROVE s[k] \in ToSet(r)
      <4>1. CASE k < m
        <5>1. k \in DOMAIN r /\ r[k] = s[k]
          BY <4>1, <2>5, <1>0
        <5> QED BY <5>1 DEF ToSet
      <4>2. CASE k > m
        <5>1. k - 1 \in DOMAIN r /\ r[k - 1] = s[k]
          BY <4>2, <2>5, <1>0
        <5> QED BY <5>1 DEF ToSet
      <4> QED BY <4>1, <4>2, <3>2, <2>3, <1>0
    <3> QED BY <3>1, <3>2 DEF ToSet
  <2> QED BY <2>4, <2>5, <2>6, <2>7
<1> QED BY <1>1, <1>2

(* An insertion has room: grow ends, and the list is what it was.          *)
LEMMA RoomyIs ==
  ASSUME NEW map, MapInv(map), NEW hash \in HashValues
  PROVE  /\ MapInv(Roomy(map, hash)) /\ Roomy(map, hash).list = map.list
         /\ Roomy(map, hash).size > 0 /\ Stops(Roomy(map, hash), hash) # {}
         /\ Unbroken(map, ToSet(map.list)) => Unbroken(Roomy(map, hash), ToSet(map.list))
<1>1. CASE map.size > 0 /\ Stops(map, hash) # {}
  <2>1. Roomy(map, hash) = map
    BY <1>1 DEF Roomy
  <2> QED BY <2>1, <1>1
<1>2. CASE ~(map.size > 0 /\ Stops(map, hash) # {})
  <2> DEFINE N == {n \in 1..MaxDoublings :
                     /\ Reinserted(map, n).size > 0
                     /\ Stops(Reinserted(map, n), hash) # {}}
  <2>1. Roomy(map, hash) = Reinserted(map, Min(N))
    BY <1>2 DEF Roomy
  <2>2. Shaped(map) /\ IsInjective(map.list)
    BY DEF MapInv
  <2>3. MaxDoublings \in N
    <3>1. MaxDoublings \in 1..MaxDoublings
      BY SizesAssumption
    <3> DEFINE new == Reinserted(map, MaxDoublings)
    <3>2. /\ new = EmptyMap \/ (Shaped(new) /\ new.size > 0)
          /\ Spread(new) /\ \A h \in HashValues : h < new.size
      BY <2>2, <3>1, ReinsertedIs
    <3> HIDE DEF new
    <3>3. Shaped(new) /\ new.size > 0 /\ new.size \in Nat \ {0} /\ new.load \in Nat /\ new.load > 0
      BY <3>2 DEF Spread, Shaped
    <3>4. Probe(new, hash, 0) = hash /\ hash \in 0..new.size - 1
      BY <3>2, <3>3, OwnSlot
    <3>5. new.slots[hash] \in {Vacant, hash}
      BY <3>2, <3>4 DEF Spread
    <3>6. 0 \in Probes(new)
      BY <3>3, ProbesAreNumbers
    <3>7. 0 \in Stops(new, hash)
      BY <3>4, <3>5, <3>6 DEF Stops
    <3> QED BY <3>1, <3>3, <3>7 DEF new
  <2>4. N \in SUBSET Nat /\ N # {}
    BY <2>3
  <2>5. Min(N) \in N
    <3> HIDE DEF N
    <3> QED BY <2>4, MinOf
  <2>6. PICK n \in 1..MaxDoublings : n = Min(N) /\ Reinserted(map, n).size > 0
                                     /\ Stops(Reinserted(map, n), hash) # {}
    BY <2>5
  <2> DEFINE new == Reinserted(map, n)
  <2>7. \/ new = EmptyMap
        \/ /\ Shaped(new) /\ new.size > 0 /\ new.list = map.list
           /\ Keeps(new, ToSet(map.list)) /\ Unbroken(new, ToSet(map.list))
    BY <2>2, ReinsertedIs
  <2> HIDE DEF N
  <2>8. new.size > 0 /\ Stops(new, hash) # {} /\ Roomy(map, hash) = new
    BY <2>1, <2>6
  <2> HIDE DEF new
  <2>9. new # EmptyMap
    BY <2>8 DEF EmptyMap
  <2>10. MapInv(new)
    BY <2>7, <2>9, <2>2 DEF MapInv
  <2> QED BY <2>7, <2>8, <2>9, <2>10
<1> QED BY <1>1, <1>2

(* An insertion stops at the first probe that is vacant or holds the hash. *)
LEMMA StopAtIs ==
  ASSUME NEW map, Shaped(map), NEW hash, Stops(map, hash) # {}
  PROVE  \E at \in Probes(map) :
           /\ StopAt(map, hash) = Probe(map, hash, at)
           /\ map.slots[Probe(map, hash, at)] \in {Vacant, hash}
           /\ \A j \in 0..at - 1 : map.slots[Probe(map, hash, j)] \notin {Vacant, hash}
<1> DEFINE stops == Stops(map, hash)
<1>1. Probes(map) \in SUBSET Nat /\ \A i \in Probes(map) : \A j \in 0..i - 1 : j \in Probes(map)
  BY ProbesAreNumbers DEF Shaped
<1>2. stops \in SUBSET Nat
  BY <1>1 DEF Stops
<1> HIDE DEF stops
<1>3. Min(stops) \in stops /\ \A m \in stops : Min(stops) <= m
  BY <1>2, MinOf DEF stops
<1> DEFINE at == Min(stops)
<1>4. at \in Probes(map) /\ map.slots[Probe(map, hash, at)] \in {Vacant, hash}
  BY <1>3 DEF stops, Stops
<1>5. at \in Nat
  BY <1>1, <1>4
<1>6. ASSUME NEW j \in 0..at - 1 PROVE map.slots[Probe(map, hash, j)] \notin {Vacant, hash}
  <2>1. j \in Probes(map) /\ ~(at <= j)
    BY <1>1, <1>4, <1>5
  <2>2. j \notin stops
    BY <2>1, <1>3
  <2> QED BY <2>1, <2>2 DEF stops, Stops
<1>7. StopAt(map, hash) = Probe(map, hash, at)
  BY DEF StopAt, stops
<1> QED BY <1>4, <1>6, <1>7

(* A hash that is new, put where the probes stop and at the front.         *)
LEMMA AddedAtFront ==
  ASSUME NEW map, MapInv(map), map.size > 0,
         NEW hash \in HashValues, hash \notin ToSet(map.list),
         NEW at \in Probes(map), map.slots[Probe(map, hash, at)] = Vacant,
         NEW new, DOMAIN new = MapFields, new.size = map.size, new.load = map.load,
         new.slots = [map.slots EXCEPT ![Probe(map, hash, at)] = hash],
         new.list = <<hash>> \o map.list
  PROVE  MapInv(new) /\ ToSet(new.list) = ToSet(map.list) \cup {hash}
<1>1. Shaped(map) /\ IsInjective(map.list) /\ Keeps(map, ToSet(map.list))
      /\ map.list \in Seq(HashValues)
  BY DEF MapInv, Shaped
<1>2. /\ new.list \in Seq(HashValues) /\ ToSet(new.list) = ToSet(map.list) \cup {hash}
      /\ IsInjective(new.list)
  BY <1>1, Prepended
<1>3. ToSet(map.list) \in SUBSET HashValues
  BY <1>1 DEF ToSet
<1>4. Keeps(new, ToSet(map.list) \cup {hash})
      /\ new.slots \in [0..map.size - 1 -> HashValues \cup {Vacant}]
  <2> DEFINE held == ToSet(map.list)
  <2>1. Shaped(map) /\ map.size > 0 /\ held \in SUBSET HashValues /\ Keeps(map, held)
        /\ hash \notin held
    BY <1>1, <1>3
  <2> HIDE DEF held
  <2>2. Keeps(new, held \cup {hash})
        /\ new.slots \in [0..map.size - 1 -> HashValues \cup {Vacant}]
    BY <2>1, PlacingKeeps, Zenon
  <2> QED BY <2>2 DEF held
<1>5. Shaped(new)
  BY <1>1, <1>2, <1>4 DEF Shaped
<1> QED BY <1>2, <1>4, <1>5 DEF MapInv

(* insert_yield adds the hash unless it is there; nothing is erased from   *)
(* such a map, so a vacant slot proves that the hash is nowhere.           *)
THEOREM InsertYieldIs ==
  ASSUME NEW map, MapInv(map), Unbroken(map, ToSet(map.list)), NEW hash \in HashValues
  PROVE  LET new == InsertYield(map, hash)
         IN /\ MapInv(new) /\ Unbroken(new, ToSet(new.list))
            /\ ToSet(new.list) = ToSet(map.list) \cup {hash}
<1> DEFINE roomy == Roomy(map, hash)
           slot == StopAt(roomy, hash)
           held == ToSet(map.list)
<1>1. /\ MapInv(roomy) /\ roomy.list = map.list /\ roomy.size > 0
      /\ Stops(roomy, hash) # {} /\ Unbroken(roomy, held)
  BY RoomyIs
<1> HIDE DEF roomy
<1>2. Shaped(roomy) /\ Keeps(roomy, held) /\ DOMAIN roomy = MapFields
      /\ roomy.size \in Nat \ {0} /\ roomy.load \in Nat /\ roomy.list \in Seq(HashValues)
      /\ roomy.slots \in [0..roomy.size - 1 -> HashValues \cup {Vacant}]
  BY <1>1 DEF MapInv, Shaped
<1>3. PICK at \in Probes(roomy) :
        /\ slot = Probe(roomy, hash, at)
        /\ roomy.slots[Probe(roomy, hash, at)] \in {Vacant, hash}
        /\ \A j \in 0..at - 1 : roomy.slots[Probe(roomy, hash, j)] \notin {Vacant, hash}
  BY <1>1, <1>2, StopAtIs
<1>4. Probes(roomy) \in SUBSET Nat
  BY <1>2, ProbesAreNumbers
<1>5. slot \in 0..roomy.size - 1
  BY <1>2, <1>3, <1>4, ProbeInside
<1> HIDE DEF slot
<1>6. CASE roomy.slots[slot] = hash
  <2>1. InsertYield(map, hash) = roomy
    BY <1>6 DEF InsertYield, roomy, slot
  <2>2. hash \in held
    BY <1>2, <1>5, <1>6, VacantIsNoHash DEF Keeps
  <2> QED BY <2>1, <2>2, <1>1
<1>7. CASE roomy.slots[slot] # hash
  <2> DEFINE new == [roomy EXCEPT !.slots[slot] = hash, !.list = <<hash>> \o @]
  <2>1. InsertYield(map, hash) = new
    BY <1>7 DEF InsertYield, roomy, slot
  <2>2. /\ DOMAIN new = MapFields /\ new.size = roomy.size /\ new.load = roomy.load
        /\ new.slots = [roomy.slots EXCEPT ![slot] = hash]
        /\ new.list = <<hash>> \o roomy.list
    BY <1>2 DEF MapFields
  <2> HIDE DEF new
  <2>3. roomy.slots[slot] = Vacant
    BY <1>3, <1>7
  <2>4. hash \notin held
    <3> SUFFICES ASSUME hash \in held PROVE FALSE
      OBVIOUS
    <3>1. PICK i \in Probes(roomy) :
            /\ roomy.slots[Probe(roomy, hash, i)] = hash
            /\ \A j \in 0..i - 1 : roomy.slots[Probe(roomy, hash, j)] # Vacant
      BY <1>1 DEF Unbroken
    <3>2. i \in Nat /\ at \in Nat
      BY <1>3, <1>4
    <3>3. CASE i < at
      BY <3>1, <3>2, <3>3, <1>3
    <3>4. CASE i = at
      BY <3>1, <3>4, <1>3, <1>7
    <3>5. CASE i > at
      BY <3>1, <3>2, <3>5, <1>3, <2>3
    <3> QED BY <3>2, <3>3, <3>4, <3>5
  <2>5. /\ roomy.slots[Probe(roomy, hash, at)] = Vacant
        /\ new.slots = [roomy.slots EXCEPT ![Probe(roomy, hash, at)] = hash]
        /\ hash \notin ToSet(roomy.list)
    BY <2>2, <2>3, <2>4, <1>1, <1>3
  <2>6. MapInv(new) /\ ToSet(new.list) = ToSet(roomy.list) \cup {hash}
    <3>1. /\ MapInv(roomy) /\ roomy.size > 0 /\ hash \in HashValues
          /\ hash \notin ToSet(roomy.list)
          /\ at \in Probes(roomy) /\ roomy.slots[Probe(roomy, hash, at)] = Vacant
          /\ DOMAIN new = MapFields /\ new.size = roomy.size /\ new.load = roomy.load
          /\ new.slots = [roomy.slots EXCEPT ![Probe(roomy, hash, at)] = hash]
          /\ new.list = <<hash>> \o roomy.list
      BY <2>2, <2>5, <1>1, <1>3
    <3> QED BY <3>1, AddedAtFront, Zenon
  <2>7. Unbroken(new, held \cup {hash})
    <3>1. \A j \in 0..at - 1 : roomy.slots[Probe(roomy, hash, j)] # Vacant
      BY <1>3
    <3>2. held \in SUBSET HashValues
      BY <1>1, <1>2 DEF ToSet
    <3> HIDE DEF held
    <3> QED BY <2>2, <2>5, <3>1, <3>2, <1>1, <1>2, PlacingUnbroken
  <2> QED BY <2>1, <2>6, <2>7, <1>1
<1> QED BY <1>6, <1>7

(* insert_replace, of a hash that a lookup did not find.                   *)
THEOREM InsertReplaceIs ==
  ASSUME NEW map, MapInv(map), NEW hash \in HashValues, hash \notin ToSet(map.list)
  PROVE  LET new == InsertReplace(map, hash)
         IN MapInv(new) /\ ToSet(new.list) = ToSet(map.list) \cup {hash}
<1> DEFINE roomy == Roomy(map, hash)
           slot == StopAt(roomy, hash)
           held == ToSet(map.list)
<1>1. /\ MapInv(roomy) /\ roomy.list = map.list /\ roomy.size > 0
      /\ Stops(roomy, hash) # {}
  BY RoomyIs
<1> HIDE DEF roomy
<1>2. Shaped(roomy) /\ Keeps(roomy, held) /\ DOMAIN roomy = MapFields
      /\ roomy.size \in Nat \ {0} /\ roomy.load \in Nat /\ roomy.list \in Seq(HashValues)
      /\ roomy.slots \in [0..roomy.size - 1 -> HashValues \cup {Vacant}]
  BY <1>1 DEF MapInv, Shaped
<1>3. PICK at \in Probes(roomy) :
        /\ slot = Probe(roomy, hash, at)
        /\ roomy.slots[Probe(roomy, hash, at)] \in {Vacant, hash}
  BY <1>1, <1>2, StopAtIs
<1>4. Probes(roomy) \in SUBSET Nat
  BY <1>2, ProbesAreNumbers
<1>5. slot \in 0..roomy.size - 1
  BY <1>2, <1>3, <1>4, ProbeInside
<1> HIDE DEF slot
<1>6. roomy.slots[slot] # hash /\ roomy.slots[slot] = Vacant
  <2>1. roomy.slots[slot] \in held \cup {Vacant}
    BY <1>2, <1>5 DEF Keeps
  <2> QED BY <2>1, <1>3, VacantIsNoHash
<1> DEFINE new == [roomy EXCEPT !.slots[slot] = hash, !.list = <<hash>> \o @]
<1>7. InsertReplace(map, hash) = new
  BY <1>6 DEF InsertReplace, roomy, slot
<1>8. /\ DOMAIN new = MapFields /\ new.size = roomy.size /\ new.load = roomy.load
      /\ new.slots = [roomy.slots EXCEPT ![slot] = hash]
      /\ new.list = <<hash>> \o roomy.list
  BY <1>2 DEF MapFields
<1> HIDE DEF new
<1>9. /\ roomy.slots[Probe(roomy, hash, at)] = Vacant
      /\ new.slots = [roomy.slots EXCEPT ![Probe(roomy, hash, at)] = hash]
      /\ hash \notin ToSet(roomy.list)
  BY <1>1, <1>3, <1>6, <1>8
<1>10. MapInv(new) /\ ToSet(new.list) = ToSet(roomy.list) \cup {hash}
  <2>1. /\ MapInv(roomy) /\ roomy.size > 0 /\ hash \in HashValues
        /\ hash \notin ToSet(roomy.list)
        /\ at \in Probes(roomy) /\ roomy.slots[Probe(roomy, hash, at)] = Vacant
        /\ DOMAIN new = MapFields /\ new.size = roomy.size /\ new.load = roomy.load
        /\ new.slots = [roomy.slots EXCEPT ![Probe(roomy, hash, at)] = hash]
        /\ new.list = <<hash>> \o roomy.list
    BY <1>8, <1>9, <1>1, <1>3
  <2> QED BY <2>1, AddedAtFront, Zenon
<1> QED BY <1>1, <1>7, <1>10

(* find finds exactly what is listed, though erasing leaves vacant slots.  *)
THEOREM FoundIsListed ==
  ASSUME NEW map, MapInv(map), NEW hash \in HashValues
  PROVE  Found(map, hash) <=> hash \in ToSet(map.list)
<1>1. Shaped(map) /\ Keeps(map, ToSet(map.list)) /\ map.size \in Nat /\ map.load \in Nat
  BY DEF MapInv, Shaped
<1>2. ASSUME Found(map, hash) PROVE hash \in ToSet(map.list)
  <2>1. PICK i \in Probes(map) : map.slots[Probe(map, hash, i)] = hash
    BY <1>2 DEF Found
  <2>2. map.size # 0
    BY <2>1, <1>1 DEF Shaped, Probes
  <2>3. Probe(map, hash, i) \in 0..map.size - 1
    BY <2>1, <2>2, <1>1, ProbesAreNumbers, ProbeInside
  <2> QED BY <2>1, <2>3, <1>1, VacantIsNoHash DEF Keeps
<1> QED BY <1>1, <1>2 DEF Keeps

(* erase takes out the hash and nothing else.                              *)
LEMMA EraseIs ==
  ASSUME NEW map, MapInv(map), NEW hash \in HashValues
  PROVE  MapInv(Erase(map, hash)) /\ ToSet(Erase(map, hash).list) = ToSet(map.list) \ {hash}
<1>1. Shaped(map) /\ Keeps(map, ToSet(map.list)) /\ map.size \in Nat /\ map.load \in Nat
      /\ map.list \in Seq(HashValues) /\ IsInjective(map.list) /\ DOMAIN map = MapFields
  BY DEF MapInv, Shaped
<1>2. CASE ~Found(map, hash)
  <2>1. Erase(map, hash) = map
    BY <1>2 DEF Erase
  <2> QED BY <2>1, <1>2, FoundIsListed
<1>3. CASE Found(map, hash)
  <2> DEFINE T == {i \in Probes(map) : map.slots[Probe(map, hash, i)] = hash}
             at == Min(T)
             p == Probe(map, hash, at)
  <2>1. map.size # 0
    BY <1>3, <1>1 DEF Shaped, Probes, Found
  <2>2. Probes(map) \in SUBSET Nat
    BY <1>1, ProbesAreNumbers
  <2>3. at \in T
    <3>1. T \in SUBSET Nat /\ T # {}
      BY <2>2, <1>3 DEF Found
    <3> HIDE DEF T
    <3> QED BY <3>1, MinOf
  <2>4. at \in Probes(map) /\ map.slots[p] = hash
    BY <2>3
  <2> HIDE DEF at, T
  <2>5. p \in 0..map.size - 1 /\ map.size \in Nat \ {0}
    BY <1>1, <2>1, <2>2, <2>4, ProbeInside
  <2> DEFINE new == [map EXCEPT !.slots[p] = Vacant, !.list = RemoveFirst(@, hash)]
  <2>6. Erase(map, hash) = new
    BY <1>3 DEF Erase, at, T
  <2> HIDE DEF p
  <2>7. /\ DOMAIN new = MapFields /\ new.size = map.size /\ new.load = map.load
        /\ new.slots = [map.slots EXCEPT ![p] = Vacant]
        /\ new.list = RemoveFirst(map.list, hash)
    BY <1>1 DEF MapFields
  <2> HIDE DEF new
  <2>8. /\ new.list \in Seq(HashValues) /\ ToSet(new.list) = ToSet(map.list) \ {hash}
        /\ IsInjective(new.list)
    BY <1>1, <2>7, Removed
  <2>9. map.slots \in [0..map.size - 1 -> HashValues \cup {Vacant}]
    BY <1>1, <2>1 DEF Shaped
  <2>10. \A i \in 0..map.size - 1 : new.slots[i] = IF i = p THEN Vacant ELSE map.slots[i]
    BY <2>7, <2>9
  <2>11. Probes(new) = Probes(map) /\ \A h, i : Probe(new, h, i) = Probe(map, h, i)
    BY <2>7, ProbeAgrees
  <2>12. ASSUME NEW h \in ToSet(new.list) PROVE Found(new, h)
    <3>1. h \in ToSet(map.list) /\ h # hash /\ h \in HashValues
      <4>1. h \in ToSet(map.list) /\ h # hash
        BY <2>8
      <4> QED BY <4>1, <1>1 DEF ToSet
    <3>2. PICK i \in Probes(map) : map.slots[Probe(map, h, i)] = h
      BY <3>1, <1>1 DEF Keeps, Found
    <3>3. Probe(map, h, i) \in 0..map.size - 1
      BY <3>1, <2>2, <2>5, ProbeInside
    <3>4. Probe(map, h, i) # p
      BY <3>1, <3>2, <2>4
    <3>5. new.slots[Probe(new, h, i)] = h
      BY <3>2, <3>3, <3>4, <2>10, <2>11
    <3> QED BY <3>5, <2>11 DEF Found
  <2>13. \A i \in 0..map.size - 1 : new.slots[i] \in ToSet(new.list) \cup {Vacant}
    <3> SUFFICES ASSUME NEW i \in 0..map.size - 1, i # p, map.slots[i] # Vacant
                 PROVE  map.slots[i] \in ToSet(new.list)
      BY <2>10
    <3>1. map.slots[i] \in ToSet(map.list)
      BY <1>1 DEF Keeps
    <3>2. hash # Vacant
      BY VacantIsNoHash
    <3>3. map.slots[i] # hash
      BY <3>2, <2>4, <2>5, <1>1 DEF Keeps
    <3> QED BY <3>1, <3>3, <2>8
  <2>14. \A i, j \in 0..map.size - 1 :
          new.slots[i] = new.slots[j] /\ new.slots[i] # Vacant => i = j
    BY <2>10, <1>1 DEF Keeps
  <2>15. Keeps(new, ToSet(new.list))
    BY <2>7, <2>12, <2>13, <2>14 DEF Keeps
  <2>16. new.slots \in [0..map.size - 1 -> HashValues \cup {Vacant}]
    BY <2>7, <2>9
  <2>17. Shaped(new)
    BY <2>5, <2>7, <2>8, <2>16, <1>1 DEF Shaped
  <2>18. MapInv(new)
    BY <2>8, <2>15, <2>17 DEF MapInv
  <2> QED BY <2>6, <2>8, <2>18
<1> QED BY <1>2, <1>3

\* The maps g[0] to g[n] are the steps of ErasedAll.
Erasing(g, base, seq, n) ==
    /\ g[0] = base
    /\ \A k \in 1..n : g[k] = Erase(g[k-1], seq[k])
    /\ ErasedAll(base, seq) = g[n]

(* The erasure of a ring, one erase after the other.                       *)
LEMMA ErasedChain ==
  ASSUME NEW base, NEW n \in Nat, NEW seq, DOMAIN seq = 1..n
  PROVE  \E g : Erasing(g, base, seq, n)
<1> DEFINE Body(h, k) == [s \in SUBSET (1..k) |-> IF s = {} THEN base ELSE Erase(h[s \ {Max(s)}], seq[Max(s)])]
           Bad == {k \in 0..n : ~ \E h : h = Body(h, k)}
<1>1. \A k \in 0..n : \E h : h = Body(h, k)
  <2> SUFFICES ASSUME Bad # {} PROVE FALSE
    OBVIOUS
  <2>1. PICK m \in Bad : \A k \in Bad : m <= k
    <3>1. Bad \in SUBSET Nat
      OBVIOUS
    <3> HIDE DEF Bad
    <3> QED BY <3>1, Least
  <2>2. m \in Nat /\ m \in 0..n /\ ~ \E h : h = Body(h, m)
    <3>1. m \in 0..n /\ m \in Nat
      OBVIOUS
    <3>2. ~ \E h : h = Body(h, m)
      BY Zenon
    <3> QED BY <3>1, <3>2, Zenon
  <2>3. m # 0
    <3> DEFINE z == [s \in SUBSET (1..0) |-> base]
    <3>1. z = Body(z, 0)
      <4>1. \A s \in SUBSET (1..0) : s = {}
        OBVIOUS
      <4> QED BY <4>1
    <3> QED BY <2>2, <3>1
  <2>4. PICK h : h = Body(h, m - 1)
    <3>1. m - 1 \in 0..n /\ m - 1 \notin Bad
      <4> HIDE DEF Bad
      <4>1. m - 1 \in 0..n /\ ~(m <= m - 1)
        BY <2>2, <2>3
      <4> QED BY <4>1, <2>1
    <3> QED BY <3>1, Zenon
  <2> HIDE DEF Bad
  <2> DEFINE h2 == Body(h, m)
  <2>5. ASSUME NEW s \in SUBSET (1..m)
        PROVE  h2[s] = IF s = {} THEN base ELSE Erase(h2[s \ {Max(s)}], seq[Max(s)])
    <3>1. CASE s = {}
      BY <3>1
    <3>2. CASE s # {}
      <4> DEFINE r == s \ {Max(s)}
      <4>1. Max(s) \in s /\ (\A y \in s : Max(s) >= y)
        BY <3>2, <2>2, MaxOf
      <4>2. r \in SUBSET (1..m - 1)
        <5>1. \A y \in r : y \in 1..m /\ y # Max(s) /\ Max(s) \in 1..m /\ Max(s) >= y
          BY <4>1
        <5>2. \A y \in r : y \in 1..m - 1
          BY <5>1, <2>2
        <5> QED BY <5>2
      <4>3. h[r] = IF r = {} THEN base ELSE Erase(h[r \ {Max(r)}], seq[Max(r)])
        BY <2>4, <4>2, Zenon
      <4>4. r \in SUBSET (1..m)
        OBVIOUS
      <4>5. h2[r] = h[r]
        BY <4>3, <4>4
      <4> QED BY <3>2, <4>5
    <3> QED BY <3>1, <3>2
  <2>6. h2 = Body(h2, m)
    BY <2>5
  <2> QED BY <2>2, <2>6
<1>2. PICK f : f = Body(f, n) /\ ErasedAll(base, seq) = f[1..n]
  <2>1. \E f : f = Body(f, n)
    <3>1. n \in 0..n
      OBVIOUS
    <3> QED BY <1>1, <3>1, Zenon
  <2>2. (CHOOSE f : f = Body(f, n)) = Body((CHOOSE f : f = Body(f, n)), n)
    BY <2>1, Zenon
  <2>3. ErasedAll(base, seq) = (CHOOSE f : f = Body(f, n))[1..n]
    BY DEF ErasedAll, FoldLeft, MapThenFoldSet
  <2> QED BY <2>2, <2>3
<1> DEFINE g == [k \in 0..n |-> f[1..k]]
<1>3. g[0] = base
  <2>1. 1..0 = {} /\ 1..0 \in SUBSET (1..n)
    OBVIOUS
  <2>2. f[{}] = base
    BY <1>2, <2>1
  <2> QED BY <2>1, <2>2
<1>4. ASSUME NEW k \in 1..n
      PROVE  g[k] = Erase(g[k-1], seq[k])
  <2>1. Max(1..k) = k
    <3>1. 1..k \in SUBSET (1..k) /\ 1..k # {}
      OBVIOUS
    <3>2. Max(1..k) \in 1..k /\ \A y \in 1..k : Max(1..k) >= y
      <4>1. k \in Nat
        OBVIOUS
      <4> DEFINE all == 1..k
      <4>2. all \in SUBSET (1..k) /\ all # {}
        BY <3>1
      <4> HIDE DEF all
      <4>3. Max(all) \in all /\ \A y \in all : Max(all) >= y
        BY <4>1, <4>2, MaxOf
      <4> QED BY <4>3 DEF all
    <3> QED BY <3>2
  <2>2. (1..k) \ {k} = 1..(k-1) /\ 1..k # {} /\ 1..k \in SUBSET (1..n)
    OBVIOUS
  <2>3. f[1..k] = IF 1..k = {} THEN base ELSE Erase(f[(1..k) \ {Max(1..k)}], seq[Max(1..k)])
    BY <1>2, <2>2, Zenon
  <2>4. f[1..k] = Erase(f[1..(k-1)], seq[k])
    BY <2>1, <2>2, <2>3
  <2> QED BY <2>4
<1>5. ErasedAll(base, seq) = g[n]
  <2>1. n \in 0..n
    OBVIOUS
  <2>2. g[n] = f[1..n]
    BY <2>1
  <2> HIDE DEF g
  <2> QED BY <1>2, <2>2
<1> HIDE DEF g
<1> QED BY <1>3, <1>4, <1>5 DEF Erasing

(* begin_frame takes out exactly what the ring lists.                      *)
THEOREM ErasedAllIs ==
  ASSUME NEW map, MapInv(map), NEW hashes \in Seq(HashValues)
  PROVE  LET new == ErasedAll(map, hashes)
         IN MapInv(new) /\ ToSet(new.list) = ToSet(map.list) \ ToSet(hashes)
<1> DEFINE n == Len(hashes)
<1>1. n \in Nat /\ DOMAIN hashes = 1..n /\ \A k \in 1..n : hashes[k] \in HashValues
  OBVIOUS
<1> HIDE DEF n
<1>2. PICK g : Erasing(g, map, hashes, n)
  BY <1>1, ErasedChain
<1>a. /\ g[0] = map
      /\ \A k \in 1..n : g[k] = Erase(g[k-1], hashes[k])
      /\ ErasedAll(map, hashes) = g[n]
  BY <1>2 DEF Erasing
<1> DEFINE first(k) == {hashes[i] : i \in 1..k}
           Good(k) == MapInv(g[k]) /\ ToSet(g[k].list) = ToSet(map.list) \ first(k)
           Bad == {k \in 0..n : ~Good(k)}
<1>3. Good(0)
  <2>1. first(0) = {}
    OBVIOUS
  <2> HIDE DEF first
  <2> QED BY <2>1, <1>a
<1>4. ASSUME NEW k \in 1..n, Good(k - 1) PROVE Good(k)
  <2>1. first(k) = first(k - 1) \cup {hashes[k]}
    BY <1>1
  <2> HIDE DEF first
  <2>2. /\ MapInv(Erase(g[k - 1], hashes[k]))
        /\ ToSet(Erase(g[k - 1], hashes[k]).list) = ToSet(g[k - 1].list) \ {hashes[k]}
    BY <1>1, <1>4, EraseIs
  <2>3. g[k] = Erase(g[k - 1], hashes[k])
    BY <1>a
  <2> QED BY <2>1, <2>2, <2>3, <1>4
<1> HIDE DEF Good
<1>5. Bad = {}
  <2> SUFFICES ASSUME Bad # {} PROVE FALSE
    OBVIOUS
  <2>1. PICK m \in Bad : \A k \in Bad : m <= k
    <3>1. Bad \in SUBSET Nat
      BY <1>1
    <3> HIDE DEF Bad
    <3> QED BY <3>1, Least
  <2>2. m \in 0..n /\ ~Good(m)
    OBVIOUS
  <2>3. m \in 1..n /\ m - 1 \in 0..n /\ ~(m <= m - 1)
    BY <2>2, <1>3, <1>1
  <2>4. Good(m - 1)
    BY <2>1, <2>3
  <2> QED BY <2>2, <2>3, <2>4, <1>4
<1>6. Good(n)
  BY <1>1, <1>5
<1>7. first(n) = ToSet(hashes)
  BY <1>1 DEF ToSet
<1> HIDE DEF first
<1> QED BY <1>a, <1>6, <1>7 DEF Good

(* A sequence without repetitions is as long as the set of its elements.   *)
LEMMA InjectiveLength ==
  ASSUME NEW S, NEW s \in Seq(S), IsInjective(s)
  PROVE  IsFiniteSet(ToSet(s)) /\ Cardinality(ToSet(s)) = Len(s)
<1>1. Len(s) \in Nat /\ DOMAIN s = 1..Len(s)
  OBVIOUS
<1>2. s \in Bijection(1..Len(s), ToSet(s))
  <2>1. s \in [1..Len(s) -> ToSet(s)]
    BY <1>1 DEF ToSet
  <2>2. s \in Injection(1..Len(s), ToSet(s))
    BY <2>1, <1>1 DEF Injection, IsInjective
  <2>3. s \in Surjection(1..Len(s), ToSet(s))
    BY <2>1, <1>1 DEF Surjection, ToSet
  <2> QED BY <2>2, <2>3 DEF Bijection
<1>3. ExistsBijection(1..Len(s), ToSet(s))
  BY <1>2 DEF ExistsBijection
<1>4. IsFiniteSet(1..Len(s)) /\ Cardinality(1..Len(s)) = Len(s)
  BY <1>1, FS_Interval
<1> QED BY <1>3, <1>4, FS_Bijection

(* What the table keeps is what the reader of the list expects.            *)
LEMMA KeptIsSound ==
  ASSUME NEW map, MapInv(map)
  PROVE  MapSound(map)
<1> DEFINE held == {i \in DOMAIN map.slots : map.slots[i] # Vacant}
           all == ToSet(map.list)
<1>1. /\ Shaped(map) /\ Keeps(map, all) /\ map.list \in Seq(HashValues)
      /\ IsInjective(map.list) /\ map.size \in Nat /\ map.load \in Nat
  BY DEF MapInv, Shaped
<1>2. IsFiniteSet(all) /\ Cardinality(all) = Len(map.list)
  BY <1>1, InjectiveLength
<1>3. all \in SUBSET HashValues
  BY <1>1 DEF ToSet
<1>4. DOMAIN map.slots = 0..map.size - 1
  <2>1. CASE map.size = 0
    <3>1. map.slots = <<>>
      BY <2>1, <1>1 DEF Shaped
    <3>2. DOMAIN map.slots = {} /\ 0..map.size - 1 = {}
      BY <2>1, <3>1
    <3> QED BY <3>2
  <2>2. CASE map.size # 0
    BY <2>2, <1>1 DEF Shaped
  <2> QED BY <2>1, <2>2
<1> HIDE DEF all
<1>5. \A h \in all : \E i \in held : map.slots[i] = h
  <2> SUFFICES ASSUME NEW h \in all PROVE \E i \in held : map.slots[i] = h
    OBVIOUS
  <2>1. PICK i \in Probes(map) : map.slots[Probe(map, h, i)] = h
    BY <1>1 DEF Keeps, Found
  <2>2. map.size # 0
    BY <2>1, <1>1 DEF Shaped, Probes
  <2>3. Probe(map, h, i) \in 0..map.size - 1
    BY <2>1, <2>2, <1>1, <1>3, ProbesAreNumbers, ProbeInside
  <2>4. h # Vacant
    BY <1>3, VacantIsNoHash
  <2> QED BY <2>1, <2>3, <2>4, <1>4
<1>6. \A i \in held : map.slots[i] \in all
  BY <1>1, <1>4 DEF Keeps
<1>7. \A i, j \in held : map.slots[i] = map.slots[j] => i = j
  BY <1>1, <1>4 DEF Keeps
<1>8. Cardinality(held) = Cardinality(all)
  <2> DEFINE f == [i \in held |-> map.slots[i]]
  <2>1. f \in [held -> all]
    BY <1>6
  <2>2. f \in Injection(held, all)
    BY <2>1, <1>7 DEF Injection, IsInjective
  <2>3. f \in Surjection(held, all)
    BY <2>1, <1>5 DEF Surjection
  <2> HIDE DEF f
  <2> QED BY <2>2, <2>3, <1>2, FS_Injection
<1>9. {map.slots[i] : i \in held} = all
  BY <1>5, <1>6
<1>10. \A h \in all : Found(map, h)
  BY <1>1 DEF Keeps
<1> QED BY <1>2, <1>8, <1>9, <1>10 DEF MapSound, all

(* A map before its first insertion.                                       *)
LEMMA EmptyMapInv == MapInv(EmptyMap) /\ ToSet(EmptyMap.list) = {}
<1>1. Shaped(EmptyMap)
  BY SizesAssumption DEF Shaped, EmptyMap, MapFields
<1>2. EmptyMap.list = <<>> /\ ToSet(EmptyMap.list) = {} /\ IsInjective(EmptyMap.list)
  BY DEF EmptyMap, ToSet, IsInjective
<1>3. Keeps(EmptyMap, {})
  <2>1. 0..EmptyMap.size - 1 = {}
    BY DEF EmptyMap
  <2> QED BY <2>1 DEF Keeps
<1> QED BY <1>1, <1>2, <1>3 DEF MapInv

(* What a cache keeps is what a reader expects of it.                      *)
LEMMA CacheKeptIsSound ==
  ASSUME NEW cache, CacheInv(cache)
  PROVE  CacheSound(cache)
<1>1. DOMAIN cache.rings = 0..RingSize - 1
  BY DEF CacheInv
<1>2. MapSound(cache.map)
  BY KeptIsSound DEF CacheInv
<1>3. UNION {ToSet(cache.rings[i]) : i \in DOMAIN cache.rings} = ToSet(cache.map.list)
  BY <1>1 DEF CacheInv
<1>4. \A i \in DOMAIN cache.rings : Cardinality(ToSet(cache.rings[i])) = Len(cache.rings[i])
  <2> SUFFICES ASSUME NEW i \in DOMAIN cache.rings
               PROVE  Cardinality(ToSet(cache.rings[i])) = Len(cache.rings[i])
    OBVIOUS
  <2>1. cache.rings[i] \in Seq(HashValues) /\ IsInjective(cache.rings[i])
    BY <1>1 DEF CacheInv
  <2> QED BY <2>1, InjectiveLength
<1>5. \A i, j \in DOMAIN cache.rings :
        i # j => ToSet(cache.rings[i]) \cap ToSet(cache.rings[j]) = {}
  BY <1>1 DEF CacheInv
<1>6. DOMAIN cache.made = ToSet(cache.map.list)
  BY DEF CacheInv
<1> QED BY <1>2, <1>3, <1>4, <1>5, <1>6 DEF CacheSound

(* A cache at first, or after clear.                                       *)
LEMMA NothingCached ==
  ASSUME NEW index \in 0..RingSize - 1
  PROVE  CacheInv([EmptyCache EXCEPT !.index = index])
<1> DEFINE cache == [EmptyCache EXCEPT !.index = index]
<1>1. /\ DOMAIN cache = CacheFields /\ cache.map = EmptyMap
      /\ cache.rings = [i \in 0..RingSize - 1 |-> <<>>]
      /\ cache.index = index /\ cache.made = <<>>
  BY DEF EmptyCache, CacheFields
<1> HIDE DEF cache
<1>2. \A i \in 0..RingSize - 1 : cache.rings[i] = <<>>
  BY <1>1
<1>3. <<>> \in Seq(HashValues) /\ ToSet(<<>>) = {} /\ IsInjective(<<>>) /\ DOMAIN <<>> = {}
  BY DEF ToSet, IsInjective
<1>4. cache.rings \in [0..RingSize - 1 -> Seq(HashValues)]
  BY <1>1, <1>3
<1>5. MapInv(cache.map) /\ ToSet(cache.map.list) = {}
  BY <1>1, EmptyMapInv
<1> QED BY <1>1, <1>2, <1>3, <1>4, <1>5 DEF CacheInv, cache

(* request moves a hash it finds to the ring of this frame.                *)
LEMMA RefreshedIs ==
  ASSUME NEW cache, CacheInv(cache), NEW hash \in HashValues, Found(cache.map, hash)
  PROVE  /\ CacheInv(Refreshed(cache, hash))
         /\ Refreshed(cache, hash).map = cache.map
         /\ Refreshed(cache, hash).made = cache.made
<1> DEFINE old == RingOf(cache, hash)
           index == cache.index
           R == 0..RingSize - 1
           rings == cache.rings
           ring(i) == ToSet(rings[i])
<1>1. /\ DOMAIN cache = CacheFields /\ MapInv(cache.map) /\ index \in R
      /\ rings \in [R -> Seq(HashValues)]
      /\ \A i \in R : IsInjective(rings[i])
      /\ \A i, j \in R : i # j => ring(i) \cap ring(j) = {}
      /\ \A h : h \in ToSet(cache.map.list) <=> \E i \in R : h \in ring(i)
      /\ DOMAIN cache.made = ToSet(cache.map.list)
  BY DEF CacheInv
<1>2. hash \in ToSet(cache.map.list)
  BY <1>1, FoundIsListed
<1>3. old \in R /\ hash \in ring(old)
  <2>1. \A i \in R : hash \in ring(i) <=> Contains(rings[i], hash)
    <3> SUFFICES ASSUME NEW i \in R PROVE hash \in ring(i) <=> Contains(rings[i], hash)
      OBVIOUS
    <3>1. rings[i] \in Seq(HashValues)
      BY <1>1
    <3> QED BY <3>1 DEF ToSet, Contains
  <2>2. PICK i \in R : Contains(rings[i], hash)
    BY <1>1, <1>2, <2>1
  <2>3. DOMAIN rings = R
    BY <1>1
  <2>4. old \in R /\ Contains(rings[old], hash)
    BY <2>2, <2>3 DEF RingOf
  <2> QED BY <2>1, <2>4
<1>4. CASE old = index
  BY <1>4 DEF Refreshed
<1>5. CASE old # index
  <2> DEFINE new == [cache EXCEPT !.rings[old] = RemoveFirst(@, hash),
                                  !.rings[index] = <<hash>> \o @]
  <2>1. Refreshed(cache, hash) = new
    BY <1>5 DEF Refreshed
  <2> HIDE DEF old, ring, index, R
  <2>2. /\ DOMAIN new = CacheFields /\ new.map = cache.map /\ new.index = cache.index
        /\ new.made = cache.made
        /\ new.rings = [rings EXCEPT ![old] = RemoveFirst(@, hash),
                                     ![index] = <<hash>> \o @]
    BY <1>1 DEF CacheFields
  <2> HIDE DEF new
  <2>3. \A i \in R : new.rings[i] = IF i = index THEN <<hash>> \o rings[index]
                                    ELSE IF i = old THEN RemoveFirst(rings[old], hash)
                                    ELSE rings[i]
    BY <2>2, <1>1, <1>3, <1>5
  <2>4. rings[old] \in Seq(HashValues) /\ rings[index] \in Seq(HashValues)
        /\ IsInjective(rings[old]) /\ IsInjective(rings[index])
    BY <1>1, <1>3
  <2>5. /\ RemoveFirst(rings[old], hash) \in Seq(HashValues)
        /\ ToSet(RemoveFirst(rings[old], hash)) = ToSet(rings[old]) \ {hash}
        /\ IsInjective(RemoveFirst(rings[old], hash))
    BY <2>4, Removed
  <2>6. hash \notin ToSet(rings[index])
    BY <1>1, <1>3, <1>5 DEF ring
  <2>7. /\ <<hash>> \o rings[index] \in Seq(HashValues)
        /\ ToSet(<<hash>> \o rings[index]) = ToSet(rings[index]) \cup {hash}
        /\ IsInjective(<<hash>> \o rings[index])
    BY <2>4, <2>6, Prepended
  <2>8. DOMAIN new.rings = R
    BY <2>2, <1>1
  <2> DEFINE now(i) == ToSet(new.rings[i])
  <2>9. \A i \in R : new.rings[i] \in Seq(HashValues) /\ IsInjective(new.rings[i])
    BY <2>3, <2>5, <2>7, <1>1
  <2>10. \A i \in R : now(i) = IF i = index THEN ring(i) \cup {hash} ELSE ring(i) \ {hash}
    <3> SUFFICES ASSUME NEW i \in R
                 PROVE  now(i) = IF i = index THEN ring(i) \cup {hash} ELSE ring(i) \ {hash}
      OBVIOUS
    <3>1. CASE i = index
      BY <3>1, <2>3, <2>7 DEF ring
    <3>2. CASE i # index /\ i = old
      BY <3>2, <2>3, <2>5 DEF ring
    <3>3. CASE i # index /\ i # old
      <4>1. hash \notin ring(i)
        BY <3>3, <1>1, <1>3
      <4> QED BY <4>1, <3>3, <2>3 DEF ring
    <3> QED BY <3>1, <3>2, <3>3
  <2> HIDE DEF now
  <2>11. \A i, j \in R : i # j => now(i) \cap now(j) = {}
    <3> SUFFICES ASSUME NEW i \in R, NEW j \in R, i # j, NEW h, h \in now(i), h \in now(j)
                 PROVE  FALSE
      OBVIOUS
    <3>1. CASE h = hash
      BY <3>1, <2>10
    <3>2. CASE h # hash
      <4>1. h \in ring(i) /\ h \in ring(j)
        BY <3>2, <2>10
      <4> QED BY <4>1, <1>1
    <3> QED BY <3>1, <3>2
  <2>12. \A h : h \in ToSet(cache.map.list) <=> \E i \in R : h \in now(i)
    <3>1. \A h : (\E i \in R : h \in now(i)) <=> (\E i \in R : h \in ring(i))
      <4> SUFFICES ASSUME NEW h
                   PROVE  (\E i \in R : h \in now(i)) <=> (\E i \in R : h \in ring(i))
        OBVIOUS
      <4>1. CASE h = hash
        <5>1. index \in R /\ h \in now(index) /\ old \in R /\ h \in ring(old)
          BY <4>1, <1>1, <1>3, <2>10
        <5> QED BY <5>1
      <4>2. CASE h # hash
        <5>1. \A i \in R : h \in now(i) <=> h \in ring(i)
          BY <4>2, <2>10
        <5> QED BY <5>1
      <4> QED BY <4>1, <4>2
    <3> QED BY <3>1, <1>1
  <2>13. CacheInv(new)
    <3>1. new.rings \in [R -> Seq(HashValues)]
      BY <2>2, <2>8, <2>9, <1>1, <1>3, <2>4, <2>5, <2>7
    <3>2. ToSet(new.map.list) = UNION {ToSet(new.rings[i]) : i \in R}
      BY <2>2, <2>12 DEF now
    <3> QED BY <3>1, <3>2, <2>2, <2>9, <2>11, <1>1 DEF CacheInv, now, R, index
  <2> QED BY <2>1, <2>2, <2>13
<1> QED BY <1>4, <1>5

(* emplace puts a new hash in the ring of this frame.                      *)
LEMMA EmplacedIs ==
  ASSUME NEW cache, CacheInv(cache), NEW hash \in HashValues, ~Found(cache.map, hash), NEW args
  PROVE  /\ CacheInv(Emplaced(cache, hash, args))
         /\ Emplaced(cache, hash, args).made
              = [h \in DOMAIN cache.made \cup {hash} |-> IF h = hash THEN args ELSE cache.made[h]]
<1> DEFINE index == cache.index
           R == 0..RingSize - 1
           rings == cache.rings
           ring(i) == ToSet(rings[i])
           new == Emplaced(cache, hash, args)
<1>1. /\ DOMAIN cache = CacheFields /\ MapInv(cache.map) /\ index \in R
      /\ rings \in [R -> Seq(HashValues)]
      /\ \A i \in R : IsInjective(rings[i])
      /\ \A i, j \in R : i # j => ring(i) \cap ring(j) = {}
      /\ \A h : h \in ToSet(cache.map.list) <=> \E i \in R : h \in ring(i)
      /\ DOMAIN cache.made = ToSet(cache.map.list)
  BY DEF CacheInv
<1>2. hash \notin ToSet(cache.map.list)
  BY <1>1, FoundIsListed
<1>3. /\ DOMAIN new = CacheFields /\ new.map = InsertReplace(cache.map, hash)
      /\ new.index = index
      /\ new.rings = [rings EXCEPT ![index] = <<hash>> \o @]
      /\ new.made = [h \in DOMAIN cache.made \cup {hash} |->
                       IF h = hash THEN args ELSE cache.made[h]]
  <2> HIDE DEF index
  <2> QED BY <1>1 DEF Emplaced, CacheFields, index
<1> HIDE DEF new, index, R, ring
<1>4. MapInv(new.map) /\ ToSet(new.map.list) = ToSet(cache.map.list) \cup {hash}
  <2>1. MapInv(cache.map)
    BY <1>1
  <2>2. /\ MapInv(InsertReplace(cache.map, hash))
        /\ ToSet(InsertReplace(cache.map, hash).list) = ToSet(cache.map.list) \cup {hash}
    BY <2>1, <1>2, InsertReplaceIs
  <2> QED BY <2>2, <1>3
<1>5. hash \notin ring(index) /\ rings[index] \in Seq(HashValues) /\ IsInjective(rings[index])
  BY <1>1, <1>2
<1>6. /\ <<hash>> \o rings[index] \in Seq(HashValues)
      /\ ToSet(<<hash>> \o rings[index]) = ToSet(rings[index]) \cup {hash}
      /\ IsInjective(<<hash>> \o rings[index])
  BY <1>5, Prepended DEF ring
<1>7. new.rings \in [R -> Seq(HashValues)]
  BY <1>1, <1>3, <1>6
<1>8. \A i \in R : new.rings[i] = IF i = index THEN <<hash>> \o rings[index] ELSE rings[i]
  BY <1>1, <1>3
<1>9. \A i \in R : IsInjective(new.rings[i])
  BY <1>1, <1>6, <1>8
<1> DEFINE now(i) == ToSet(new.rings[i])
<1>10. \A i \in R : now(i) = IF i = index THEN ring(i) \cup {hash} ELSE ring(i)
  BY <1>6, <1>8 DEF ring
<1> HIDE DEF now
<1>11. \A i \in R : hash \notin ring(i)
  BY <1>1, <1>2
<1>12. \A i, j \in R : i # j => now(i) \cap now(j) = {}
  BY <1>1, <1>10, <1>11
<1>13. \A h : h \in ToSet(new.map.list) <=> \E i \in R : h \in now(i)
  <2> SUFFICES ASSUME NEW h
               PROVE  h \in ToSet(new.map.list) <=> \E i \in R : h \in now(i)
    OBVIOUS
  <2>1. CASE h = hash
    <3>1. index \in R /\ h \in now(index)
      BY <2>1, <1>1, <1>10
    <3> QED BY <3>1, <2>1, <1>4
  <2>2. CASE h # hash
    <3>1. \A i \in R : h \in now(i) <=> h \in ring(i)
      BY <2>2, <1>10
    <3>2. h \in ToSet(new.map.list) <=> h \in ToSet(cache.map.list)
      BY <2>2, <1>4
    <3> QED BY <3>1, <3>2, <1>1
  <2> QED BY <2>1, <2>2
<1>14. DOMAIN new.made = ToSet(new.map.list)
  BY <1>1, <1>3, <1>4
<1>15. CacheInv(new)
  <2>1. ToSet(new.map.list) = UNION {ToSet(new.rings[i]) : i \in R}
    BY <1>13 DEF now
  <2> QED BY <2>1, <1>1, <1>3, <1>4, <1>7, <1>9, <1>12, <1>14 DEF CacheInv, now, R
<1> QED BY <1>3, <1>15 DEF new

(* What a request leaves of the objects: those there were, and its own.    *)
LEMMA RequestedIs ==
  ASSUME NEW cache, CacheInv(cache), NEW hash \in HashValues, NEW args
  PROVE  LET new == Requested(cache, hash, args)
         IN /\ CacheInv(new)
            /\ DOMAIN new.made = DOMAIN cache.made \cup {hash}
            /\ \A h \in DOMAIN cache.made : new.made[h] = cache.made[h]
            /\ hash \notin DOMAIN cache.made => new.made[hash] = args
            /\ Found(cache.map, hash) <=> hash \in DOMAIN cache.made
<1>1. Found(cache.map, hash) <=> hash \in DOMAIN cache.made
  BY FoundIsListed DEF CacheInv
<1>2. CASE Found(cache.map, hash)
  BY <1>1, <1>2, RefreshedIs DEF Requested
<1>3. CASE ~Found(cache.map, hash)
  <2> DEFINE new == Emplaced(cache, hash, args)
  <2>1. Requested(cache, hash, args) = new
    BY <1>3 DEF Requested
  <2> HIDE DEF new
  <2>2. CacheInv(new)
        /\ new.made = [h \in DOMAIN cache.made \cup {hash} |->
                         IF h = hash THEN args ELSE cache.made[h]]
    BY <1>3, EmplacedIs DEF new
  <2> QED BY <2>1, <2>2, <1>1, <1>3
<1> QED BY <1>2, <1>3

(* begin_frame frees objects and changes none.                             *)
THEOREM NextFrameIs ==
  ASSUME NEW cache, CacheInv(cache)
  PROVE  LET new == NextFrame(cache)
         IN /\ CacheInv(new)
            /\ DOMAIN new.made \subseteq DOMAIN cache.made
            /\ \A h \in DOMAIN new.made : new.made[h] = cache.made[h]
<1> DEFINE index == (cache.index + 1) % RingSize
           R == 0..RingSize - 1
           rings == cache.rings
           ring(i) == ToSet(rings[i])
           new == NextFrame(cache)
           old == rings[index]
<1>1. /\ DOMAIN cache = CacheFields /\ MapInv(cache.map) /\ cache.index \in R
      /\ rings \in [R -> Seq(HashValues)]
      /\ \A i \in R : IsInjective(rings[i])
      /\ \A i, j \in R : i # j => ring(i) \cap ring(j) = {}
      /\ \A h : h \in ToSet(cache.map.list) <=> \E i \in R : h \in ring(i)
      /\ DOMAIN cache.made = ToSet(cache.map.list)
  BY DEF CacheInv
<1>2. index \in R
  <2>1. cache.index + 1 \in Nat /\ RingSize \in Nat \ {0}
    BY <1>1, SizesAssumption
  <2> QED BY <2>1, Remainder
<1>3. /\ DOMAIN new = CacheFields /\ new.map = ErasedAll(cache.map, old)
      /\ new.index = index /\ new.rings = [rings EXCEPT ![index] = <<>>]
      /\ new.made = [h \in DOMAIN cache.made \ ToSet(old) |-> cache.made[h]]
  <2> HIDE DEF index
  <2> QED BY DEF NextFrame, CacheFields, index
<1> HIDE DEF new, index, R, ring, old
<1>4. old \in Seq(HashValues)
  BY <1>1, <1>2 DEF old
<1>5. MapInv(new.map) /\ ToSet(new.map.list) = ToSet(cache.map.list) \ ToSet(old)
  <2>1. MapInv(cache.map)
    BY <1>1
  <2>2. /\ MapInv(ErasedAll(cache.map, old))
        /\ ToSet(ErasedAll(cache.map, old).list) = ToSet(cache.map.list) \ ToSet(old)
    BY <2>1, <1>4, ErasedAllIs
  <2> QED BY <2>2, <1>3
<1>6. <<>> \in Seq(HashValues) /\ ToSet(<<>>) = {} /\ IsInjective(<<>>)
  BY DEF ToSet, IsInjective
<1>7. new.rings \in [R -> Seq(HashValues)]
  BY <1>1, <1>3, <1>6
<1>8. \A i \in R : new.rings[i] = IF i = index THEN <<>> ELSE rings[i]
  BY <1>1, <1>3
<1>9. \A i \in R : IsInjective(new.rings[i])
  BY <1>1, <1>6, <1>8
<1> DEFINE now(i) == ToSet(new.rings[i])
<1>10. \A i \in R : now(i) = IF i = index THEN {} ELSE ring(i)
  BY <1>6, <1>8 DEF ring
<1> HIDE DEF now
<1>11. ToSet(old) = ring(index)
  BY DEF old, ring
<1>12. \A i, j \in R : i # j => now(i) \cap now(j) = {}
  BY <1>1, <1>10
<1>13. \A h : h \in ToSet(new.map.list) <=> \E i \in R : h \in now(i)
  <2> SUFFICES ASSUME NEW h
               PROVE  h \in ToSet(new.map.list) <=> \E i \in R : h \in now(i)
    OBVIOUS
  <2>1. ASSUME h \in ToSet(new.map.list) PROVE \E i \in R : h \in now(i)
    BY <2>1, <1>1, <1>5, <1>10, <1>11
  <2>2. ASSUME NEW i \in R, h \in now(i) PROVE h \in ToSet(new.map.list)
    <3>1. i # index /\ h \in ring(i)
      BY <2>2, <1>10
    <3>2. h \notin ring(index)
      BY <3>1, <1>1, <1>2
    <3> QED BY <3>1, <3>2, <1>1, <1>5, <1>11
  <2> QED BY <2>1, <2>2
<1>14. DOMAIN new.made = ToSet(new.map.list)
  BY <1>1, <1>3, <1>5
<1>15. CacheInv(new)
  <2>1. ToSet(new.map.list) = UNION {ToSet(new.rings[i]) : i \in R}
    BY <1>13 DEF now
  <2> QED BY <2>1, <1>1, <1>2, <1>3, <1>5, <1>7, <1>9, <1>12, <1>14 DEF CacheInv, now, R
<1> QED BY <1>3, <1>15 DEF new

(* clear frees every object.                                               *)
LEMMA ClearedIs ==
  ASSUME NEW cache, CacheInv(cache)
  PROVE  CacheInv(Cleared(cache)) /\ DOMAIN Cleared(cache).made = {}
<1>1. cache.index \in 0..RingSize - 1
  BY DEF CacheInv
<1>2. Cleared(cache) = [EmptyCache EXCEPT !.index = cache.index]
  BY DEF Cleared
<1>3. Cleared(cache).made = <<>>
  BY <1>2 DEF EmptyCache
<1>4. DOMAIN <<>> = {}
  OBVIOUS
<1> QED BY <1>1, <1>2, <1>3, <1>4, NothingCached

-----------------------------------------------------------------------------
(***************************************************************************)
(* The spin lock excludes, for any number of threads, and the cache uses   *)
(* nothing but its operations.                                             *)
(*                                                                         *)
(* Mutual exclusion alone is not inductive: a writer gets in because the   *)
(* word is 0, so one must know that the word counts the readers and the    *)
(* writer.  LockInv adds that, and each operation of the lock keeps it.    *)
(* Every step of the cache is one of these operations or leaves the lock   *)
(* alone, so the cache implements LockSpec and inherits what was proved.   *)
(***************************************************************************)

Sharing == Holding({"spinning", "reading"})
Writing == Holding({"writing"})

(* The counts of WordCounts are numbers.                                   *)
LEMMA CountsAreNumbers ==
  /\ IsFiniteSet(Sharing) /\ Cardinality(Sharing) \in Nat
  /\ IsFiniteSet(Writing) /\ Cardinality(Writing) \in Nat
<1>1. Sharing \in SUBSET Threads /\ Writing \in SUBSET Threads
  BY DEF Sharing, Writing, Holding
<1>2. IsFiniteSet(Sharing) /\ IsFiniteSet(Writing)
  BY <1>1, ThreadsAssumption, FS_Subset
<1> QED BY <1>2, FS_CardinalityType

(* The same in the next state.                                             *)
LEMMA CountsAreNumbersNext ==
  /\ IsFiniteSet(Sharing') /\ Cardinality(Sharing') \in Nat
  /\ IsFiniteSet(Writing') /\ Cardinality(Writing') \in Nat
<1>1. Sharing' \in SUBSET Threads /\ Writing' \in SUBSET Threads
  BY DEF Sharing, Writing, Holding
<1>2. IsFiniteSet(Sharing') /\ IsFiniteSet(Writing')
  BY <1>1, ThreadsAssumption, FS_Subset
<1> QED BY <1>2, FS_CardinalityType

(* There is one writer or none, and a writer is alone with the readers     *)
(* that still spin: bit 0 of the word is the writer.                       *)
LEMMA WordSplits ==
  ASSUME LockInv
  PROVE  /\ counter = 2 * Cardinality(Sharing) + Cardinality(Writing)
         /\ Cardinality(Writing) = IF Writing = {} THEN 0 ELSE 1
         /\ HasWriter <=> Writing # {}
<1>1. counter = 2 * Cardinality(Sharing) + Cardinality(Writing)
  BY CountsAreNumbers DEF LockInv, WordCounts, Sharing, Writing, Reader, Writer
<1>2. Cardinality(Writing) = IF Writing = {} THEN 0 ELSE 1
  <2>1. CASE Writing = {}
    BY <2>1, FS_EmptySet
  <2>2. CASE Writing # {}
    <3>1. PICK t \in Threads : holds[t] = "writing"
      BY <2>2 DEF Writing, Holding
    <3>2. Writing = {t}
      BY <3>1 DEF Writing, Holding, LockInv, MutualExclusion
    <3> QED BY <2>2, <3>2, FS_Singleton
  <2> QED BY <2>1, <2>2
<1>3. \A n \in Nat : (2 * n) % 2 = 0 /\ (2 * n + 1) % 2 = 1
  BY SMT
<1>4. HasWriter <=> Writing # {}
  BY <1>1, <1>2, <1>3, CountsAreNumbers DEF HasWriter
<1> QED BY <1>1, <1>2, <1>4

(* Initially nobody holds the lock.                                        *)
LEMMA LockInitial == LockInit => LockInv
<1> SUFFICES ASSUME LockInit PROVE LockInv OBVIOUS
<1>1. Sharing = {} /\ Writing = {}
  BY DEF LockInit, Sharing, Writing, Holding
<1>2. WordCounts
  BY <1>1, FS_EmptySet DEF LockInit, WordCounts, Sharing, Writing, Reader, Writer
<1>3. LockTypeOK
  BY DEF LockInit, LockTypeOK
<1>4. MutualExclusion
  BY DEF LockInit, MutualExclusion
<1> QED BY <1>2, <1>3, <1>4 DEF LockInv

(* lock_read: one more in the count; nobody reads beside a writer.         *)
LEMMA LockReadKeeps ==
  ASSUME LockInv, NEW t \in Threads, LockRead(t)
  PROVE  LockInv'
<1> USE DEF LockInv, LockTypeOK
<1>1. holds[t] = "free" /\ counter' = counter + 2
      /\ holds' = [holds EXCEPT ![t] = IF HasWriter THEN "spinning" ELSE "reading"]
  BY DEF LockRead, Reader
<1>2. LockTypeOK'
  BY <1>1
<1>3. Sharing' = Sharing \cup {t} /\ t \notin Sharing /\ Writing' = Writing
  BY <1>1 DEF Sharing, Writing, Holding
<1>4. Cardinality(Sharing') = Cardinality(Sharing) + 1
  BY <1>3, CountsAreNumbers, FS_AddElement
<1>5. WordCounts'
  BY <1>1, <1>3, <1>4, WordSplits, CountsAreNumbers
     DEF WordCounts, Sharing, Writing, Reader, Writer
<1>6. MutualExclusion'
  BY <1>1, WordSplits DEF MutualExclusion, Writing, Holding
<1> QED BY <1>2, <1>5, <1>6

(* lock_read, after the loop: the reader was counted already.              *)
LEMMA SpinReadKeeps ==
  ASSUME LockInv, NEW t \in Threads, SpinRead(t)
  PROVE  LockInv'
<1> USE DEF LockInv, LockTypeOK
<1>1. holds[t] = "spinning" /\ ~HasWriter /\ counter' = counter
      /\ holds' = [holds EXCEPT ![t] = "reading"]
  BY DEF SpinRead
<1>2. LockTypeOK'
  BY <1>1
<1>3. Sharing' = Sharing /\ Writing' = Writing
  BY <1>1 DEF Sharing, Writing, Holding
<1>4. WordCounts'
  BY <1>1, <1>3, WordSplits DEF WordCounts, Sharing, Writing, Reader, Writer
<1>5. MutualExclusion'
  BY <1>1, WordSplits DEF MutualExclusion, Writing, Holding
<1> QED BY <1>2, <1>4, <1>5

(* unlock_read: one less.                                                  *)
LEMMA UnlockReadKeeps ==
  ASSUME LockInv, NEW t \in Threads, UnlockRead(t)
  PROVE  LockInv'
<1> USE DEF LockInv, LockTypeOK
<1>1. holds[t] = "reading" /\ counter' = counter - 2
      /\ holds' = [holds EXCEPT ![t] = "free"]
  BY DEF UnlockRead, Reader
<1>2. Sharing' = Sharing \ {t} /\ t \in Sharing /\ Writing' = Writing
  BY <1>1 DEF Sharing, Writing, Holding
<1>3. Cardinality(Sharing') = Cardinality(Sharing) - 1
  BY <1>2, CountsAreNumbers, FS_RemoveElement
<1>4. WordCounts'
  BY <1>1, <1>2, <1>3, WordSplits, CountsAreNumbers
     DEF WordCounts, Sharing, Writing, Reader, Writer
<1>5. counter' \in Nat
  BY <1>1, <1>2, <1>3, WordSplits, CountsAreNumbers, CountsAreNumbersNext
<1>6. LockTypeOK'
  BY <1>1, <1>5
<1>7. MutualExclusion'
  BY <1>1 DEF MutualExclusion
<1> QED BY <1>4, <1>6, <1>7

(* A word of 0 means that nobody holds the lock or waits for it.           *)
LEMMA UnusedIsUnused ==
  ASSUME LockInv, counter = 0
  PROVE  Sharing = {} /\ Writing = {}
<1>1. Cardinality(Sharing) = 0 /\ Cardinality(Writing) = 0
  BY WordSplits, CountsAreNumbers
<1> QED BY <1>1, CountsAreNumbers, FS_EmptySet

(* lock_write: the word was 0.                                             *)
LEMMA LockWriteKeeps ==
  ASSUME LockInv, NEW t \in Threads, LockWrite(t)
  PROVE  LockInv'
<1> USE DEF LockInv, LockTypeOK
<1>1. holds[t] = "free" /\ counter = 0 /\ counter' = 1
      /\ holds' = [holds EXCEPT ![t] = "writing"]
  BY DEF LockWrite, Writer
<1>2. LockTypeOK'
  BY <1>1
<1>3. Sharing = {} /\ Writing = {}
  BY <1>1, UnusedIsUnused
<1>4. Sharing' = {} /\ Writing' = {t}
  BY <1>1, <1>3 DEF Sharing, Writing, Holding
<1>5. Cardinality(Sharing') = 0 /\ Cardinality(Writing') = 1
  BY <1>4, FS_EmptySet, FS_Singleton
<1>6. WordCounts'
  BY <1>1, <1>5 DEF WordCounts, Sharing, Writing, Reader, Writer
<1>7. MutualExclusion'
  BY <1>1, <1>3 DEF MutualExclusion, Sharing, Writing, Holding
<1> QED BY <1>2, <1>6, <1>7

(* unlock_write: bit 0 goes, the readers that spin stay counted.           *)
LEMMA UnlockWriteKeeps ==
  ASSUME LockInv, NEW t \in Threads, UnlockWrite(t)
  PROVE  LockInv'
<1> USE DEF LockInv, LockTypeOK
<1>1. holds[t] = "writing" /\ counter' = counter - (counter % 2)
      /\ holds' = [holds EXCEPT ![t] = "free"]
  BY DEF UnlockWrite
<1>2. Writing = {t} /\ Writing' = {} /\ Sharing' = Sharing
  BY <1>1 DEF Sharing, Writing, Holding, MutualExclusion
<1>3. HasWriter /\ counter = 2 * Cardinality(Sharing) + 1
  BY <1>2, WordSplits
<1>4. counter' = 2 * Cardinality(Sharing)
  BY <1>1, <1>3, CountsAreNumbers DEF HasWriter
<1>5. Cardinality(Writing') = 0
  BY <1>2, FS_EmptySet
<1>6. WordCounts'
  BY <1>2, <1>4, <1>5, CountsAreNumbers DEF WordCounts, Sharing, Writing, Reader, Writer
<1>7. LockTypeOK'
  BY <1>1, <1>4, CountsAreNumbers
<1>8. MutualExclusion'
  BY <1>1 DEF MutualExclusion
<1> QED BY <1>6, <1>7, <1>8

(* promote_reader_to_writer: a word of 2 is this reader alone.             *)
LEMMA PromoteKeeps ==
  ASSUME LockInv, NEW t \in Threads, Promote(t)
  PROVE  LockInv'
<1> USE DEF LockInv, LockTypeOK
<1>1. holds[t] = "reading" /\ counter = 2 /\ counter' = 1
      /\ holds' = [holds EXCEPT ![t] = "writing"]
  BY DEF Promote, Reader, Writer
<1>2. t \in Sharing
  BY <1>1 DEF Sharing, Holding
<1>3. Cardinality(Sharing \ {t}) = Cardinality(Sharing) - 1 /\ IsFiniteSet(Sharing \ {t})
      /\ Cardinality(Sharing \ {t}) \in Nat
  BY <1>2, CountsAreNumbers, FS_RemoveElement, FS_CardinalityType
<1>4. Cardinality(Sharing \ {t}) = 0 /\ Cardinality(Writing) = 0
  BY <1>1, <1>3, WordSplits, CountsAreNumbers
<1>5. Sharing = {t} /\ Writing = {}
  BY <1>2, <1>3, <1>4, CountsAreNumbers, FS_EmptySet
<1>6. Sharing' = {} /\ Writing' = {t}
  BY <1>1, <1>5 DEF Sharing, Writing, Holding
<1>7. Cardinality(Sharing') = 0 /\ Cardinality(Writing') = 1
  BY <1>6, FS_EmptySet, FS_Singleton
<1>8. WordCounts'
  BY <1>1, <1>7 DEF WordCounts, Sharing, Writing, Reader, Writer
<1>9. LockTypeOK'
  BY <1>1
<1>10. MutualExclusion'
  BY <1>1, <1>5 DEF MutualExclusion, Sharing, Writing, Holding
<1> QED BY <1>8, <1>9, <1>10

(* Whatever operations the threads run, a writer of RWSpinLock has the     *)
(* lock to itself; promote_reader_to_writer, which this program never      *)
(* calls, included.                                                        *)
THEOREM LockExcludes == LockSpec => []MutualExclusion
<1>1. LockInit => LockInv
  BY LockInitial
<1>2. LockInv /\ [LockNext]_lockVars => LockInv'
  <2> SUFFICES ASSUME LockInv, [LockNext]_lockVars PROVE LockInv' OBVIOUS
  <2>1. CASE UNCHANGED lockVars
    BY <2>1 DEF lockVars, LockInv, LockTypeOK, WordCounts, MutualExclusion, Holding
  <2>2. ASSUME NEW t \in Threads,
               \/ LockRead(t) \/ SpinRead(t) \/ UnlockRead(t)
               \/ LockWrite(t) \/ UnlockWrite(t) \/ Promote(t)
        PROVE  LockInv'
    BY <2>2, LockReadKeeps, SpinReadKeeps, UnlockReadKeeps, LockWriteKeeps,
       UnlockWriteKeeps, PromoteKeeps
  <2> QED BY <2>1, <2>2 DEF LockNext
<1>3. LockInv => MutualExclusion
  BY DEF LockInv
<1> QED BY <1>1, <1>2, <1>3, PTL DEF LockSpec

(* A step of a thread in the cache runs one operation of the lock, or none.*)
LEMMA ThreadUsesLock ==
  ASSUME NEW t \in Threads, Thread(t)
  PROVE  [LockNext]_lockVars
<1>1. CASE StartFind(t)
  BY <1>1 DEF StartFind, LockNext
<1>2. CASE Spin(t)
  BY <1>2 DEF Spin, LockNext
<1>3. CASE FindPass(t)
  BY <1>3 DEF FindPass, LockNext
<1>4. CASE StartEmplace(t)
  BY <1>4 DEF StartEmplace, LockNext
<1>5. CASE EmplacePass(t)
  BY <1>5 DEF EmplacePass, LockNext
<1>6. CASE Begin(t)
  BY <1>6 DEF Begin
<1>7. CASE RequestAttachment(t)
  BY <1>7 DEF RequestAttachment
<1>8. CASE RequestFramebuffer(t)
  BY <1>8 DEF RequestFramebuffer
<1>9. CASE EndRenderPass(t)
  BY <1>9 DEF EndRenderPass
<1> QED BY <1>1, <1>2, <1>3, <1>4, <1>5, <1>6, <1>7, <1>8, <1>9 DEF Thread

(* The render pass cache implements the lock's specification: find and     *)
(* emplace_yield take and release it in the order the lock allows.         *)
THEOREM CacheUsesLock == Spec => LockSpec
<1>1. Init => LockInit
  BY DEF Init
<1>2. [Next]_vars => [LockNext]_lockVars
  <2> SUFFICES ASSUME [Next]_vars PROVE [LockNext]_lockVars OBVIOUS
  <2>1. CASE BeginFrame
    BY <2>1 DEF BeginFrame
  <2>2. CASE WaitIdle
    BY <2>2 DEF WaitIdle
  <2>3. ASSUME NEW t \in Threads, Thread(t) PROVE [LockNext]_lockVars
    BY <2>3, ThreadUsesLock
  <2>4. CASE UNCHANGED vars
    BY <2>4 DEF vars
  <2> QED BY <2>1, <2>2, <2>3, <2>4 DEF Next
<1> QED BY <1>1, <1>2, PTL DEF Spec, LockSpec

(* No thread looks a render pass up, or adds one, while another thread     *)
(* changes the map of render passes: whatever passes the client asks for,  *)
(* from any number of threads.                                             *)
THEOREM CacheExcludes == Spec => []MutualExclusion
BY CacheUsesLock, LockExcludes

-----------------------------------------------------------------------------
(* Hashes.                                                                 *)

(* Two inputs never have the same hash, nor one input two.                 *)
LEMMA StandsUnique ==
  ASSUME HashersSound, NEW kind \in Kinds, NEW h, NEW g, NEW x, NEW y,
         Stands(hashed[kind], h, x), Stands(hashed[kind], g, y)
  PROVE  h = g <=> x = y
<1>1. /\ DOMAIN hashed[kind] = 1..Len(hashed[kind]) /\ Len(hashed[kind]) \in Nat
      /\ IsInjective(hashed[kind]) /\ Len(hashed[kind]) <= Len(HashOrder)
  BY DEF HashersSound
<1>2. /\ DOMAIN HashOrder = 1..Len(HashOrder) /\ Len(HashOrder) \in Nat
      /\ IsInjective(HashOrder)
  BY HashAssumption
<1>3. PICK i \in DOMAIN hashed[kind] : hashed[kind][i] = x /\ HashOrder[i] = h
  BY DEF Stands
<1>4. PICK j \in DOMAIN hashed[kind] : hashed[kind][j] = y /\ HashOrder[j] = g
  BY DEF Stands
<1>5. i \in DOMAIN HashOrder /\ j \in DOMAIN HashOrder
  BY <1>1, <1>2, <1>3, <1>4
<1>6. h = g <=> i = j
  BY <1>2, <1>3, <1>4, <1>5 DEF IsInjective
<1>7. x = y <=> i = j
  BY <1>1, <1>3, <1>4 DEF IsInjective
<1> QED BY <1>6, <1>7

(* A hash that stands for something is one of the values there are.        *)
LEMMA StandsIsHash ==
  ASSUME HashersSound, NEW kind \in Kinds, NEW h, NEW x, Stands(hashed[kind], h, x)
  PROVE  h \in ToSet(HashOrder) /\ h \in HashValues
<1>1. /\ DOMAIN hashed[kind] = 1..Len(hashed[kind]) /\ Len(hashed[kind]) \in Nat
      /\ Len(hashed[kind]) <= Len(HashOrder)
  BY DEF HashersSound
<1>2. /\ DOMAIN HashOrder = 1..Len(HashOrder) /\ Len(HashOrder) \in Nat
      /\ \A i \in 1..Len(HashOrder) : HashOrder[i] \in HashValues
  BY HashAssumption
<1>3. PICK i \in DOMAIN hashed[kind] : HashOrder[i] = h
  BY DEF Stands
<1> QED BY <1>1, <1>2, <1>3 DEF ToSet

(* What is hashed stays hashed, and the hash of an input stands for it.    *)
LEMMA MetIs ==
  ASSUME HashersSound, NEW kind \in Kinds, NEW input, Remember(kind, input)
  PROVE  /\ HashersSound'
         /\ \A k \in Kinds : \A h, x :
              Stands(hashed[k], h, x) => Stands(hashed'[k], h, x)
         /\ Stands(hashed'[kind], HashOf(kind, input), input)
         /\ HashOf(kind, input) \in HashValues
<1> DEFINE new == Met(kind, input)
           seq == hashed[kind]
<1>1. hashed' = new /\ Len(new[kind]) <= Len(HashOrder)
  BY DEF Remember
<1>2. /\ DOMAIN hashed = Kinds /\ seq \in Seq(ToSet(seq)) /\ IsInjective(seq)
      /\ Len(seq) \in Nat /\ DOMAIN seq = 1..Len(seq)
  BY DEF HashersSound
<1>3. Contains(seq, input) <=> \E i \in DOMAIN seq : seq[i] = input
  BY <1>2 DEF Contains
<1>4. /\ DOMAIN new = Kinds /\ new[kind] \in Seq(ToSet(new[kind])) /\ IsInjective(new[kind])
      /\ \A i \in DOMAIN seq : i \in DOMAIN new[kind] /\ new[kind][i] = seq[i]
      /\ \E i \in DOMAIN new[kind] : new[kind][i] = input
      /\ \A k \in Kinds : k # kind => new[k] = hashed[k]
  <2>1. CASE Contains(seq, input)
    BY <2>1, <1>2, <1>3 DEF Met
  <2>2. CASE ~Contains(seq, input)
    <3>1. new = [hashed EXCEPT ![kind] = Append(seq, input)]
      BY <2>2 DEF Met
    <3>2. new[kind] = Append(seq, input) /\ DOMAIN new = Kinds
          /\ \A k \in Kinds : k # kind => new[k] = hashed[k]
      BY <3>1, <1>2
    <3> DEFINE longer == Append(seq, input)
               S == ToSet(seq) \cup {input}
    <3>3. seq \in Seq(S)
      <4>1. \A i \in 1..Len(seq) : seq[i] \in S
        BY <1>2 DEF ToSet
      <4> HIDE DEF S
      <4> QED BY <4>1, <1>2
    <3>4. /\ longer \in Seq(S) /\ Len(longer) = Len(seq) + 1
          /\ DOMAIN longer = 1..Len(seq) + 1
          /\ \A i \in 1..Len(seq) : longer[i] = seq[i]
          /\ longer[Len(seq) + 1] = input
      <4>1. input \in S
        OBVIOUS
      <4> HIDE DEF S
      <4> QED BY <3>3, <4>1, <1>2
    <3> HIDE DEF longer
    <3>5. ToSet(longer) = S
      BY <3>4, <1>2 DEF ToSet
    <3>6. IsInjective(longer)
      <4> SUFFICES ASSUME NEW i \in 1..Len(seq) + 1, NEW j \in 1..Len(seq) + 1,
                          longer[i] = longer[j]
                   PROVE  i = j
        BY <3>4 DEF IsInjective
      <4>1. CASE i \in 1..Len(seq) /\ j \in 1..Len(seq)
        BY <4>1, <3>4, <1>2 DEF IsInjective
      <4>2. \A k \in 1..Len(seq) : longer[k] # input
        BY <2>2, <1>2, <1>3, <3>4
      <4>3. CASE i = Len(seq) + 1 \/ j = Len(seq) + 1
        BY <4>2, <4>3, <3>4, <1>2
      <4> QED BY <4>1, <4>3, <1>2
    <3>7. Len(seq) + 1 \in 1..Len(seq) + 1
      BY <1>2
    <3>8. new[kind] = longer
      BY <3>2 DEF longer
    <3> QED BY <3>2, <3>4, <3>5, <3>6, <3>7, <3>8, <1>2
  <2> QED BY <2>1, <2>2
<1> HIDE DEF new
<1>5. HashersSound'
  BY <1>1, <1>4 DEF HashersSound
<1>6. ASSUME NEW k \in Kinds, NEW h, NEW x, Stands(hashed[k], h, x)
      PROVE  Stands(hashed'[k], h, x)
  BY <1>1, <1>4, <1>6 DEF Stands
<1>7. Stands(hashed'[kind], HashOf(kind, input), input)
  <2> DEFINE at == CHOOSE i \in DOMAIN new[kind] : new[kind][i] = input
  <2>1. at \in DOMAIN new[kind] /\ new[kind][at] = input
    BY <1>4
  <2>2. HashOf(kind, input) = HashOrder[at]
    BY DEF HashOf, new
  <2> QED BY <2>1, <2>2, <1>1 DEF Stands
<1>8. HashOf(kind, input) \in HashValues
  <2>1. PICK i \in DOMAIN new[kind] : HashOrder[i] = HashOf(kind, input)
    BY <1>1, <1>7 DEF Stands
  <2>2. DOMAIN new[kind] = 1..Len(new[kind]) /\ Len(new[kind]) \in Nat
    BY <1>4
  <2>3. Len(HashOrder) \in Nat /\ \A j \in 1..Len(HashOrder) : HashOrder[j] \in HashValues
    BY HashAssumption
  <2> QED BY <2>1, <2>2, <2>3, <1>1
<1> QED BY <1>5, <1>6, <1>7, <1>8

(* An input that was hashed before: nothing changes.                       *)
LEMMA KnownHash ==
  ASSUME HashersSound, NEW kind \in Kinds, NEW input, NEW h, Stands(hashed[kind], h, input)
  PROVE  /\ Met(kind, input) = hashed /\ HashOf(kind, input) = h
<1> DEFINE seq == hashed[kind]
<1>1. DOMAIN seq = 1..Len(seq) /\ Len(seq) \in Nat /\ IsInjective(seq)
  BY DEF HashersSound
<1>2. PICK i \in DOMAIN seq : seq[i] = input /\ HashOrder[i] = h
  BY DEF Stands
<1>3. Contains(seq, input)
  BY <1>1, <1>2 DEF Contains
<1>4. Met(kind, input) = hashed
  BY <1>3 DEF Met
<1> DEFINE at == CHOOSE j \in DOMAIN seq : seq[j] = input
<1>5. at \in DOMAIN seq /\ seq[at] = input
  BY <1>2
<1>6. at = i
  BY <1>1, <1>2, <1>5 DEF IsInjective
<1>7. HashOf(kind, input) = HashOrder[at]
  BY <1>4 DEF HashOf
<1> QED BY <1>2, <1>4, <1>6, <1>7

-----------------------------------------------------------------------------
(* The invariant.                                                          *)

\* What a thread knows of the tables stays true: inputs keep their hashes,
\* objects stay, and no attachment is made anew.
Grows ==
    /\ \A kind \in Kinds : \A h, x :
         Stands(hashed[kind], h, x) => Stands(hashed'[kind], h, x)
    /\ DOMAIN built \subseteq DOMAIN built'
    /\ DOMAIN framebuffers.made \subseteq DOMAIN framebuffers'.made
    /\ \A h \in DOMAIN attachments.made :
         h \in DOMAIN attachments'.made /\ attachments'.made[h] = attachments.made[h]

\* A step of another thread.
StaysPut(u) ==
    /\ holds'[u] = holds[u] /\ step'[u] = step[u] /\ missed'[u] = missed[u]
    /\ todo'[u] = todo[u] /\ views'[u] = views[u] /\ got'[u] = got[u]

ThreadInv(u) == StepOrdered(u) /\ ViewsLive(u) /\ GotWhatItAsked(u)

(* Such a step disturbs nothing that a thread relies on.                   *)
LEMMA OthersKeep ==
  ASSUME NEW u \in Threads, ThreadInv(u), Grows, StaysPut(u)
  PROVE  ThreadInv(u)'
<1>1. Info(u)' = Info(u) /\ PassFields(u)' = PassFields(u)
  BY DEF StaysPut, Info, PassFields
<1>2. \A h, x : Stands(hashed.passes, h, x) => Stands(hashed'.passes, h, x)
  BY DEF Grows, Kinds
<1>3. \A h, x : Stands(hashed.framebuffers, h, x) => Stands(hashed'.framebuffers, h, x)
  BY DEF Grows, Kinds
<1>4. StepOrdered(u)'
  BY <1>1, <1>2 DEF ThreadInv, StepOrdered, StaysPut
<1>5. ViewsLive(u)'
  BY <1>1 DEF ThreadInv, ViewsLive, StaysPut, Grows
<1>6. GotWhatItAsked(u)'
  BY <1>1, <1>2, <1>3 DEF ThreadInv, GotWhatItAsked, StaysPut, Grows
<1> QED BY <1>4, <1>5, <1>6 DEF ThreadInv

(* The conjuncts of the invariant, for the steps that leave some alone.    *)
LEMMA TablesUnchanged ==
  ASSUME RequestInv, UNCHANGED cacheVars
  PROVE  /\ HashersSound' /\ PassesKeyed' /\ FramebuffersKeyed' /\ AttachmentsKeyed'
         /\ Grows
<1>1. /\ hashed' = hashed /\ passes' = passes /\ built' = built
      /\ framebuffers' = framebuffers /\ attachments' = attachments /\ cookies' = cookies
  BY DEF cacheVars
<1>2. HashersSound'
  BY <1>1 DEF RequestInv, HashersSound
<1>3. PassesKeyed'
  BY <1>1 DEF RequestInv, PassesKeyed
<1>4. FramebuffersKeyed'
  BY <1>1 DEF RequestInv, FramebuffersKeyed
<1>5. AttachmentsKeyed'
  BY <1>1 DEF RequestInv, AttachmentsKeyed
<1>6. Grows
  BY <1>1 DEF Grows
<1> QED BY <1>2, <1>3, <1>4, <1>5, <1>6

(* A step of one thread keeps the invariant when it keeps the lock, the    *)
(* tables and what it relies on itself.                                    *)
LEMMA StepKeeps ==
  ASSUME RequestInv, NEW t \in Threads, LockInv', ThreadsTyped', frames' \in 0..MaxFrames,
         HashersSound', PassesKeyed', FramebuffersKeyed', AttachmentsKeyed', Grows,
         ThreadInv(t)', \A u \in Threads : u # t => StaysPut(u)
  PROVE  RequestInv'
<1>1. \A u \in Threads : ThreadInv(u)'
  <2> SUFFICES ASSUME NEW u \in Threads, u # t PROVE ThreadInv(u)'
    OBVIOUS
  <2>1. ThreadInv(u) /\ StaysPut(u)
    BY DEF RequestInv, ThreadInv
  <2> QED BY <2>1, OthersKeep
<1> QED BY <1>1 DEF RequestInv, ThreadInv

(* What a thread that runs an operation of the lock does to the others.    *)
LEMMA LockStep ==
  ASSUME RequestInv, NEW t \in Threads,
         LockRead(t) \/ SpinRead(t) \/ UnlockRead(t) \/ LockWrite(t) \/ UnlockWrite(t)
  PROVE  LockInv' /\ \A u \in Threads : u # t => holds'[u] = holds[u]
<1>1. LockInv'
  BY LockReadKeeps, SpinReadKeeps, UnlockReadKeeps, LockWriteKeeps, UnlockWriteKeeps
     DEF RequestInv
<1>2. \A u \in Threads : u # t => holds'[u] = holds[u]
  BY DEF RequestInv, LockInv, LockTypeOK, LockRead, SpinRead, UnlockRead, LockWrite, UnlockWrite
<1> QED BY <1>1, <1>2

(* The lock is left alone.                                                 *)
LEMMA LockUnchanged ==
  ASSUME LockInv, UNCHANGED lockVars
  PROVE  LockInv'
BY DEF lockVars, LockInv, LockTypeOK, WordCounts, MutualExclusion, Holding

(* The info of a thread that is in a render pass.                          *)
LEMMA InfoIsValid ==
  ASSUME ThreadsTyped, NEW t \in Threads, todo[t] # <<>>
  PROVE  /\ Head(todo[t]) \in ValidNames
         /\ IsList(Info(t).attachments) /\ IsList(Info(t).subpasses)
<1>1. todo[t] \in Seq(ValidNames)
  BY DEF ThreadsTyped
<1>2. Head(todo[t]) \in ValidNames
  BY <1>1
<1> QED BY <1>2, ClientAssumption DEF Info

(* The client begins a render pass: its own views are at hand, the others  *)
(* are still to be requested.                                              *)
LEMMA BeginKeeps ==
  ASSUME RequestInv, NEW t \in Threads, Begin(t)
  PROVE  RequestInv'
<1> USE DEF RequestInv
<1>1. /\ step[t] = "idle" /\ todo[t] # <<>>
      /\ step' = [step EXCEPT ![t] = "compatible"]
      /\ views' = [views EXCEPT ![t] = [a \in DOMAIN Info(t).attachments |->
                                          Info(t).attachments[a].view]]
      /\ UNCHANGED <<lockVars, cacheVars, todo, missed, got, frames>>
  BY DEF Begin
<1>2. LockInv'
  BY <1>1, LockUnchanged
<1>3. ThreadsTyped'
  BY <1>1 DEF ThreadsTyped
<1>4. HashersSound' /\ PassesKeyed' /\ FramebuffersKeyed' /\ AttachmentsKeyed' /\ Grows
  BY <1>1, TablesUnchanged
<1>5. \A u \in Threads : u # t => StaysPut(u)
  BY <1>1 DEF StaysPut, lockVars, ThreadsTyped
<1>6. /\ holds'[t] = holds[t] /\ step'[t] = "compatible" /\ missed'[t] = missed[t]
      /\ todo'[t] = todo[t] /\ got'[t] = got[t]
      /\ views'[t] = [a \in DOMAIN Info(t).attachments |-> Info(t).attachments[a].view]
      /\ Info(t)' = Info(t)
  BY <1>1 DEF lockVars, ThreadsTyped, Info
<1>7. holds[t] = "free" /\ missed[t] = FALSE
  <2>1. holds[t] \in {"free", "spinning", "reading", "writing"} /\ missed[t] \in BOOLEAN
    BY DEF LockInv, LockTypeOK, ThreadsTyped
  <2>2. StepOrdered(t)
    OBVIOUS
  <2> QED BY <2>1, <2>2, <1>1 DEF StepOrdered
<1>8. StepOrdered(t)'
  BY <1>1, <1>6, <1>7 DEF StepOrdered
<1>9. ViewsLive(t)'
  BY <1>6 DEF ViewsLive
<1>10. GotWhatItAsked(t)'
  BY <1>6 DEF GotWhatItAsked
<1>11. frames' \in 0..MaxFrames
  BY <1>1
<1> QED BY <1>2, <1>3, <1>4, <1>5, <1>8, <1>9, <1>10, <1>11, StepKeeps DEF ThreadInv

(* A transient attachment: its view is one of a live attachment.           *)
LEMMA RequestAttachmentKeeps ==
  ASSUME RequestInv, NEW t \in Threads, RequestAttachment(t)
  PROVE  RequestInv'
<1> DEFINE missing == {a \in DOMAIN views[t] : views[t][a] = 0}
           next == Min(missing)
           key == <<Info(t).attachments[next].format, Info(t).attachments[next].samples, next>>
           hash == HashOf("attachments", key)
<1>1. /\ step[t] = "compatible" /\ missing # {}
      /\ Remember("attachments", key)
      /\ attachments' = Requested(attachments, hash, cookies + 1)
      /\ cookies' = IF Found(attachments.map, hash) THEN cookies ELSE cookies + 1
      /\ views' = [views EXCEPT ![t][next] = attachments'.made[hash]]
      /\ UNCHANGED <<lockVars, passes, built, framebuffers, todo, step, missed, got, frames>>
  BY Zenon DEF RequestAttachment
<1>2. todo[t] # <<>> /\ DOMAIN views[t] = DOMAIN Info(t).attachments /\ StepOrdered(t)
  BY <1>1 DEF RequestInv, StepOrdered
<1>3. next \in DOMAIN views[t]
  <2>1. ThreadsTyped
    BY DEF RequestInv
  <2>2. IsList(Info(t).attachments)
    BY <2>1, <1>2, InfoIsValid
  <2>3. missing \in SUBSET Nat
    BY <1>2, <2>2 DEF IsList
  <2> HIDE DEF missing
  <2>4. next \in missing
    BY <2>3, <1>1, MinOf
  <2> QED BY <2>4 DEF missing
<1> HIDE DEF missing, next, key, hash
<1>4. LockInv'
  BY <1>1, LockUnchanged DEF RequestInv
<1>5. /\ ThreadsTyped' /\ views'[t] = [views[t] EXCEPT ![next] = attachments'.made[hash]]
      /\ \A u \in Threads : u # t => views'[u] = views[u]
  BY <1>1 DEF RequestInv, ThreadsTyped
<1>6. /\ HashersSound'
      /\ \A k \in Kinds : \A h, x : Stands(hashed[k], h, x) => Stands(hashed'[k], h, x)
      /\ hash \in HashValues
  <2>1. HashersSound /\ "attachments" \in Kinds
    BY DEF RequestInv, Kinds
  <2> QED BY <2>1, <1>1, MetIs DEF hash
<1>7. /\ CacheInv(attachments')
      /\ DOMAIN attachments'.made = DOMAIN attachments.made \cup {hash}
      /\ \A h \in DOMAIN attachments.made : attachments'.made[h] = attachments.made[h]
      /\ hash \notin DOMAIN attachments.made => attachments'.made[hash] = cookies + 1
      /\ Found(attachments.map, hash) <=> hash \in DOMAIN attachments.made
  <2>1. CacheInv(attachments)
    BY DEF RequestInv, AttachmentsKeyed
  <2> QED BY <2>1, <1>1, <1>6, RequestedIs
<1>8. AttachmentsKeyed' /\ attachments'.made[hash] # 0
  <2>1. cookies \in Nat /\ \A h \in DOMAIN attachments.made : attachments.made[h] \in Nat \ {0}
    BY DEF RequestInv, AttachmentsKeyed
  <2>2. cookies' \in Nat /\ cookies + 1 \in Nat \ {0}
    BY <2>1, <1>1
  <2>3. \A h \in DOMAIN attachments'.made : attachments'.made[h] \in Nat \ {0}
    BY <2>1, <2>2, <1>7
  <2> QED BY <2>2, <2>3, <1>7 DEF AttachmentsKeyed
<1>9. PassesKeyed' /\ FramebuffersKeyed'
  <2>1. /\ \A h, x : Stands(hashed.passes, h, x) => Stands(hashed'.passes, h, x)
        /\ \A h, x : Stands(hashed.framebuffers, h, x) => Stands(hashed'.framebuffers, h, x)
    BY <1>6 DEF Kinds
  <2>2. PassesKeyed'
    BY <2>1, <1>1 DEF RequestInv, PassesKeyed
  <2>3. FramebuffersKeyed'
    BY <2>1, <1>1 DEF RequestInv, FramebuffersKeyed
  <2> QED BY <2>2, <2>3
<1>10. Grows
  BY <1>1, <1>6, <1>7 DEF Grows
<1>11. \A u \in Threads : u # t => StaysPut(u)
  BY <1>1, <1>5 DEF StaysPut, lockVars
<1>12. /\ Info(t)' = Info(t) /\ PassFields(t)' = PassFields(t)
       /\ DOMAIN views'[t] = DOMAIN views[t]
       /\ \A a \in DOMAIN views[t] :
            views'[t][a] = IF a = next THEN attachments'.made[hash] ELSE views[t][a]
  BY <1>1, <1>3, <1>5 DEF Info, PassFields
<1>13. ThreadInv(t)'
  <2>1. StepOrdered(t) /\ ViewsLive(t) /\ GotWhatItAsked(t)
    BY DEF RequestInv
  <2>2. /\ holds' = holds /\ step' = step /\ missed' = missed /\ todo' = todo /\ got' = got
    BY <1>1 DEF lockVars
  <2>3. \A h, x : Stands(hashed.passes, h, x) => Stands(hashed'.passes, h, x)
    BY <1>6 DEF Kinds
  <2>4. StepOrdered(t)'
    BY <2>1, <2>2, <2>3, <1>8, <1>12 DEF StepOrdered
  <2>5. ViewsLive(t)'
    <3> SUFFICES ASSUME NEW a \in DOMAIN views[t], Info(t).attachments[a].view = 0,
                        views'[t][a] # 0
                 PROVE  \E h \in DOMAIN attachments'.made : attachments'.made[h] = views'[t][a]
      BY <1>12, <2>2 DEF ViewsLive
    <3>1. CASE a = next
      BY <3>1, <1>7, <1>12
    <3>2. CASE a # next
      BY <3>2, <2>1, <1>1, <1>7, <1>12 DEF ViewsLive
    <3> QED BY <3>1, <3>2
  <2>6. GotWhatItAsked(t)'
    BY <2>1, <2>2, <1>1 DEF GotWhatItAsked
  <2> QED BY <2>4, <2>5, <2>6 DEF ThreadInv
<1>14. frames' \in 0..MaxFrames
  BY <1>1 DEF RequestInv
<1> QED BY <1>4, <1>5, <1>6, <1>8, <1>9, <1>10, <1>11, <1>13, <1>14, StepKeeps

(* The framebuffer of a render pass stands for its pass and its views.     *)
LEMMA RequestFramebufferKeeps ==
  ASSUME RequestInv, NEW t \in Threads, RequestFramebuffer(t)
  PROVE  RequestInv'
<1> DEFINE args == [pass |-> got[t].compatible, views |-> views[t]]
           hash == HashOf("framebuffers", args)
<1>1. /\ step[t] = "framebuffer"
      /\ Remember("framebuffers", args)
      /\ framebuffers' = Requested(framebuffers, hash, args)
      /\ got' = [got EXCEPT ![t].framebuffer = hash]
      /\ step' = [step EXCEPT ![t] = "actual"]
      /\ UNCHANGED <<lockVars, passes, built, attachments, cookies, todo, missed, views, frames>>
  BY Zenon DEF RequestFramebuffer
<1> HIDE DEF hash
<1>2. LockInv'
  BY <1>1, LockUnchanged DEF RequestInv
<1>3. ThreadsTyped'
  BY <1>1 DEF RequestInv, ThreadsTyped
<1>4. /\ HashersSound'
      /\ \A k \in Kinds : \A h, x : Stands(hashed[k], h, x) => Stands(hashed'[k], h, x)
      /\ Stands(hashed'["framebuffers"], hash, args)
      /\ hash \in HashValues
  <2>1. HashersSound /\ "framebuffers" \in Kinds
    BY DEF RequestInv, Kinds
  <2> QED BY <2>1, <1>1, MetIs DEF hash
<1>5. /\ CacheInv(framebuffers')
      /\ DOMAIN framebuffers'.made = DOMAIN framebuffers.made \cup {hash}
      /\ \A h \in DOMAIN framebuffers.made : framebuffers'.made[h] = framebuffers.made[h]
      /\ hash \notin DOMAIN framebuffers.made => framebuffers'.made[hash] = args
  <2>1. CacheInv(framebuffers)
    BY DEF RequestInv, FramebuffersKeyed
  <2> QED BY <2>1, <1>1, <1>4, RequestedIs
<1>6. /\ \A h, x : Stands(hashed.passes, h, x) => Stands(hashed'.passes, h, x)
      /\ \A h, x : Stands(hashed.framebuffers, h, x) => Stands(hashed'.framebuffers, h, x)
      /\ Stands(hashed'.framebuffers, hash, args)
  BY <1>4 DEF Kinds
<1>7. FramebuffersKeyed'
  BY <1>5, <1>6 DEF RequestInv, FramebuffersKeyed
<1>8. PassesKeyed' /\ AttachmentsKeyed'
  <2>1. PassesKeyed'
    BY <1>1, <1>6 DEF RequestInv, PassesKeyed
  <2>2. AttachmentsKeyed'
    BY <1>1 DEF RequestInv, AttachmentsKeyed
  <2> QED BY <2>1, <2>2
<1>9. Grows
  BY <1>1, <1>4, <1>5 DEF Grows
<1>10. \A u \in Threads : u # t => StaysPut(u)
  BY <1>1 DEF StaysPut, lockVars, RequestInv, ThreadsTyped
<1>11. ThreadInv(t)'
  <2>1. StepOrdered(t) /\ ViewsLive(t) /\ GotWhatItAsked(t)
    BY DEF RequestInv
  <2>2. /\ holds' = holds /\ step'[t] = "actual" /\ missed' = missed /\ todo' = todo
        /\ views' = views /\ got'[t] = [got[t] EXCEPT !.framebuffer = hash]
        /\ Info(t)' = Info(t)
    BY <1>1 DEF lockVars, RequestInv, ThreadsTyped, Info
  <2>3. missed[t] = FALSE
    BY <2>1, <1>1 DEF StepOrdered, RequestInv, ThreadsTyped
  <2>4. StepOrdered(t)'
    BY <2>1, <2>2, <2>3, <1>1 DEF StepOrdered
  <2>5. ViewsLive(t)'
    BY <2>1, <2>2, <1>1 DEF ViewsLive
  <2>6. /\ DOMAIN got'[t] = {"compatible", "framebuffer", "actual"}
        /\ got'[t].compatible = got[t].compatible /\ got'[t].framebuffer = hash
    BY <2>1, <2>2 DEF GotWhatItAsked
  <2>7. Stands(hashed'.framebuffers, got'[t].framebuffer,
               [pass |-> got'[t].compatible, views |-> views'[t]])
    BY <2>2, <2>6, <1>6
  <2>8. GotWhatItAsked(t)'
    BY <2>1, <2>2, <2>6, <2>7, <1>1, <1>5, <1>6 DEF GotWhatItAsked
  <2> QED BY <2>4, <2>5, <2>8 DEF ThreadInv
<1>12. frames' \in 0..MaxFrames
  BY <1>1 DEF RequestInv
<1> QED BY <1>2, <1>3, <1>4, <1>7, <1>8, <1>9, <1>10, <1>11, <1>12, StepKeeps

(* The end of a render pass: the thread forgets it.                        *)
LEMMA EndRenderPassKeeps ==
  ASSUME RequestInv, NEW t \in Threads, EndRenderPass(t)
  PROVE  RequestInv'
<1>1. /\ step[t] = "recording"
      /\ step' = [step EXCEPT ![t] = "idle"]
      /\ todo' = [todo EXCEPT ![t] = Tail(@)]
      /\ views' = [views EXCEPT ![t] = <<>>]
      /\ got' = [got EXCEPT ![t] = Nothing]
      /\ UNCHANGED <<lockVars, cacheVars, missed, frames>>
  BY DEF EndRenderPass
<1>2. LockInv'
  BY <1>1, LockUnchanged DEF RequestInv
<1>3. StepOrdered(t) /\ ThreadsTyped
  BY DEF RequestInv
<1>4. ThreadsTyped'
  <2>1. todo[t] # <<>> /\ todo[t] \in Seq(ValidNames)
    BY <1>1, <1>3 DEF StepOrdered, ThreadsTyped
  <2>2. Tail(todo[t]) \in Seq(ValidNames)
    BY <2>1
  <2> QED BY <2>2, <1>1, <1>3 DEF ThreadsTyped
<1>5. HashersSound' /\ PassesKeyed' /\ FramebuffersKeyed' /\ AttachmentsKeyed' /\ Grows
  BY <1>1, TablesUnchanged
<1>6. \A u \in Threads : u # t => StaysPut(u)
  BY <1>1, <1>3 DEF StaysPut, lockVars, ThreadsTyped
<1>7. holds[t] = "free" /\ missed[t] = FALSE
  <2>1. holds[t] \in {"free", "spinning", "reading", "writing"} /\ missed[t] \in BOOLEAN
    BY <1>3 DEF RequestInv, LockInv, LockTypeOK, ThreadsTyped
  <2> QED BY <2>1, <1>1, <1>3 DEF StepOrdered
<1>8. /\ holds' = holds /\ step'[t] = "idle" /\ missed' = missed /\ got'[t] = Nothing
  BY <1>1, <1>3 DEF lockVars, ThreadsTyped
<1>9. ThreadInv(t)'
  BY <1>7, <1>8 DEF ThreadInv, StepOrdered, ViewsLive, GotWhatItAsked, Nothing
<1>10. frames' \in 0..MaxFrames
  BY <1>1 DEF RequestInv
<1> QED BY <1>2, <1>4, <1>5, <1>6, <1>9, <1>10, StepKeeps

(* find takes the read lock, at once or after spinning; emplace_yield      *)
(* takes the write lock after a miss.                                      *)
LEMMA LockingKeeps ==
  ASSUME RequestInv, NEW t \in Threads, StartFind(t) \/ Spin(t) \/ StartEmplace(t)
  PROVE  RequestInv'
<1>1. /\ UNCHANGED <<cacheVars, threadVars, frames>>
      /\ LockRead(t) \/ SpinRead(t) \/ LockWrite(t)
  BY DEF StartFind, Spin, StartEmplace
<1>2. LockInv' /\ \A u \in Threads : u # t => holds'[u] = holds[u]
  BY <1>1, LockStep
<1>3. /\ todo' = todo /\ step' = step /\ missed' = missed /\ views' = views /\ got' = got
  BY <1>1 DEF threadVars
<1>4. ThreadsTyped'
  BY <1>3 DEF RequestInv, ThreadsTyped
<1>5. HashersSound' /\ PassesKeyed' /\ FramebuffersKeyed' /\ AttachmentsKeyed' /\ Grows
  BY <1>1, TablesUnchanged
<1>6. \A u \in Threads : u # t => StaysPut(u)
  BY <1>2, <1>3 DEF StaysPut
<1>7. StepOrdered(t) /\ ViewsLive(t) /\ GotWhatItAsked(t)
  BY DEF RequestInv
<1>8. Info(t)' = Info(t) /\ PassFields(t)' = PassFields(t)
      /\ hashed' = hashed /\ built' = built /\ framebuffers' = framebuffers
      /\ attachments' = attachments
  BY <1>1, <1>3 DEF Info, PassFields, cacheVars
<1>9. /\ holds'[t] \in {"spinning", "reading"} => step[t] \in {"compatible", "actual"} /\ ~missed[t]
      /\ holds'[t] = "writing" => missed[t]
      /\ \A a \in DOMAIN views[t] : views[t][a] # 0
  <2>1. holds \in [Threads -> {"free", "spinning", "reading", "writing"}]
    BY DEF RequestInv, LockInv, LockTypeOK
  <2>2. CASE StartFind(t)
    BY <2>1, <2>2 DEF StartFind, LockRead
  <2>3. CASE Spin(t)
    BY <2>1, <2>3, <1>7 DEF Spin, SpinRead, StepOrdered
  <2>4. CASE StartEmplace(t)
    BY <2>1, <2>4, <1>7 DEF StartEmplace, LockWrite, StepOrdered
  <2> QED BY <2>2, <2>3, <2>4
<1>10. StepOrdered(t)'
  BY <1>3, <1>7, <1>8, <1>9 DEF StepOrdered
<1>11. ViewsLive(t)' /\ GotWhatItAsked(t)'
  BY <1>3, <1>7, <1>8 DEF ViewsLive, GotWhatItAsked
<1>12. frames' \in 0..MaxFrames
  BY <1>1 DEF RequestInv
<1> QED BY <1>2, <1>4, <1>5, <1>6, <1>10, <1>11, <1>12, StepKeeps DEF ThreadInv

(* A thread that takes a pass from the map takes the one it asked for.     *)
LEMMA TakeKeeps ==
  ASSUME RequestInv, NEW t \in Threads, NEW hash, Take(t, hash),
         holds'[t] = "free", missed'[t] = FALSE, todo' = todo, views' = views,
         step[t] \in {"compatible", "actual"}, \A a \in DOMAIN views[t] : views[t][a] # 0,
         Grows, hash \in DOMAIN built', Stands(hashed'.passes, hash, PassFields(t))
  PROVE  ThreadInv(t)'
<1>1. StepOrdered(t) /\ ViewsLive(t) /\ GotWhatItAsked(t) /\ ThreadsTyped
  BY DEF RequestInv
<1>2. /\ Info(t)' = Info(t)
      /\ got'[t] = [got[t] EXCEPT ![step[t]] = hash]
      /\ step'[t] = IF step[t] = "compatible" THEN "framebuffer" ELSE "recording"
  BY <1>1 DEF Info, Take, ThreadsTyped
<1>3. /\ \A h, x : Stands(hashed.passes, h, x) => Stands(hashed'.passes, h, x)
      /\ \A h, x : Stands(hashed.framebuffers, h, x) => Stands(hashed'.framebuffers, h, x)
  BY DEF Grows, Kinds
<1>4. StepOrdered(t)'
  BY <1>1, <1>2 DEF StepOrdered
<1>5. ViewsLive(t)'
  BY <1>1, <1>2 DEF ViewsLive, Grows
<1>6. GotWhatItAsked(t)'
  <2>1. DOMAIN got[t] = {"compatible", "framebuffer", "actual"}
    BY <1>1 DEF GotWhatItAsked
  <2>2. CASE step[t] = "compatible"
    <3>1. /\ DOMAIN got'[t] = {"compatible", "framebuffer", "actual"}
          /\ got'[t].compatible = hash /\ step'[t] = "framebuffer"
      BY <2>1, <2>2, <1>2
    <3>2. PassFields(t) = HashedFields(Info(t), TRUE)
      BY <2>2 DEF PassFields
    <3> QED BY <3>1, <3>2, <1>2 DEF GotWhatItAsked
  <2>3. CASE step[t] = "actual"
    <3>1. /\ DOMAIN got'[t] = {"compatible", "framebuffer", "actual"}
          /\ got'[t].actual = hash /\ step'[t] = "recording"
          /\ got'[t].compatible = got[t].compatible
          /\ got'[t].framebuffer = got[t].framebuffer
      BY <2>1, <2>3, <1>2
    <3>2. PassFields(t) = HashedFields(Info(t), FALSE)
      <4>1. (step[t] = "compatible") = FALSE
        BY <2>3
      <4> QED BY <4>1 DEF PassFields
    <3>3. /\ got[t].compatible \in DOMAIN built
          /\ Stands(hashed.passes, got[t].compatible, HashedFields(Info(t), TRUE))
          /\ got[t].framebuffer \in DOMAIN framebuffers.made
          /\ Stands(hashed.framebuffers, got[t].framebuffer,
                    [pass |-> got[t].compatible, views |-> views[t]])
      BY <2>3, <1>1 DEF GotWhatItAsked
    <3>4. /\ got'[t].compatible \in DOMAIN built'
          /\ got'[t].framebuffer \in DOMAIN framebuffers'.made
      BY <3>1, <3>3 DEF Grows
    <3>5. /\ Stands(hashed'.passes, got'[t].compatible, HashedFields(Info(t)', TRUE))
          /\ Stands(hashed'.framebuffers, got'[t].framebuffer,
                    [pass |-> got'[t].compatible, views |-> views'[t]])
          /\ Stands(hashed'.passes, got'[t].actual, HashedFields(Info(t)', FALSE))
      BY <3>1, <3>2, <3>3, <1>2, <1>3
    <3> QED BY <3>1, <3>4, <3>5 DEF GotWhatItAsked
  <2> QED BY <2>2, <2>3
<1> QED BY <1>4, <1>5, <1>6 DEF ThreadInv

(* find: what it finds was built for the same fields, and a miss is        *)
(* remembered.                                                             *)
LEMMA FindPassKeeps ==
  ASSUME RequestInv, NEW t \in Threads, FindPass(t)
  PROVE  RequestInv'
<1> DEFINE fields == PassFields(t)
           hash == HashOf("passes", fields)
<1>1. /\ UnlockRead(t)
      /\ Remember("passes", fields)
      /\ IF Found(passes, hash)
         THEN Take(t, hash) /\ UNCHANGED missed
         ELSE missed' = [missed EXCEPT ![t] = TRUE] /\ UNCHANGED <<got, step>>
      /\ UNCHANGED <<passes, built, framebuffers, attachments, cookies, todo, views, frames>>
  BY Zenon DEF FindPass
<1> HIDE DEF fields, hash
<1>2. StepOrdered(t) /\ ViewsLive(t) /\ GotWhatItAsked(t) /\ ThreadsTyped
  BY DEF RequestInv
<1>3. LockInv' /\ holds'[t] = "free" /\ \A u \in Threads : u # t => holds'[u] = holds[u]
  <2>1. holds \in [Threads -> {"free", "spinning", "reading", "writing"}]
    BY DEF RequestInv, LockInv, LockTypeOK
  <2>2. holds'[t] = "free"
    BY <2>1, <1>1 DEF UnlockRead
  <2> QED BY <2>2, <1>1, LockStep
<1>4. /\ step[t] \in {"compatible", "actual"} /\ missed[t] = FALSE
      /\ \A a \in DOMAIN views[t] : views[t][a] # 0
  <2>1. holds[t] = "reading" /\ missed[t] \in BOOLEAN
    BY <1>1, <1>2 DEF UnlockRead, ThreadsTyped
  <2> QED BY <2>1, <1>2 DEF StepOrdered
<1>5. /\ HashersSound'
      /\ \A k \in Kinds : \A h, x : Stands(hashed[k], h, x) => Stands(hashed'[k], h, x)
      /\ Stands(hashed'["passes"], hash, fields)
      /\ hash \in HashValues
  <2>1. HashersSound /\ "passes" \in Kinds
    BY DEF RequestInv, Kinds
  <2> QED BY <2>1, <1>1, MetIs DEF hash
<1>6. /\ \A h, x : Stands(hashed.passes, h, x) => Stands(hashed'.passes, h, x)
      /\ \A h, x : Stands(hashed.framebuffers, h, x) => Stands(hashed'.framebuffers, h, x)
      /\ Stands(hashed'.passes, hash, fields)
  BY <1>5 DEF Kinds
<1>7. PassesKeyed' /\ FramebuffersKeyed' /\ AttachmentsKeyed'
  <2>1. PassesKeyed'
    BY <1>1, <1>6 DEF RequestInv, PassesKeyed
  <2>2. FramebuffersKeyed'
    BY <1>1, <1>6 DEF RequestInv, FramebuffersKeyed
  <2>3. AttachmentsKeyed'
    BY <1>1 DEF RequestInv, AttachmentsKeyed
  <2> QED BY <2>1, <2>2, <2>3
<1>8. Grows
  BY <1>1, <1>5 DEF Grows
<1>9. ThreadsTyped'
  BY <1>1, <1>2 DEF ThreadsTyped, Take
<1>10. \A u \in Threads : u # t => StaysPut(u)
  BY <1>1, <1>2, <1>3 DEF StaysPut, ThreadsTyped, Take
<1>11. ThreadInv(t)'
  <2>1. CASE Found(passes, hash)
    <3>1. hash \in DOMAIN built
      <4>1. MapInv(passes) /\ DOMAIN built = ToSet(passes.list)
        BY DEF RequestInv, PassesKeyed
      <4> QED BY <4>1, <2>1, <1>5, FoundIsListed
    <3>2. hash \in DOMAIN built' /\ Stands(hashed'.passes, hash, PassFields(t))
      BY <3>1, <1>1, <1>6 DEF fields
    <3>3. Take(t, hash) /\ missed'[t] = FALSE /\ todo' = todo /\ views' = views
      BY <2>1, <1>1, <1>4
    <3> QED BY <3>2, <3>3, <1>3, <1>4, <1>8, TakeKeeps
  <2>2. CASE ~Found(passes, hash)
    <3>1. /\ missed'[t] = TRUE /\ got' = got /\ step' = step /\ todo' = todo /\ views' = views
          /\ attachments' = attachments /\ built' = built /\ framebuffers' = framebuffers
          /\ Info(t)' = Info(t) /\ PassFields(t)' = fields
      BY <2>2, <1>1, <1>2 DEF ThreadsTyped, Info, PassFields, fields
    <3>2. hash \in ToSet(HashOrder)
      <4>1. PICK i \in DOMAIN hashed'.passes : HashOrder[i] = hash
        BY <1>6 DEF Stands
      <4>2. /\ DOMAIN hashed'.passes = 1..Len(hashed'.passes)
            /\ Len(hashed'.passes) \in Nat /\ Len(hashed'.passes) <= Len(HashOrder)
        BY <1>5 DEF HashersSound, Kinds
      <4>3. DOMAIN HashOrder = 1..Len(HashOrder) /\ Len(HashOrder) \in Nat
        BY HashAssumption
      <4> QED BY <4>1, <4>2, <4>3 DEF ToSet
    <3>3. StepOrdered(t)'
      BY <3>1, <3>2, <1>2, <1>3, <1>4, <1>6 DEF StepOrdered
    <3>4. ViewsLive(t)' /\ GotWhatItAsked(t)'
      BY <3>1, <1>2, <1>6 DEF ViewsLive, GotWhatItAsked
    <3> QED BY <3>3, <3>4 DEF ThreadInv
  <2> QED BY <2>1, <2>2
<1>12. frames' \in 0..MaxFrames
  BY <1>1 DEF RequestInv
<1> QED BY <1>3, <1>5, <1>7, <1>8, <1>9, <1>10, <1>11, <1>12, StepKeeps

(* emplace_yield: the pass that is in the map afterwards, the thread's own *)
(* or one that came first, was built for the same fields.                  *)
LEMMA EmplacePassKeeps ==
  ASSUME RequestInv, NEW t \in Threads, EmplacePass(t)
  PROVE  RequestInv'
<1> DEFINE fields == PassFields(t)
           hash == HashOf("passes", fields)
<1>1. /\ UnlockWrite(t)
      /\ passes' = InsertYield(passes, hash)
      /\ built' = [h \in DOMAIN built \cup {hash} |->
                     IF h \in DOMAIN built THEN built[h] ELSE Head(todo[t])]
      /\ Take(t, hash)
      /\ missed' = [missed EXCEPT ![t] = FALSE]
      /\ UNCHANGED <<hashed, framebuffers, attachments, cookies, todo, views, frames>>
  BY Zenon DEF EmplacePass
<1> HIDE DEF fields, hash
<1>2. StepOrdered(t) /\ ViewsLive(t) /\ GotWhatItAsked(t) /\ ThreadsTyped /\ HashersSound
  BY DEF RequestInv
<1>3. LockInv' /\ holds'[t] = "free" /\ \A u \in Threads : u # t => holds'[u] = holds[u]
  <2>1. holds \in [Threads -> {"free", "spinning", "reading", "writing"}]
    BY DEF RequestInv, LockInv, LockTypeOK
  <2>2. holds'[t] = "free"
    BY <2>1, <1>1 DEF UnlockWrite
  <2> QED BY <2>2, <1>1, LockStep
<1>4. /\ step[t] \in {"compatible", "actual"} /\ missed[t]
      /\ \A a \in DOMAIN views[t] : views[t][a] # 0
  <2>1. holds[t] = "writing"
    BY <1>1 DEF UnlockWrite
  <2> QED BY <2>1, <1>2 DEF StepOrdered
<1>5. Stands(hashed.passes, hash, fields) /\ hash \in HashValues
  <2>1. PICK h : Stands(hashed.passes, h, fields)
    BY <1>2, <1>4 DEF StepOrdered, fields
  <2>2. "passes" \in Kinds /\ Stands(hashed["passes"], h, fields)
    BY <2>1 DEF Kinds
  <2>3. hash = h
    BY <2>2, <1>2, KnownHash DEF hash
  <2>4. h \in HashValues
    BY <2>2, <1>2, StandsIsHash
  <2> QED BY <2>1, <2>3, <2>4
<1>6. /\ MapInv(passes') /\ Unbroken(passes', ToSet(passes'.list))
      /\ ToSet(passes'.list) = ToSet(passes.list) \cup {hash}
  <2>1. MapInv(passes) /\ Unbroken(passes, ToSet(passes.list))
    BY DEF RequestInv, PassesKeyed
  <2> QED BY <2>1, <1>1, <1>5, InsertYieldIs
<1>7. Head(todo[t]) \in ValidNames
  <2>1. todo[t] # <<>>
    BY <1>2, <1>4 DEF StepOrdered
  <2> QED BY <2>1, <1>2, InfoIsValid
<1>8. PassesKeyed'
  <2>1. DOMAIN built = ToSet(passes.list)
    BY DEF RequestInv, PassesKeyed
  <2>2. DOMAIN built' = ToSet(passes'.list)
    BY <2>1, <1>1, <1>6
  <2>3. ASSUME NEW h \in DOMAIN built'
        PROVE  /\ built'[h] \in ValidNames
               /\ \E compatible \in BOOLEAN :
                    Stands(hashed.passes, h, HashedFields(InfoNamed(built'[h]), compatible))
    <3>1. CASE h \in DOMAIN built
      <4>1. built'[h] = built[h]
        BY <3>1, <1>1
      <4> QED BY <3>1, <4>1 DEF RequestInv, PassesKeyed
    <3>2. CASE h \notin DOMAIN built
      <4>1. h = hash /\ built'[h] = Head(todo[t])
        BY <3>2, <2>3, <1>1
      <4>2. fields = HashedFields(InfoNamed(Head(todo[t])), step[t] = "compatible")
        BY DEF fields, PassFields, Info
      <4>3. (step[t] = "compatible") \in BOOLEAN
        OBVIOUS
      <4> QED BY <4>1, <4>2, <4>3, <1>5, <1>7
    <3> QED BY <3>1, <3>2
  <2>4. hashed' = hashed
    BY <1>1
  <2> QED BY <2>2, <2>3, <2>4, <1>6 DEF PassesKeyed
<1>9. HashersSound' /\ FramebuffersKeyed' /\ AttachmentsKeyed'
  <2>1. HashersSound'
    BY <1>1, <1>2 DEF HashersSound
  <2>2. FramebuffersKeyed'
    BY <1>1 DEF RequestInv, FramebuffersKeyed
  <2>3. AttachmentsKeyed'
    BY <1>1 DEF RequestInv, AttachmentsKeyed
  <2> QED BY <2>1, <2>2, <2>3
<1>10. Grows
  BY <1>1 DEF Grows
<1>11. ThreadsTyped'
  BY <1>1, <1>2 DEF ThreadsTyped, Take
<1>12. \A u \in Threads : u # t => StaysPut(u)
  BY <1>1, <1>2, <1>3 DEF StaysPut, ThreadsTyped, Take
<1>13. ThreadInv(t)'
  <2>1. hash \in DOMAIN built' /\ Stands(hashed'.passes, hash, PassFields(t))
    BY <1>1, <1>5 DEF fields
  <2>2. Take(t, hash) /\ missed'[t] = FALSE /\ todo' = todo /\ views' = views
    BY <1>1, <1>2 DEF ThreadsTyped
  <2> QED BY <2>1, <2>2, <1>3, <1>4, <1>10, TakeKeeps
<1>14. frames' \in 0..MaxFrames
  BY <1>1 DEF RequestInv
<1> QED BY <1>3, <1>8, <1>9, <1>10, <1>11, <1>12, <1>13, <1>14, StepKeeps

(* A thread outside a render pass relies on nothing in the caches.         *)
LEMMA IdleKeeps ==
  ASSUME RequestInv, NEW t \in Threads, step[t] = "idle",
         UNCHANGED <<lockVars, threadVars, hashed>>
  PROVE  ThreadInv(t)'
<1>1. /\ holds' = holds /\ step' = step /\ missed' = missed /\ todo' = todo /\ got' = got
      /\ hashed' = hashed
  BY DEF lockVars, threadVars
<1>2. StepOrdered(t) /\ GotWhatItAsked(t)
  BY DEF RequestInv
<1>3. missed[t] = FALSE /\ holds[t] = "free"
  <2>1. holds[t] \in {"free", "spinning", "reading", "writing"} /\ missed[t] \in BOOLEAN
    BY DEF RequestInv, LockInv, LockTypeOK, ThreadsTyped
  <2> QED BY <2>1, <1>2 DEF StepOrdered
<1>4. StepOrdered(t)' /\ ViewsLive(t)'
  BY <1>1, <1>3 DEF StepOrdered, ViewsLive
<1>5. GotWhatItAsked(t)'
  BY <1>1, <1>2 DEF GotWhatItAsked
<1> QED BY <1>4, <1>5 DEF ThreadInv

(* A new frame, or an idle device: objects go, when nobody uses them.      *)
LEMMA FramesKeep ==
  ASSUME RequestInv, BeginFrame \/ WaitIdle
  PROVE  RequestInv'
<1>1. /\ NoCommandBuffers /\ frames < MaxFrames /\ frames' = frames + 1
      /\ UNCHANGED <<lockVars, hashed, passes, built, cookies, threadVars>>
  BY DEF BeginFrame, WaitIdle
<1>2. LockInv' /\ frames' \in 0..MaxFrames
  BY <1>1, LockUnchanged, BoundsAssumption DEF RequestInv
<1>3. ThreadsTyped' /\ HashersSound' /\ PassesKeyed'
  <2>1. ThreadsTyped'
    BY <1>1 DEF RequestInv, ThreadsTyped, threadVars
  <2>2. HashersSound'
    BY <1>1 DEF RequestInv, HashersSound
  <2>3. PassesKeyed'
    BY <1>1 DEF RequestInv, PassesKeyed
  <2> QED BY <2>1, <2>2, <2>3
<1>4. CacheInv(framebuffers) /\ CacheInv(attachments)
  BY DEF RequestInv, FramebuffersKeyed, AttachmentsKeyed
<1>5. /\ CacheInv(framebuffers') /\ DOMAIN framebuffers'.made \subseteq DOMAIN framebuffers.made
      /\ \A h \in DOMAIN framebuffers'.made : framebuffers'.made[h] = framebuffers.made[h]
  <2>1. CASE BeginFrame
    BY <2>1, <1>4, NextFrameIs DEF BeginFrame
  <2>2. CASE WaitIdle
    <3>1. framebuffers' = Cleared(framebuffers)
      BY <2>2 DEF WaitIdle
    <3> QED BY <3>1, <1>4, ClearedIs
  <2> QED BY <2>1, <2>2
<1>6. /\ CacheInv(attachments') /\ DOMAIN attachments'.made \subseteq DOMAIN attachments.made
      /\ \A h \in DOMAIN attachments'.made : attachments'.made[h] = attachments.made[h]
  <2>1. CASE BeginFrame
    BY <2>1, <1>4, NextFrameIs DEF BeginFrame
  <2>2. CASE WaitIdle
    <3>1. attachments' = Cleared(attachments)
      BY <2>2 DEF WaitIdle
    <3> QED BY <3>1, <1>4, ClearedIs
  <2> QED BY <2>1, <2>2
<1>7. FramebuffersKeyed'
  BY <1>1, <1>5 DEF RequestInv, FramebuffersKeyed
<1>8. AttachmentsKeyed'
  BY <1>1, <1>6 DEF RequestInv, AttachmentsKeyed
<1>9. \A t \in Threads : ThreadInv(t)'
  BY <1>1, IdleKeeps DEF NoCommandBuffers
<1> QED BY <1>2, <1>3, <1>7, <1>8, <1>9 DEF RequestInv, ThreadInv

(* Nothing was requested yet.                                              *)
LEMMA RequestInitial == Init => RequestInv
<1> SUFFICES ASSUME Init PROVE RequestInv OBVIOUS
<1> USE DEF Init
<1>1. LockInv /\ frames \in 0..MaxFrames
  BY LockInitial, BoundsAssumption
<1>2. ThreadsTyped
  BY ClientAssumption DEF ThreadsTyped
<1>3. ToSet(<<>>) = {} /\ <<>> \in Seq({}) /\ IsInjective(<<>>) /\ DOMAIN <<>> = {}
      /\ Len(<<>>) = 0
  BY DEF ToSet, IsInjective
<1>4. HashersSound
  <2>1. Len(HashOrder) \in Nat
    BY HashAssumption
  <2>2. DOMAIN hashed = Kinds /\ \A kind \in Kinds : hashed[kind] = <<>>
    BY DEF Kinds
  <2> SUFFICES ASSUME NEW kind \in Kinds
               PROVE  /\ hashed[kind] \in Seq(ToSet(hashed[kind])) /\ IsInjective(hashed[kind])
                      /\ Len(hashed[kind]) <= Len(HashOrder)
    BY <2>2 DEF HashersSound
  <2>3. hashed[kind] = <<>>
    BY <2>2
  <2>4. <<>> \in Seq(ToSet(<<>>)) /\ Len(<<>>) <= Len(HashOrder)
    BY <2>1, <1>3
  <2> QED BY <2>3, <2>4, <1>3
<1>5. PassesKeyed
  <2>1. MapInv(passes) /\ ToSet(passes.list) = {}
    BY EmptyMapInv
  <2>2. Unbroken(passes, {})
    BY DEF Unbroken
  <2> QED BY <2>1, <2>2, <1>3 DEF PassesKeyed
<1>6. CacheInv(EmptyCache) /\ DOMAIN EmptyCache.made = {}
  <2>1. 0 \in 0..RingSize - 1
    BY SizesAssumption
  <2> DEFINE rings == [i \in 0..RingSize - 1 |-> <<>>]
  <2>a. EmptyCache = [map |-> EmptyMap, rings |-> rings, index |-> 0, made |-> <<>>]
    BY DEF EmptyCache
  <2> HIDE DEF rings
  <2>2. EmptyCache = [EmptyCache EXCEPT !.index = 0] /\ EmptyCache.made = <<>>
    BY <2>a
  <2> QED BY <2>1, <2>2, <1>3, NothingCached
<1>7. FramebuffersKeyed /\ AttachmentsKeyed
  BY <1>6, BoundsAssumption DEF FramebuffersKeyed, AttachmentsKeyed
<1>8. \A t \in Threads : StepOrdered(t) /\ ViewsLive(t) /\ GotWhatItAsked(t)
  BY DEF LockInit, StepOrdered, ViewsLive, GotWhatItAsked, Nothing
<1> QED BY <1>1, <1>2, <1>4, <1>5, <1>7, <1>8 DEF RequestInv

(* A step that changes nothing.                                            *)
LEMMA StutterKeeps ==
  ASSUME RequestInv, UNCHANGED vars
  PROVE  RequestInv'
<1>1. UNCHANGED <<lockVars, cacheVars, threadVars, frames>>
  BY DEF vars
<1>2. LockInv' /\ frames' \in 0..MaxFrames
  BY <1>1, LockUnchanged DEF RequestInv
<1>3. ThreadsTyped'
  BY <1>1 DEF RequestInv, ThreadsTyped, threadVars
<1>4. HashersSound' /\ PassesKeyed' /\ FramebuffersKeyed' /\ AttachmentsKeyed' /\ Grows
  BY <1>1, TablesUnchanged
<1>5. \A u \in Threads : StaysPut(u)
  BY <1>1 DEF StaysPut, lockVars, threadVars
<1>6. \A u \in Threads : ThreadInv(u)'
  <2> SUFFICES ASSUME NEW u \in Threads PROVE ThreadInv(u)'
    OBVIOUS
  <2>1. ThreadInv(u) /\ StaysPut(u)
    BY <1>5 DEF RequestInv, ThreadInv
  <2> QED BY <2>1, <1>4, OthersKeep
<1> QED BY <1>2, <1>3, <1>4, <1>6 DEF RequestInv, ThreadInv

(* Whatever the threads request, in whatever order, an object in a table   *)
(* was made from the input its hash stands for, and what a thread was      *)
(* given is what it asked for and is still there.                          *)
THEOREM RequestInvariant == Spec => []RequestInv
<1>1. Init => RequestInv
  BY RequestInitial
<1>2. RequestInv /\ [Next]_vars => RequestInv'
  <2> SUFFICES ASSUME RequestInv, [Next]_vars PROVE RequestInv'
    OBVIOUS
  <2>1. CASE UNCHANGED vars
    BY <2>1, StutterKeeps
  <2>2. CASE BeginFrame \/ WaitIdle
    BY <2>2, FramesKeep
  <2>3. ASSUME NEW t \in Threads, Thread(t) PROVE RequestInv'
    BY <2>3, BeginKeeps, RequestAttachmentKeeps, RequestFramebufferKeeps, EndRenderPassKeeps,
       LockingKeeps, FindPassKeeps, EmplacePassKeeps DEF Thread
  <2> QED BY <2>1, <2>2, <2>3 DEF Next
<1> QED BY <1>1, <1>2, PTL DEF Spec

(* The types, where a thread is and what it still has to do.               *)
THEOREM TypesHold == Spec => []TypeOK
<1>1. RequestInv => TypeOK
  <2> SUFFICES ASSUME RequestInv PROVE TypeOK
    OBVIOUS
  <2>1. LockTypeOK /\ frames \in 0..MaxFrames /\ ThreadsTyped
    BY DEF RequestInv, LockInv
  <2>2. DOMAIN built \subseteq ToSet(HashOrder) /\ \A h \in DOMAIN built : built[h] \in Names
    <3> SUFFICES ASSUME NEW h \in DOMAIN built
                 PROVE  h \in ToSet(HashOrder) /\ built[h] \in Names
      OBVIOUS
    <3>1. built[h] \in ValidNames
          /\ \E x : Stands(hashed["passes"], h, x)
      BY DEF RequestInv, PassesKeyed
    <3>2. HashersSound /\ "passes" \in Kinds
      BY DEF RequestInv, Kinds
    <3> QED BY <3>1, <3>2, StandsIsHash DEF ValidNames
  <2>3. framebuffers.index \in 0..RingSize - 1 /\ attachments.index \in 0..RingSize - 1
        /\ cookies \in Nat
    BY DEF RequestInv, FramebuffersKeyed, AttachmentsKeyed, CacheInv
  <2>4. todo \in [Threads -> Seq(Names)]
    <3>1. \A t \in Threads : todo[t] \in Seq(Names)
      <4> SUFFICES ASSUME NEW t \in Threads PROVE todo[t] \in Seq(Names)
        OBVIOUS
      <4>1. todo[t] \in Seq(ValidNames)
        BY <2>1 DEF ThreadsTyped
      <4>2. \A i \in 1..Len(todo[t]) : todo[t][i] \in Names
        BY <4>1 DEF ValidNames
      <4> QED BY <4>1, <4>2
    <3> QED BY <3>1, <2>1 DEF ThreadsTyped
  <2>5. \A t \in Threads : step[t] # "idle" => todo[t] # <<>>
    BY DEF RequestInv, StepOrdered
  <2> QED BY <2>1, <2>2, <2>3, <2>4, <2>5 DEF TypeOK, ThreadsTyped
<1> QED BY <1>1, RequestInvariant, PTL

(* However requests meet in the tables and whatever the frames free, every *)
(* live object is found, once, and the rings free it once.                 *)
THEOREM MapsSoundHolds == Spec => []MapsSound
<1>1. RequestInv => MapsSound
  <2> SUFFICES ASSUME RequestInv PROVE MapsSound
    OBVIOUS
  <2>1. /\ MapInv(passes) /\ DOMAIN built = ToSet(passes.list)
        /\ CacheInv(framebuffers) /\ CacheInv(attachments)
    BY DEF RequestInv, PassesKeyed, FramebuffersKeyed, AttachmentsKeyed
  <2> QED BY <2>1, KeptIsSound, CacheKeptIsSound DEF MapsSound
<1> QED BY <1>1, RequestInvariant, PTL

-----------------------------------------------------------------------------
(* Render passes.  The hash of a pass leaves the views and the sample      *)
(* counts out, and that of a compatible pass more than that.               *)

SameShape(i, j) ==
    /\ DOMAIN i.attachments = DOMAIN j.attachments /\ i.subpasses = j.subpasses
    /\ \A a \in DOMAIN i.attachments :
         /\ i.attachments[a].kind = j.attachments[a].kind
         /\ i.attachments[a].format = j.attachments[a].format
         /\ i.attachments[a].domain = j.attachments[a].domain
SameOperations(i, j) ==
    /\ i.load = j.load /\ i.store = j.store
    /\ \A a \in DOMAIN i.attachments :
         /\ i.attachments[a].initial = j.attachments[a].initial
         /\ i.attachments[a].final = j.attachments[a].final
         /\ i.attachments[a].load = j.attachments[a].load
         /\ i.attachments[a].store = j.attachments[a].store
SameSamples(i, j) ==
    \A a \in DOMAIN i.attachments : i.attachments[a].samples = j.attachments[a].samples

(* What equal hashes tell of two infos.                                    *)
LEMMA FieldsTell ==
  ASSUME NEW i, NEW j, NEW c \in BOOLEAN, NEW d \in BOOLEAN,
         HashedFields(i, c) = HashedFields(j, d)
  PROVE  c = d /\ SameShape(i, j) /\ (~c => SameOperations(i, j))
<1> DEFINE atts(info, compatible) ==
             [a \in DOMAIN info.attachments |->
               <<info.attachments[a].kind, info.attachments[a].format,
                 info.attachments[a].domain,
                 IF compatible THEN "any" ELSE info.attachments[a].initial,
                 IF compatible THEN "any" ELSE info.attachments[a].final>>]
           each(info) == [a \in DOMAIN info.attachments |->
                            <<info.attachments[a].load, info.attachments[a].store>>]
           ops(info, compatible) == IF compatible THEN <<>> ELSE <<info.load, info.store, each(info)>>
<1>1. atts(i, c) = atts(j, d) /\ i.subpasses = j.subpasses /\ ops(i, c) = ops(j, d)
  <2>1. /\ HashedFields(i, c).attachments = atts(i, c)
        /\ HashedFields(i, c).subpasses = i.subpasses
        /\ HashedFields(i, c).operations = ops(i, c)
    BY DEF HashedFields
  <2>2. /\ HashedFields(j, d).attachments = atts(j, d)
        /\ HashedFields(j, d).subpasses = j.subpasses
        /\ HashedFields(j, d).operations = ops(j, d)
    BY DEF HashedFields
  <2> HIDE DEF atts, ops
  <2> QED BY <2>1, <2>2
<1>2. c = d
  <2> HIDE DEF each
  <2>1. ops(i, c) = IF c THEN <<>> ELSE <<i.load, i.store, each(i)>>
    OBVIOUS
  <2>2. ops(j, d) = IF d THEN <<>> ELSE <<j.load, j.store, each(j)>>
    OBVIOUS
  <2>3. \A x, y, z : <<>> # <<x, y, z>>
    OBVIOUS
  <2> HIDE DEF ops
  <2> QED BY <2>1, <2>2, <2>3, <1>1
<1>3. DOMAIN i.attachments = DOMAIN j.attachments
  <2>1. DOMAIN atts(i, c) = DOMAIN i.attachments /\ DOMAIN atts(j, d) = DOMAIN j.attachments
    OBVIOUS
  <2> HIDE DEF atts
  <2> QED BY <2>1, <1>1
<1>4. ASSUME NEW a \in DOMAIN i.attachments
      PROVE  /\ i.attachments[a].kind = j.attachments[a].kind
             /\ i.attachments[a].format = j.attachments[a].format
             /\ i.attachments[a].domain = j.attachments[a].domain
             /\ ~c => /\ i.attachments[a].initial = j.attachments[a].initial
                      /\ i.attachments[a].final = j.attachments[a].final
  <2>1. atts(i, c)[a] = <<i.attachments[a].kind, i.attachments[a].format, i.attachments[a].domain,
                          IF c THEN "any" ELSE i.attachments[a].initial,
                          IF c THEN "any" ELSE i.attachments[a].final>>
    BY <1>4
  <2>2. atts(j, d)[a] = <<j.attachments[a].kind, j.attachments[a].format, j.attachments[a].domain,
                          IF d THEN "any" ELSE j.attachments[a].initial,
                          IF d THEN "any" ELSE j.attachments[a].final>>
    BY <1>3, <1>4
  <2> HIDE DEF atts
  <2> QED BY <2>1, <2>2, <1>1, <1>2
<1>5. ASSUME ~c
      PROVE  /\ i.load = j.load /\ i.store = j.store
             /\ \A a \in DOMAIN i.attachments :
                  /\ i.attachments[a].load = j.attachments[a].load
                  /\ i.attachments[a].store = j.attachments[a].store
  <2>1. i.load = j.load /\ i.store = j.store /\ each(i) = each(j)
    <3>1. ops(i, c) = <<i.load, i.store, each(i)>> /\ ops(j, d) = <<j.load, j.store, each(j)>>
      BY <1>2, <1>5
    <3> HIDE DEF ops, each
    <3> QED BY <3>1, <1>1
  <2>2. ASSUME NEW a \in DOMAIN i.attachments
        PROVE  /\ i.attachments[a].load = j.attachments[a].load
               /\ i.attachments[a].store = j.attachments[a].store
    <3>1. each(i)[a] = <<i.attachments[a].load, i.attachments[a].store>>
      BY <2>2
    <3>2. each(j)[a] = <<j.attachments[a].load, j.attachments[a].store>>
      BY <2>2, <1>3
    <3> HIDE DEF each
    <3> QED BY <3>1, <3>2, <2>1
  <2> QED BY <2>1, <2>2
<1> HIDE DEF atts, each, ops
<1> QED BY <1>1, <1>2, <1>3, <1>4, <1>5 DEF SameShape, SameOperations

(* What a pass is made of depends on nothing else, but for the samples.    *)
LEMMA PartsAgree ==
  ASSUME NEW i, NEW j, SameShape(i, j)
  PROVE  /\ \A a \in DOMAIN i.attachments : \A s : Uses(i, a, s) = Uses(j, a, s)
         /\ \A s : /\ DepthWritten(i, s) = DepthWritten(j, s)
                   /\ InputRead(i, s) = InputRead(j, s)
                   /\ \A kinds : Used(i, s, kinds) = Used(j, s, kinds)
         /\ SelfDependencies(i) = SelfDependencies(j)
         /\ ChainDependencies(i) = ChainDependencies(j)
<1>1. ASSUME NEW a \in DOMAIN i.attachments, NEW s PROVE Uses(i, a, s) = Uses(j, a, s)
  BY <1>1 DEF Uses, SameShape
<1>2. DOMAIN i.attachments = DOMAIN j.attachments /\ i.subpasses = j.subpasses
  BY DEF SameShape
<1>3. ASSUME NEW s, NEW kinds PROVE Used(i, s, kinds) = Used(j, s, kinds)
  BY <1>1, <1>2 DEF Used
<1>4. ASSUME NEW s PROVE DepthWritten(i, s) = DepthWritten(j, s) /\ InputRead(i, s) = InputRead(j, s)
  BY <1>1, <1>2, <1>3 DEF DepthWritten, InputRead
<1>5. ASSUME NEW s, NEW kind PROVE Loops(i, s, kind) = Loops(j, s, kind)
  BY <1>1, <1>2 DEF Loops
<1>6. ASSUME NEW s PROVE ColorLoops(i, s) = ColorLoops(j, s) /\ DepthLoops(i, s) = DepthLoops(j, s)
  BY <1>2, <1>5 DEF ColorLoops, DepthLoops
<1>7. ASSUME NEW s PROVE SelfDependency(i, s) = SelfDependency(j, s)
  BY <1>6 DEF SelfDependency
<1>8. SelfDependencies(i) = SelfDependencies(j)
  BY <1>2, <1>6, <1>7 DEF SelfDependencies
<1>9. ASSUME NEW s PROVE ChainDependency(i, s) = ChainDependency(j, s)
  <2>1. /\ Drawn(i, s) = Drawn(j, s) /\ Drawn(i, s - 1) = Drawn(j, s - 1)
        /\ Used(i, s, {"depth"}) = Used(j, s, {"depth"})
    BY <1>3 DEF Drawn
  <2>2. /\ DepthWritten(i, s) = DepthWritten(j, s)
        /\ DepthWritten(i, s - 1) = DepthWritten(j, s - 1)
        /\ InputRead(i, s) = InputRead(j, s)
    BY <1>4
  <2> QED BY <2>1, <2>2 DEF ChainDependency
<1>10. ChainDependencies(i) = ChainDependencies(j)
  BY <1>2, <1>9 DEF ChainDependencies
<1> QED BY <1>1, <1>3, <1>4, <1>8, <1>10

(* Infos that agree in what is hashed, and in the samples, make one pass.  *)
LEMMA SamePass ==
  ASSUME NEW i, NEW j, SameShape(i, j), SameOperations(i, j), SameSamples(i, j)
  PROVE  Build(i, Workarounds) = Build(j, Workarounds)
<1> DEFINE D == DOMAIN i.attachments
           P == DOMAIN i.subpasses
           walks(info) == [a \in DOMAIN info.attachments |-> Walk(info, a)]
<1>1. DOMAIN j.attachments = D /\ i.subpasses = j.subpasses /\ DOMAIN j.subpasses = P
  BY DEF SameShape
<1>2. \A a \in D : \A s : Uses(i, a, s) = Uses(j, a, s)
  BY PartsAgree
<1>3. \A a \in D : Describe(i, a) = Describe(j, a)
  BY DEF Describe, SameShape, SameOperations, SameSamples
<1>4. \A a \in D : Implicit(i, a) = Implicit(j, a) /\ BottomOfPipe(i, a) = BottomOfPipe(j, a)
  BY DEF Implicit, BottomOfPipe, SameShape, SameOperations
<1>5. ASSUME NEW a \in D PROVE Walk(i, a) = Walk(j, a)
  <2>1. [s \in DOMAIN i.subpasses |-> Uses(i, a, s)] = [s \in DOMAIN j.subpasses |-> Uses(j, a, s)]
    BY <1>1, <1>2
  <2> QED BY <2>1, <1>1, <1>3 DEF Walk
<1>6. walks(i) = walks(j)
  BY <1>1, <1>5
<1>7. ExternalDependencies(i, walks(i)) = ExternalDependencies(j, walks(j))
  <2> DEFINE w == walks(i)
  <2>1. DOMAIN w = D
    OBVIOUS
  <2> HIDE DEF w
  <2>2. ASSUME NEW s, NEW kinds PROVE NeedsExternal(i, w, s, kinds) = NeedsExternal(j, w, s, kinds)
    BY <2>1, <1>2, <1>4 DEF NeedsExternal
  <2>3. ASSUME NEW s PROVE ExternalDependency(i, w, s) = ExternalDependency(j, w, s)
    <3>1. (\E a \in DOMAIN w : BottomOfPipe(i, a) /\ s \in w[a].first)
            = (\E a \in DOMAIN w : BottomOfPipe(j, a) /\ s \in w[a].first)
      BY <2>1, <1>4
    <3> QED BY <3>1, <2>2 DEF ExternalDependency
  <2>4. ExternalDependencies(i, w) = ExternalDependencies(j, w)
    BY <2>2, <2>3, <1>1 DEF ExternalDependencies
  <2> QED BY <2>4, <1>6 DEF w
<1>8. /\ SelfDependencies(i) = SelfDependencies(j)
      /\ ChainDependencies(i) = ChainDependencies(j)
  BY PartsAgree
<1> DEFINE final(info, a) == IF Describe(info, a).final = "undefined" THEN Walk(info, a).layout
                             ELSE Describe(info, a).final
           attachment(info, a) ==
             Fixup([Describe(info, a) EXCEPT !.initial = Walk(info, a).initial,
                                             !.final = final(info, a)], Workarounds)
           pass(info) ==
             [attachments |-> [a \in DOMAIN info.attachments |-> attachment(info, a)],
              layouts |-> [a \in DOMAIN info.attachments |-> Walk(info, a).layouts],
              uses |-> [s \in DOMAIN info.subpasses |->
                          [a \in DOMAIN info.attachments |-> Uses(info, a, s)]],
              preserve |-> [s \in DOMAIN info.subpasses |->
                              {a \in DOMAIN info.attachments : Preserved(Walk(info, a), s)}],
              dependencies |-> ExternalDependencies(info, walks(info))
                                 \cup SelfDependencies(info) \cup ChainDependencies(info)]
<1>9. Build(i, Workarounds) = pass(i) /\ Build(j, Workarounds) = pass(j)
  BY DEF Build
<1>10. \A a \in D : attachment(i, a) = attachment(j, a)
  BY <1>3, <1>5
<1>11. pass(i) = pass(j)
  <2> HIDE DEF attachment, walks
  <2>1. [a \in D |-> attachment(i, a)] = [a \in D |-> attachment(j, a)]
    BY <1>10
  <2>2. [a \in D |-> Walk(i, a).layouts] = [a \in D |-> Walk(j, a).layouts]
    BY <1>5
  <2>3. [s \in P |-> [a \in D |-> Uses(i, a, s)]] = [s \in P |-> [a \in D |-> Uses(j, a, s)]]
    <3>1. \A s \in P : [a \in D |-> Uses(i, a, s)] = [a \in D |-> Uses(j, a, s)]
      BY <1>2
    <3> QED BY <3>1
  <2>4. [s \in P |-> {a \in D : Preserved(Walk(i, a), s)}]
          = [s \in P |-> {a \in D : Preserved(Walk(j, a), s)}]
    <3>1. \A s \in P : {a \in D : Preserved(Walk(i, a), s)} = {a \in D : Preserved(Walk(j, a), s)}
      BY <1>5
    <3> QED BY <3>1
  <2> QED BY <2>1, <2>2, <2>3, <2>4, <1>1, <1>7, <1>8
<1> QED BY <1>9, <1>11

\* The rounds of the loop over the subpasses.
Rounds(g, initial, uses, modes) ==
    /\ g[0] = Unwalked(initial)
    /\ \A s \in 1..Len(modes) : g[s] = Walked(g[s - 1], s, uses[s], modes[s])
    /\ WalkOf(initial, uses, modes) = g[Len(modes)]

(* The loop is what its recursive definition says.                         *)
LEMMA WalkRounds ==
  ASSUME NEW initial, NEW uses, NEW modes, Len(modes) \in Nat
  PROVE  \E g : Rounds(g, initial, uses, modes)
<1> DEFINE N == Len(modes)
           Body(h, k) == [n \in 0..k |-> IF n = 0 THEN Unwalked(initial)
                                         ELSE Walked(h[n - 1], n, uses[n], modes[n])]
           Bad == {k \in 0..N : ~ \E h : h = Body(h, k)}
<1> HIDE DEF N
<1>0. N \in Nat
  BY DEF N
<1>1. \A k \in 0..N : \E h : h = Body(h, k)
  <2> SUFFICES ASSUME Bad # {} PROVE FALSE
    OBVIOUS
  <2>1. PICK m \in Bad : \A k \in Bad : m <= k
    <3>1. Bad \in SUBSET Nat
      BY <1>0
    <3> HIDE DEF Bad
    <3> QED BY <3>1, Least
  <2>2. m \in Nat /\ m \in 0..N /\ ~ \E h : h = Body(h, m)
    <3>1. m \in 0..N /\ m \in Nat
      BY <1>0
    <3>2. ~ \E h : h = Body(h, m)
      BY Zenon
    <3> QED BY <3>1, <3>2, Zenon
  <2>3. m # 0
    <3> DEFINE z == [n \in 0..0 |-> Unwalked(initial)]
    <3>1. z = Body(z, 0)
      OBVIOUS
    <3> QED BY <2>2, <3>1
  <2>4. PICK h : h = Body(h, m - 1)
    <3>1. m - 1 \in 0..N /\ m - 1 \notin Bad
      <4> HIDE DEF Bad
      <4>1. m - 1 \in 0..N /\ ~(m <= m - 1)
        BY <2>2, <2>3, <1>0
      <4> QED BY <4>1, <2>1
    <3> QED BY <3>1, Zenon
  <2> HIDE DEF Bad
  <2> DEFINE h2 == Body(h, m)
  <2>5. ASSUME NEW n \in 0..m
        PROVE  h2[n] = IF n = 0 THEN Unwalked(initial)
                       ELSE Walked(h2[n - 1], n, uses[n], modes[n])
    <3>1. CASE n = 0
      BY <3>1
    <3>2. CASE n # 0
      <4>1. n - 1 \in 0..m - 1 /\ n - 1 \in 0..m
        BY <3>2, <2>2
      <4>2. h[n - 1] = IF n - 1 = 0 THEN Unwalked(initial)
                       ELSE Walked(h[n - 1 - 1], n - 1, uses[n - 1], modes[n - 1])
        BY <2>4, <4>1, Zenon
      <4>3. h2[n - 1] = h[n - 1]
        BY <4>1, <4>2
      <4> QED BY <3>2, <4>3
    <3> QED BY <3>1, <3>2
  <2>6. h2 = Body(h2, m)
    BY <2>5
  <2> QED BY <2>2, <2>6
<1> DEFINE walk == CHOOSE h : h = Body(h, N)
<1>2. walk = Body(walk, N)
  <2>1. \E h : h = Body(h, N)
    <3>1. N \in 0..N
      BY <1>0
    <3> QED BY <1>1, <3>1, Zenon
  <2> QED BY <2>1, Zenon
<1>3. WalkOf(initial, uses, modes) = walk[N]
  BY Zenon DEF WalkOf, N
<1> HIDE DEF walk
<1>4. walk[0] = Unwalked(initial)
      /\ \A s \in 1..N : walk[s] = Walked(walk[s - 1], s, uses[s], modes[s])
  BY <1>0, <1>2
<1> QED BY <1>3, <1>4 DEF Rounds, N

Layouts == {"unused", "general", "colorAttachment", "depthAttachment", "depthReadOnly",
            "shaderReadOnly"}
WalkFields == {"layout", "initial", "used", "last", "idle", "layouts", "first", "moved"}

\* What the loop knows after s rounds.
WalkedTo(w, s, initial, uses, modes) ==
    LET used == {k \in 1..s : uses[k] # {}}
    IN /\ DOMAIN w = WalkFields /\ w.used \in BOOLEAN /\ (w.used <=> used # {})
       /\ w.layouts \in Seq(Layouts) /\ Len(w.layouts) = s
       /\ \A k \in used :
            /\ w.layouts[k] \in {"general", Preferred(uses[k], modes[k])}
            /\ Feedback(uses[k], modes[k]) => w.layouts[k] = "general"
       /\ w.idle = {k \in 1..s : k \notin used /\ \E j \in used : j < k}
       /\ w.initial = "undefined" <=> initial = "undefined"
       /\ w.initial = "present" => initial = "present"
       /\ used # {} =>
            /\ w.last \in used /\ \A k \in used : k <= w.last
            /\ w.layout \in Layouts
            /\ \E f \in used : /\ \A k \in used : f <= k
                               /\ w.first = {f} /\ w.moved = (w.initial # w.layouts[f])

(* One round keeps it.                                                     *)
LEMMA RoundKeeps ==
  ASSUME NEW initial, NEW uses, NEW modes, NEW s \in Nat \ {0}, NEW w,
         WalkedTo(w, s - 1, initial, uses, modes)
  PROVE  WalkedTo(Walked(w, s, uses[s], modes[s]), s, initial, uses, modes)
<1> DEFINE before == {k \in 1..s - 1 : uses[k] # {}}
           used == {k \in 1..s : uses[k] # {}}
           new == Walked(w, s, uses[s], modes[s])
           layout == LayoutAfter(uses[s], modes[s], w.layout)
           start == IF w.used THEN w.initial ELSE Corrected(uses[s], modes[s], w.initial)
<1>1. /\ DOMAIN w = WalkFields /\ w.used \in BOOLEAN /\ (w.used <=> before # {})
      /\ w.layouts \in Seq(Layouts) /\ Len(w.layouts) = s - 1
      /\ \A k \in before :
           /\ w.layouts[k] \in {"general", Preferred(uses[k], modes[k])}
           /\ Feedback(uses[k], modes[k]) => w.layouts[k] = "general"
      /\ w.idle = {k \in 1..s - 1 : k \notin before /\ \E j \in before : j < k}
      /\ w.initial = "undefined" <=> initial = "undefined"
      /\ w.initial = "present" => initial = "present"
      /\ before # {} =>
           /\ w.last \in before /\ \A k \in before : k <= w.last
           /\ w.layout \in Layouts
           /\ \E f \in before : /\ \A k \in before : f <= k
                                /\ w.first = {f} /\ w.moved = (w.initial # w.layouts[f])
  BY DEF WalkedTo
<1>2. CASE uses[s] = {}
  <2>1. /\ DOMAIN new = WalkFields /\ new.used = w.used /\ new.initial = w.initial
        /\ new.last = w.last /\ new.layout = w.layout /\ new.first = w.first
        /\ new.moved = w.moved /\ new.layouts = Append(w.layouts, "unused")
        /\ new.idle = IF w.used THEN w.idle \cup {s} ELSE w.idle
    BY <1>1, <1>2 DEF Walked, WalkFields
  <2> HIDE DEF new
  <2>2. used = before
    BY <1>2
  <2> HIDE DEF used, before
  <2>3. before \subseteq 1..s - 1
    BY DEF before
  <2>4. /\ new.layouts \in Seq(Layouts) /\ Len(new.layouts) = s
        /\ \A k \in 1..s - 1 : new.layouts[k] = w.layouts[k]
    <3>1. "unused" \in Layouts
      BY DEF Layouts
    <3> QED BY <3>1, <2>1, <1>1
  <2>5. new.idle = {k \in 1..s : k \notin used /\ \E j \in used : j < k}
    <3>1. s \notin before /\ \A j \in before : j < s
      BY <2>3
    <3>2. 1..s = (1..s - 1) \cup {s}
      OBVIOUS
    <3>3. CASE w.used
      <4>1. \E j \in before : j < s
        BY <3>1, <3>3, <1>1
      <4> QED BY <4>1, <3>1, <3>2, <3>3, <2>1, <2>2, <1>1
    <3>4. CASE ~w.used
      <4>1. before = {}
        BY <3>4, <1>1
      <4> QED BY <4>1, <3>4, <2>1, <2>2, <1>1
    <3> QED BY <3>3, <3>4
  <2>6. \A k \in used :
          /\ new.layouts[k] \in {"general", Preferred(uses[k], modes[k])}
          /\ Feedback(uses[k], modes[k]) => new.layouts[k] = "general"
    BY <1>1, <2>2, <2>3, <2>4
  <2>7. used # {} =>
          /\ new.last \in used /\ \A k \in used : k <= new.last
          /\ new.layout \in Layouts
          /\ \E f \in used : /\ \A k \in used : f <= k
                             /\ new.first = {f} /\ new.moved = (new.initial # new.layouts[f])
    BY <1>1, <2>1, <2>2, <2>3, <2>4
  <2>8. /\ DOMAIN new = WalkFields /\ new.used \in BOOLEAN /\ (new.used <=> used # {})
        /\ new.initial = "undefined" <=> initial = "undefined"
        /\ new.initial = "present" => initial = "present"
    BY <1>1, <2>1, <2>2
  <2> QED BY <2>4, <2>5, <2>6, <2>7, <2>8 DEF WalkedTo, new, used
<1>3. CASE uses[s] # {}
  <2>1. /\ DOMAIN new = WalkFields /\ new.used = TRUE /\ new.initial = start
        /\ new.last = s /\ new.layout = layout /\ new.idle = w.idle
        /\ new.first = (IF w.used THEN w.first ELSE {s})
        /\ new.moved = (IF w.used THEN w.moved ELSE start # layout)
        /\ new.layouts = Append(w.layouts, layout)
    BY <1>1, <1>3 DEF Walked, WalkFields
  <2>2. /\ layout \in {"general", Preferred(uses[s], modes[s])} /\ layout \in Layouts
        /\ Feedback(uses[s], modes[s]) => layout = "general"
    BY DEF LayoutAfter, Preferred, Layouts
  <2>3. /\ start = "undefined" <=> w.initial = "undefined"
        /\ start = "present" => w.initial = "present"
        /\ w.used => start = w.initial
    BY DEF Corrected
  <2> HIDE DEF new, layout, start
  <2>4. used = before \cup {s} /\ before \subseteq 1..s - 1
    BY <1>3
  <2> HIDE DEF used, before
  <2>5. /\ new.layouts \in Seq(Layouts) /\ Len(new.layouts) = s
        /\ \A k \in 1..s - 1 : new.layouts[k] = w.layouts[k]
        /\ new.layouts[s] = layout
    BY <2>1, <2>2, <1>1
  <2>6. new.idle = {k \in 1..s : k \notin used /\ \E j \in used : j < k}
    <3>1. \A k \in 1..s - 1 : (\E j \in used : j < k) <=> (\E j \in before : j < k)
      BY <2>4
    <3>2. 1..s = (1..s - 1) \cup {s} /\ s \notin 1..s - 1
      OBVIOUS
    <3>3. new.idle = {k \in 1..s - 1 : k \notin before /\ \E j \in before : j < k}
      BY <2>1, <1>1
    <3> SUFFICES ASSUME NEW k
                 PROVE  k \in new.idle <=> k \in 1..s /\ k \notin used /\ \E j \in used : j < k
      OBVIOUS
    <3>4. CASE k \in 1..s - 1
      BY <3>1, <3>2, <3>3, <3>4, <2>4
    <3>5. CASE k \notin 1..s - 1
      BY <3>2, <3>3, <3>5, <2>4
    <3> QED BY <3>4, <3>5
  <2>7. \A k \in used :
          /\ new.layouts[k] \in {"general", Preferred(uses[k], modes[k])}
          /\ Feedback(uses[k], modes[k]) => new.layouts[k] = "general"
    BY <1>1, <2>2, <2>4, <2>5
  <2>8. /\ new.last \in used /\ \A k \in used : k <= new.last
        /\ new.layout \in Layouts
    BY <2>1, <2>2, <2>4
  <2>9. \E f \in used : /\ \A k \in used : f <= k
                        /\ new.first = {f} /\ new.moved = (new.initial # new.layouts[f])
    <3>1. CASE w.used
      <4>1. PICK f \in before : /\ \A k \in before : f <= k
                                /\ w.first = {f} /\ w.moved = (w.initial # w.layouts[f])
        BY <3>1, <1>1
      <4>2. f \in used /\ \A k \in used : f <= k
        BY <4>1, <2>4
      <4> QED BY <4>1, <4>2, <3>1, <2>1, <2>3, <2>4, <2>5
    <3>2. CASE ~w.used
      <4>1. before = {}
        BY <3>2, <1>1
      <4>2. s \in used /\ \A k \in used : s <= k
        BY <4>1, <2>4
      <4> QED BY <4>2, <3>2, <2>1, <2>5
    <3> QED BY <3>1, <3>2, <1>1
  <2>10. /\ DOMAIN new = WalkFields /\ new.used \in BOOLEAN /\ (new.used <=> used # {})
         /\ new.initial = "undefined" <=> initial = "undefined"
         /\ new.initial = "present" => initial = "present"
    BY <1>1, <2>1, <2>3, <2>4
  <2> QED BY <2>5, <2>6, <2>7, <2>8, <2>9, <2>10 DEF WalkedTo, new, used
<1> QED BY <1>2, <1>3

(* What the loop leaves, for any number of subpasses.                      *)
LEMMA WalkIs ==
  ASSUME NEW initial, NEW uses, NEW modes, Len(modes) \in Nat
  PROVE  WalkedTo(WalkOf(initial, uses, modes), Len(modes), initial, uses, modes)
<1> DEFINE N == Len(modes)
<1>1. PICK g : Rounds(g, initial, uses, modes)
  BY WalkRounds
<1>2. /\ g[0] = Unwalked(initial)
      /\ \A s \in 1..N : g[s] = Walked(g[s - 1], s, uses[s], modes[s])
      /\ WalkOf(initial, uses, modes) = g[N]
  BY <1>1 DEF Rounds
<1> DEFINE Good(s) == WalkedTo(g[s], s, initial, uses, modes)
           Bad == {s \in 0..N : ~Good(s)}
<1>3. Good(0)
  <2> DEFINE none == {k \in 1..0 : uses[k] # {}}
             idle == {k \in 1..0 : k \notin none /\ \E j \in none : j < k}
             w == Unwalked(initial)
  <2>1. none = {} /\ idle = {}
    OBVIOUS
  <2>2. /\ DOMAIN w = WalkFields /\ w.used = FALSE /\ w.layouts = <<>> /\ w.idle = {}
        /\ w.initial = initial
    BY DEF Unwalked, WalkFields
  <2> HIDE DEF none, idle, w
  <2>3. w.layouts \in Seq(Layouts) /\ Len(w.layouts) = 0
    BY <2>2
  <2>4. WalkedTo(w, 0, initial, uses, modes)
    BY <2>1, <2>2, <2>3 DEF WalkedTo, none, idle
  <2> QED BY <2>4, <1>2 DEF w
<1>4. ASSUME NEW s \in 1..N, Good(s - 1) PROVE Good(s)
  <2>1. s \in Nat \ {0}
    OBVIOUS
  <2>2. g[s] = Walked(g[s - 1], s, uses[s], modes[s])
    BY <1>2
  <2> QED BY <2>1, <2>2, <1>4, RoundKeeps
<1> HIDE DEF Good
<1>5. Bad = {}
  <2> SUFFICES ASSUME Bad # {} PROVE FALSE
    OBVIOUS
  <2>1. PICK m \in Bad : \A k \in Bad : m <= k
    <3>1. Bad \in SUBSET Nat
      OBVIOUS
    <3> HIDE DEF Bad
    <3> QED BY <3>1, Least
  <2>2. m \in 0..N /\ ~Good(m)
    OBVIOUS
  <2>3. m # 0
    BY <2>2, <1>3
  <2>4. m \in 1..N /\ m - 1 \in 0..N
    BY <2>2, <2>3
  <2>5. Good(m - 1)
    <3>1. m - 1 \notin Bad
      <4> HIDE DEF Bad
      <4>1. ~(m <= m - 1)
        BY <2>2
      <4> QED BY <4>1, <2>1
    <3> QED BY <3>1, <2>4
  <2> QED BY <2>2, <2>4, <2>5, <1>4
<1>6. Good(N)
  BY <1>5
<1> QED BY <1>2, <1>6 DEF Good

Walks(info) == [a \in DOMAIN info.attachments |-> Walk(info, a)]

\* The parts of the pass that is made of an info.
MadeOf(pass, info) ==
    /\ DOMAIN pass.attachments = DOMAIN info.attachments
    /\ \A a \in DOMAIN info.attachments :
         /\ pass.attachments[a].format = info.attachments[a].format
         /\ pass.attachments[a].samples = info.attachments[a].samples
         /\ pass.attachments[a].load = Describe(info, a).load
         /\ \/ pass.attachments[a].initial = Walk(info, a).initial
            \/ Walk(info, a).initial = "undefined"
               /\ pass.attachments[a].initial = "colorAttachment"
         /\ pass.attachments[a].final =
              IF Describe(info, a).final = "undefined" THEN Walk(info, a).layout
              ELSE Describe(info, a).final
         /\ pass.layouts[a] = Walk(info, a).layouts
    /\ pass.uses = [s \in DOMAIN info.subpasses |->
                      [a \in DOMAIN info.attachments |-> Uses(info, a, s)]]
    /\ pass.preserve = [s \in DOMAIN info.subpasses |->
                          {a \in DOMAIN info.attachments : Preserved(Walk(info, a), s)}]
    /\ pass.dependencies = ExternalDependencies(info, Walks(info))
                             \cup SelfDependencies(info) \cup ChainDependencies(info)

(* Build makes them.                                                       *)
LEMMA BuildIs ==
  ASSUME NEW info
  PROVE  MadeOf(Build(info, Workarounds), info)
<1> DEFINE D == DOMAIN info.attachments
           P == DOMAIN info.subpasses
           final(a) == IF Describe(info, a).final = "undefined" THEN Walk(info, a).layout
                       ELSE Describe(info, a).final
           corrected(a) == [Describe(info, a) EXCEPT !.initial = Walk(info, a).initial,
                                                     !.final = final(a)]
           uses == [s \in P |-> [a \in D |-> Uses(info, a, s)]]
           preserve == [s \in P |-> {a \in D : Preserved(Walk(info, a), s)}]
           dependencies == ExternalDependencies(info, Walks(info))
                             \cup SelfDependencies(info) \cup ChainDependencies(info)
           pass == Build(info, Workarounds)
<1>1. pass = [attachments |-> [a \in D |-> Fixup(corrected(a), Workarounds)],
              layouts |-> [a \in D |-> Walk(info, a).layouts],
              uses |-> uses, preserve |-> preserve, dependencies |-> dependencies]
  BY DEF Build, Walks
<1>2. ASSUME NEW a \in D
      PROVE  /\ Fixup(corrected(a), Workarounds).format = info.attachments[a].format
             /\ Fixup(corrected(a), Workarounds).samples = info.attachments[a].samples
             /\ Fixup(corrected(a), Workarounds).load = Describe(info, a).load
             /\ \/ Fixup(corrected(a), Workarounds).initial = Walk(info, a).initial
                \/ Walk(info, a).initial = "undefined"
                   /\ Fixup(corrected(a), Workarounds).initial = "colorAttachment"
             /\ Fixup(corrected(a), Workarounds).final = final(a)
  <2> DEFINE d == Describe(info, a)
             c == corrected(a)
  <2>1. /\ DOMAIN d = {"format", "samples", "load", "store", "initial", "final"}
        /\ d.format = info.attachments[a].format /\ d.samples = info.attachments[a].samples
    BY DEF Describe
  <2> HIDE DEF d
  <2>2. /\ DOMAIN c = DOMAIN d /\ c.format = d.format /\ c.samples = d.samples
        /\ c.load = d.load /\ c.initial = Walk(info, a).initial /\ c.final = final(a)
    <3>1. c = [d EXCEPT !.initial = Walk(info, a).initial, !.final = final(a)]
      BY DEF d
    <3> HIDE DEF c, final
    <3> QED BY <3>1, <2>1
  <2> HIDE DEF c, final
  <2> QED BY <2>1, <2>2 DEF Fixup, c, d
<1> HIDE DEF corrected, uses, preserve, dependencies, pass
<1>3. /\ DOMAIN pass.attachments = D
      /\ \A a \in D : /\ pass.attachments[a] = Fixup(corrected(a), Workarounds)
                      /\ pass.layouts[a] = Walk(info, a).layouts
      /\ pass.uses = uses /\ pass.preserve = preserve /\ pass.dependencies = dependencies
  BY <1>1
<1> QED BY <1>2, <1>3 DEF MadeOf, pass, uses, preserve, dependencies

(* What the loop leaves for an attachment of an info.                      *)
LEMMA WalkOfInfo ==
  ASSUME NEW info, IsList(info.subpasses), NEW a
  PROVE  LET w == Walk(info, a)
             used == UsedIn(info, a)
         IN /\ \A s \in used :
                 /\ w.layouts[s] \in
                      {"general", Preferred(Uses(info, a, s), info.subpasses[s].mode)}
                 /\ Feedback(Uses(info, a, s), info.subpasses[s].mode) => w.layouts[s] = "general"
            /\ \A s \in DOMAIN info.subpasses :
                 Preserved(w, s)
                   <=> s \notin used /\ (\E k \in used : k < s) /\ (\E k \in used : s < k)
            /\ w.initial = "undefined" <=> Describe(info, a).initial = "undefined"
            /\ w.initial = "present" => Describe(info, a).initial = "present"
            /\ used # {} =>
                 /\ w.layout \in Layouts
                 /\ \E f \in used : /\ \A k \in used : f <= k
                                    /\ w.first = {f} /\ w.moved = (w.initial # w.layouts[f])
<1> DEFINE n == Len(info.subpasses)
           P == DOMAIN info.subpasses
           initial == Describe(info, a).initial
           uses == [s \in P |-> Uses(info, a, s)]
           modes == [s \in P |-> info.subpasses[s].mode]
           w == Walk(info, a)
           used == UsedIn(info, a)
<1>1. n \in Nat /\ P = 1..n
  BY DEF IsList
<1>2. Len(modes) = n
  <2> HIDE DEF n, P
  <2>1. modes \in Seq({info.subpasses[s].mode : s \in P})
    BY <1>1
  <2> QED BY <2>1, <1>1
<1>3. w = WalkOf(initial, uses, modes)
  BY DEF Walk
<1> HIDE DEF modes, uses, w, initial
<1>4. WalkedTo(w, n, initial, uses, modes)
  BY <1>1, <1>2, <1>3, WalkIs
<1>5. used = {k \in 1..n : uses[k] # {}}
  BY <1>1 DEF UsedIn, uses
<1>6. \A s \in used : uses[s] = Uses(info, a, s) /\ modes[s] = info.subpasses[s].mode
  BY <1>1, <1>5 DEF uses, modes
<1> HIDE DEF used, n, P
<1>7. /\ \A k \in used :
           /\ w.layouts[k] \in {"general", Preferred(uses[k], modes[k])}
           /\ Feedback(uses[k], modes[k]) => w.layouts[k] = "general"
      /\ w.idle = {k \in 1..n : k \notin used /\ \E j \in used : j < k}
      /\ w.initial = "undefined" <=> initial = "undefined"
      /\ w.initial = "present" => initial = "present"
      /\ used # {} =>
           /\ w.last \in used /\ \A k \in used : k <= w.last
           /\ w.layout \in Layouts
           /\ \E f \in used : /\ \A k \in used : f <= k
                              /\ w.first = {f} /\ w.moved = (w.initial # w.layouts[f])
  BY <1>4, <1>5 DEF WalkedTo
<1>8. ASSUME NEW s \in P
      PROVE  Preserved(w, s)
               <=> s \notin used /\ (\E k \in used : k < s) /\ (\E k \in used : s < k)
  <2>1. used \subseteq 1..n /\ s \in 1..n
    BY <1>1, <1>5
  <2>2. s \in w.idle <=> s \notin used /\ \E j \in used : j < s
    BY <2>1, <1>7
  <2>3. CASE used = {}
    BY <2>2, <2>3 DEF Preserved
  <2>4. CASE used # {}
    <3>1. w.last \in used /\ \A k \in used : k <= w.last
      BY <2>4, <1>7
    <3>2. s < w.last <=> \E k \in used : s < k
      <4>1. \A k \in used : k \in Nat
        BY <2>1, <1>1
      <4>2. s \in Nat
        BY <2>1, <1>1
      <4> QED BY <3>1, <4>1, <4>2
    <3> QED BY <3>2, <2>2 DEF Preserved
  <2> QED BY <2>3, <2>4
<1> QED BY <1>6, <1>7, <1>8 DEF w, used, initial, P

(* The pass that the constructor makes of an info it takes keeps each      *)
(* attachment in layouts that fit its uses, and preserves it between them. *)
LEMMA BuildKeeps ==
  ASSUME NEW info, ValidInfo(info), IsList(info.subpasses)
  PROVE  Kept(info, Build(info, Workarounds))
<1> DEFINE pass == Build(info, Workarounds)
           D == DOMAIN info.attachments
           P == DOMAIN info.subpasses
<1> HIDE DEF pass
<1>1. /\ \A a \in D : /\ pass.attachments[a].load = Describe(info, a).load
                      /\ \/ pass.attachments[a].initial = Walk(info, a).initial
                         \/ Walk(info, a).initial = "undefined"
                            /\ pass.attachments[a].initial = "colorAttachment"
                      /\ pass.attachments[a].final =
                           IF Describe(info, a).final = "undefined" THEN Walk(info, a).layout
                           ELSE Describe(info, a).final
                      /\ pass.layouts[a] = Walk(info, a).layouts
      /\ pass.preserve = [s \in P |-> {a \in D : Preserved(Walk(info, a), s)}]
  <2>1. MadeOf(pass, info)
    BY BuildIs DEF pass
  <2> QED BY <2>1 DEF MadeOf
<1>2. \A b, s : Uses(info, b, s) \subseteq {"color", "resolve", "input", "depth"}
  BY DEF Uses
<1> SUFFICES ASSUME NEW a \in D
               PROVE  /\ \A s \in UsedIn(info, a) : \A use \in Uses(info, a, s) :
                           /\ use \in {"color", "resolve"} =>
                                pass.layouts[a][s] \in {"colorAttachment", "general"}
                           /\ use = "input" => pass.layouts[a][s] \in
                                {"shaderReadOnly", "depthReadOnly", "general"}
                           /\ use = "depth" /\ info.subpasses[s].mode = "readWrite" =>
                                pass.layouts[a][s] \in {"depthAttachment", "general"}
                           /\ use = "depth" /\ info.subpasses[s].mode # "readWrite" =>
                                pass.layouts[a][s] \in {"depthReadOnly", "general"}
                      /\ \A s \in P :
                           a \in pass.preserve[s]
                             <=> /\ s \notin UsedIn(info, a)
                                 /\ \E k \in UsedIn(info, a) : k < s
                                 /\ \E k \in UsedIn(info, a) : s < k
                      /\ pass.attachments[a].final # "undefined"
                      /\ pass.attachments[a].load = "load"
                           => pass.attachments[a].initial # "undefined"
  BY <1>2 DEF Kept, pass
<1> DEFINE w == Walk(info, a)
           used == UsedIn(info, a)
<1>3. /\ \A s \in used :
           /\ w.layouts[s] \in {"general", Preferred(Uses(info, a, s), info.subpasses[s].mode)}
           /\ Feedback(Uses(info, a, s), info.subpasses[s].mode) => w.layouts[s] = "general"
      /\ \A s \in P :
           Preserved(w, s)
             <=> s \notin used /\ (\E k \in used : k < s) /\ (\E k \in used : s < k)
      /\ w.initial = "undefined" <=> Describe(info, a).initial = "undefined"
      /\ used # {} => w.layout \in Layouts
  BY WalkOfInfo
<1>4. /\ Describe(info, a).load = "load" => Describe(info, a).initial # "undefined"
      /\ \E s \in P : \/ a \in info.subpasses[s].color \cup info.subpasses[s].resolve
                                 \cup info.subpasses[s].input
                      \/ info.attachments[a].kind = "depth" /\ info.subpasses[s].mode # "none"
      /\ \A s \in P : info.attachments[a].kind = "depth" =>
                        a \notin info.subpasses[s].color \cup info.subpasses[s].resolve
  BY DEF ValidInfo
<1>5. used # {}
  BY <1>4 DEF UsedIn, Uses
<1> HIDE DEF w
<1>6. ASSUME NEW s \in used, NEW use \in Uses(info, a, s)
      PROVE  /\ use \in {"color", "resolve"} => w.layouts[s] \in {"colorAttachment", "general"}
             /\ use = "input" => w.layouts[s] \in {"shaderReadOnly", "depthReadOnly", "general"}
             /\ use = "depth" /\ info.subpasses[s].mode = "readWrite" =>
                  w.layouts[s] \in {"depthAttachment", "general"}
             /\ use = "depth" /\ info.subpasses[s].mode # "readWrite" =>
                  w.layouts[s] \in {"depthReadOnly", "general"}
  <2>1. /\ w.layouts[s] \in {"general", Preferred(Uses(info, a, s), info.subpasses[s].mode)}
        /\ Feedback(Uses(info, a, s), info.subpasses[s].mode) => w.layouts[s] = "general"
    BY <1>3
  <2>2. "depth" \in Uses(info, a, s) => Uses(info, a, s) \cap {"color", "resolve"} = {}
    <3>1. s \in P
      BY DEF UsedIn
    <3> QED BY <3>1, <1>4 DEF Uses
  <2>3. CASE use \in {"color", "resolve"}
    BY <2>1, <2>3 DEF Preferred
  <2>4. CASE use = "input"
    <3> SUFFICES w.layouts[s] \in {"shaderReadOnly", "depthReadOnly", "general"}
      BY <2>4
    <3> DEFINE uses == Uses(info, a, s)
               mode == info.subpasses[s].mode
    <3> HIDE DEF uses, mode
    <3>1. /\ w.layouts[s] \in {"general", Preferred(uses, mode)}
          /\ Feedback(uses, mode) => w.layouts[s] = "general"
          /\ "input" \in uses
      BY <2>1, <2>4 DEF uses, mode
    <3>2. CASE uses \cap {"color", "resolve"} # {}
      BY <3>1, <3>2 DEF Feedback
    <3>3. CASE uses \cap {"color", "resolve"} = {} /\ "depth" \in uses /\ mode = "readWrite"
      BY <3>1, <3>3 DEF Feedback
    <3>4. CASE uses \cap {"color", "resolve"} = {} /\ "depth" \in uses /\ mode # "readWrite"
      BY <3>1, <3>4 DEF Preferred
    <3>5. CASE uses \cap {"color", "resolve"} = {} /\ "depth" \notin uses
      BY <3>1, <3>5 DEF Preferred
    <3> QED BY <3>2, <3>3, <3>4, <3>5
  <2>5. CASE use = "depth"
    <3> DEFINE uses == Uses(info, a, s)
               mode == info.subpasses[s].mode
    <3> HIDE DEF uses, mode
    <3>1. /\ w.layouts[s] \in {"general", Preferred(uses, mode)}
          /\ "depth" \in uses /\ uses \cap {"color", "resolve"} = {}
      BY <2>1, <2>2, <2>5 DEF uses, mode
    <3>2. Preferred(uses, mode) = IF mode = "readWrite" THEN "depthAttachment"
                                  ELSE "depthReadOnly"
      BY <3>1 DEF Preferred
    <3>3. /\ mode = "readWrite" => w.layouts[s] \in {"depthAttachment", "general"}
          /\ mode # "readWrite" => w.layouts[s] \in {"depthReadOnly", "general"}
      BY <3>1, <3>2
    <3> QED BY <3>3, <2>5 DEF mode
  <2>6. use \in {"color", "resolve", "input", "depth"}
    BY DEF Uses
  <2> QED BY <2>3, <2>4, <2>5, <2>6
<1>7. pass.attachments[a].final # "undefined"
  BY <1>1, <1>3, <1>5 DEF Layouts, w
<1>8. pass.attachments[a].load = "load" => pass.attachments[a].initial # "undefined"
  BY <1>1, <1>3, <1>4 DEF w
<1> HIDE DEF used
<1>9. \A s \in P : a \in pass.preserve[s] <=> Preserved(w, s)
  BY <1>1 DEF w
<1> QED BY <1>1, <1>3, <1>6, <1>7, <1>8, <1>9 DEF w, used

(* Keeping is a matter of the shape and the pass alone.                    *)
LEMMA KeptAgrees ==
  ASSUME NEW i, NEW j, SameShape(i, j), NEW pass, Kept(j, pass)
  PROVE  Kept(i, pass)
<1>1. /\ DOMAIN i.attachments = DOMAIN j.attachments /\ i.subpasses = j.subpasses
      /\ \A a \in DOMAIN i.attachments : \A s : Uses(i, a, s) = Uses(j, a, s)
  BY PartsAgree DEF SameShape
<1>2. \A a \in DOMAIN i.attachments : UsedIn(i, a) = UsedIn(j, a)
  BY <1>1 DEF UsedIn
<1> QED BY <1>1, <1>2 DEF Kept

(* The pass under a hash that stands for what was asked for was made of an *)
(* info that agrees with it in everything that is hashed.                  *)
LEMMA BuiltAgrees ==
  ASSUME HashersSound, PassesKeyed, NEW h \in DOMAIN built, NEW i, NEW c \in BOOLEAN,
         Stands(hashed.passes, h, HashedFields(i, c))
  PROVE  LET j == InfoNamed(built[h])
         IN /\ built[h] \in ValidNames /\ ValidInfo(j) /\ IsList(j.subpasses)
            /\ HashedFields(i, c) = HashedFields(j, c)
            /\ SameShape(i, j) /\ (~c => SameOperations(i, j))
<1> DEFINE j == InfoNamed(built[h])
<1>1. PICK d \in BOOLEAN : Stands(hashed.passes, h, HashedFields(j, d))
  BY DEF PassesKeyed
<1>2. built[h] \in ValidNames
  BY DEF PassesKeyed
<1>3. ValidInfo(j) /\ IsList(j.subpasses)
  BY <1>2, ClientAssumption DEF ValidNames
<1>4. "passes" \in Kinds
  BY DEF Kinds
<1> HIDE DEF j
<1>5. HashedFields(i, c) = HashedFields(j, d)
  BY <1>1, <1>4, StandsUnique
<1>6. c = d /\ SameShape(i, j) /\ (~c => SameOperations(i, j))
  BY <1>5, FieldsTell
<1> QED BY <1>2, <1>3, <1>5, <1>6 DEF j

(* A thread that records has its pass.                                     *)
LEMMA RecordingHas ==
  ASSUME RequestInv, NEW t \in Recording
  PROVE  /\ HashersSound /\ PassesKeyed /\ FramebuffersKeyed /\ t \in Threads
         /\ got[t].actual \in DOMAIN built /\ got[t].compatible \in DOMAIN built
         /\ got[t].framebuffer \in DOMAIN framebuffers.made
         /\ Stands(hashed.passes, got[t].actual, HashedFields(Info(t), FALSE))
         /\ Stands(hashed.passes, got[t].compatible, HashedFields(Info(t), TRUE))
         /\ Stands(hashed.framebuffers, got[t].framebuffer,
                   [pass |-> got[t].compatible, views |-> views[t]])
         /\ StepOrdered(t) /\ ViewsLive(t) /\ step[t] = "recording"
<1>1. t \in Threads /\ step[t] = "recording"
  BY DEF Recording
<1>2. GotWhatItAsked(t) /\ StepOrdered(t) /\ ViewsLive(t)
  BY <1>1 DEF RequestInv
<1>3. HashersSound /\ PassesKeyed /\ FramebuffersKeyed
  BY DEF RequestInv
<1> QED BY <1>1, <1>2, <1>3 DEF GotWhatItAsked

(* A thread records in a pass that keeps its attachments in layouts that   *)
(* fit their uses and preserves them between two uses, whichever thread    *)
(* built it (render_pass.cpp:403-607, device.cpp:691-744).                 *)
THEOREM AttachmentsKeptHolds == Spec => []AttachmentsKept
<1>1. RequestInv => AttachmentsKept
  <2> SUFFICES ASSUME RequestInv, NEW t \in Recording
               PROVE  Kept(Info(t), Built(got[t].actual))
    BY DEF AttachmentsKept
  <2> DEFINE i == Info(t)
             h == got[t].actual
             j == InfoNamed(built[h])
  <2>1. /\ HashersSound /\ PassesKeyed /\ h \in DOMAIN built
        /\ Stands(hashed.passes, h, HashedFields(i, FALSE))
    BY RecordingHas
  <2> HIDE DEF i, h
  <2>2. ValidInfo(j) /\ IsList(j.subpasses) /\ SameShape(i, j)
    BY <2>1, BuiltAgrees
  <2> HIDE DEF j
  <2>3. Kept(j, Build(j, Workarounds))
    BY <2>2, BuildKeeps
  <2>4. Kept(i, Build(j, Workarounds))
    BY <2>2, <2>3, KeptAgrees
  <2> QED BY <2>4 DEF Built, i, j, h
<1> QED BY <1>1, RequestInvariant, PTL

\* What the client must see to: the hash of a pass leaves the sample counts
\* out (device.cpp:691), so attachments that it tells nothing else apart by must
\* have the same.
SamplesTold ==
    \A i, j \in ValidNames :
        SameShape(InfoNamed(i), InfoNamed(j)) => SameSamples(InfoNamed(i), InfoNamed(j))

\* The dependencies between the subpasses of a pass.
Inner(pass) == {d \in pass.dependencies : d.src # External}

(* They are those that a subpass has on itself and the chain.              *)
LEMMA InnerIs ==
  ASSUME NEW info, IsList(info.subpasses)
  PROVE  Inner(Build(info, Workarounds)) = SelfDependencies(info) \cup ChainDependencies(info)
<1> DEFINE pass == Build(info, Workarounds)
<1>1. DOMAIN info.subpasses \subseteq Nat \ {0}
  BY DEF IsList
<1>2. pass.dependencies = ExternalDependencies(info, Walks(info))
                            \cup SelfDependencies(info) \cup ChainDependencies(info)
  BY BuildIs DEF MadeOf
<1> HIDE DEF pass
<1>3. \A d \in ExternalDependencies(info, Walks(info)) : d.src = External
  <2>1. \A s : ExternalDependency(info, Walks(info), s).src = External
    BY DEF ExternalDependency, Dependency
  <2> QED BY <2>1 DEF ExternalDependencies
<1>4. \A d \in SelfDependencies(info) : d.src # External
  BY <1>1 DEF SelfDependencies, SelfDependency, Dependency, External
<1>5. \A d \in ChainDependencies(info) : d.src # External
  <2> SUFFICES ASSUME NEW s \in DOMAIN info.subpasses \ {1}
               PROVE  ChainDependency(info, s).src # External
    BY DEF ChainDependencies
  <2>1. ChainDependency(info, s).src = s - 1
    BY DEF ChainDependency, Dependency
  <2>2. s \in Nat \ {0} /\ s # 1
    BY <1>1
  <2> QED BY <2>1, <2>2 DEF External
<1> QED BY <1>2, <1>3, <1>4, <1>5 DEF Inner, pass

(* Passes made of infos of one shape are compatible.                       *)
LEMMA ShapesFit ==
  ASSUME NEW i, NEW j, SameShape(i, j), SameSamples(i, j), IsList(i.subpasses)
  PROVE  Compatible(Build(j, Workarounds), Build(i, Workarounds))
<1> DEFINE p == Build(j, Workarounds)
           q == Build(i, Workarounds)
           D == DOMAIN i.attachments
           P == DOMAIN i.subpasses
<1>1. DOMAIN j.attachments = D /\ i.subpasses = j.subpasses
  BY DEF SameShape
<1>2. Inner(p) = Inner(q)
  BY <1>1, InnerIs, PartsAgree
<1>3. MadeOf(p, j) /\ MadeOf(q, i)
  BY BuildIs
<1> HIDE DEF p, q
<1>4. \A a \in D : \A s : Uses(i, a, s) = Uses(j, a, s)
  BY PartsAgree
<1>5. /\ DOMAIN p.attachments = DOMAIN q.attachments
      /\ \A a \in DOMAIN p.attachments :
           /\ p.attachments[a].format = q.attachments[a].format
           /\ p.attachments[a].samples = q.attachments[a].samples
  BY <1>1, <1>3 DEF MadeOf, SameShape, SameSamples
<1>6. p.uses = q.uses
  <2>1. /\ p.uses = [s \in P |-> [a \in D |-> Uses(j, a, s)]]
        /\ q.uses = [s \in P |-> [a \in D |-> Uses(i, a, s)]]
    BY <1>1, <1>3 DEF MadeOf
  <2>2. \A s \in P : [a \in D |-> Uses(i, a, s)] = [a \in D |-> Uses(j, a, s)]
    BY <1>4
  <2> QED BY <2>1, <2>2
<1>7. p.preserve = q.preserve
  <2>1. /\ p.preserve = [s \in P |-> {a \in D : Preserved(Walk(j, a), s)}]
        /\ q.preserve = [s \in P |-> {a \in D : Preserved(Walk(i, a), s)}]
    BY <1>1, <1>3 DEF MadeOf
  <2>2. ASSUME NEW s \in P, NEW a \in D
        PROVE  Preserved(Walk(j, a), s) <=> Preserved(Walk(i, a), s)
    <3>1. UsedIn(i, a) = UsedIn(j, a)
      BY <1>1, <1>4 DEF UsedIn
    <3> DEFINE used == UsedIn(i, a)
    <3>2. Preserved(Walk(i, a), s)
            <=> s \notin used /\ (\E k \in used : k < s) /\ (\E k \in used : s < k)
      BY WalkOfInfo
    <3>3. IsList(j.subpasses) /\ s \in DOMAIN j.subpasses
      BY <1>1
    <3>4. Preserved(Walk(j, a), s)
            <=> s \notin used /\ (\E k \in used : k < s) /\ (\E k \in used : s < k)
      BY <3>1, <3>3, WalkOfInfo
    <3> QED BY <3>2, <3>4
  <2>3. \A s \in P : {a \in D : Preserved(Walk(j, a), s)} = {a \in D : Preserved(Walk(i, a), s)}
    BY <2>2
  <2> QED BY <2>1, <2>3
<1> QED BY <1>2, <1>5, <1>6, <1>7 DEF Compatible, Inner, p, q

(* As long as the client's infos do not differ in sample counts alone, a   *)
(* thread records with exactly the pass it described, in a framebuffer of  *)
(* a compatible pass and of the live views of its own attachments,         *)
(* whatever the other threads and the frames do (command_buffer.cpp,       *)
(* BeginRenderPass; device.cpp:691-760).                                   *)
THEOREM PassFitsHolds ==
  ASSUME SamplesTold
  PROVE  Spec => []PassFits
<1>1. RequestInv => PassFits
  <2> SUFFICES ASSUME RequestInv, NEW t \in Recording
               PROVE  LET framebuffer == framebuffers.made[got[t].framebuffer]
                          transient == {a \in DOMAIN views[t] : Info(t).attachments[a].view = 0}
                      IN /\ Built(got[t].actual) = Build(Info(t), Workarounds)
                         /\ Compatible(Built(framebuffer.pass), Build(Info(t), Workarounds))
                         /\ framebuffer.views = views[t]
                         /\ \A a \in transient : \E h \in DOMAIN attachments.made :
                              attachments.made[h] = views[t][a]
    BY DEF PassFits
  <2> DEFINE i == Info(t)
             made == framebuffers.made[got[t].framebuffer]
             actual == InfoNamed(built[got[t].actual])
             compatible == InfoNamed(built[got[t].compatible])
  <2>1. /\ HashersSound /\ PassesKeyed /\ FramebuffersKeyed /\ t \in Threads
        /\ got[t].actual \in DOMAIN built /\ got[t].compatible \in DOMAIN built
        /\ got[t].framebuffer \in DOMAIN framebuffers.made
        /\ Stands(hashed.passes, got[t].actual, HashedFields(i, FALSE))
        /\ Stands(hashed.passes, got[t].compatible, HashedFields(i, TRUE))
        /\ Stands(hashed.framebuffers, got[t].framebuffer,
                  [pass |-> got[t].compatible, views |-> views[t]])
        /\ StepOrdered(t) /\ ViewsLive(t) /\ step[t] = "recording"
    BY RecordingHas
  <2>2. Head(todo[t]) \in ValidNames /\ IsList(i.subpasses)
    <3>1. todo[t] # <<>> /\ todo[t] \in Seq(ValidNames)
      BY <2>1 DEF StepOrdered, RequestInv, ThreadsTyped
    <3>2. Head(todo[t]) \in ValidNames
      BY <3>1
    <3> QED BY <3>2, ClientAssumption DEF Info
  <2>3. i = InfoNamed(Head(todo[t]))
    BY DEF Info
  <2> HIDE DEF i
  <2>4. Built(got[t].actual) = Build(i, Workarounds)
    <3>1. built[got[t].actual] \in ValidNames /\ SameShape(i, actual) /\ SameOperations(i, actual)
      BY <2>1, BuiltAgrees
    <3>2. SameSamples(i, actual)
      BY <3>1, <2>2, <2>3, SamplesTold DEF SamplesTold
    <3> QED BY <3>1, <3>2, SamePass DEF Built
  <2>5. made = [pass |-> got[t].compatible, views |-> views[t]]
    <3>1. Stands(hashed.framebuffers, got[t].framebuffer, made)
      BY <2>1 DEF FramebuffersKeyed
    <3>2. "framebuffers" \in Kinds
      BY DEF Kinds
    <3> HIDE DEF made
    <3> QED BY <3>1, <3>2, <2>1, StandsUnique
  <2> HIDE DEF made
  <2>6. Compatible(Built(got[t].compatible), Build(i, Workarounds))
    <3>1. built[got[t].compatible] \in ValidNames /\ SameShape(i, compatible)
      BY <2>1, BuiltAgrees
    <3>2. SameSamples(i, compatible)
      BY <3>1, <2>2, <2>3, SamplesTold DEF SamplesTold
    <3> QED BY <3>1, <3>2, <2>2, ShapesFit DEF Built
  <2>7. ASSUME NEW a \in DOMAIN views[t], i.attachments[a].view = 0
        PROVE  \E h \in DOMAIN attachments.made : attachments.made[h] = views[t][a]
    <3>1. views[t][a] # 0
      BY <2>1 DEF StepOrdered
    <3> QED BY <3>1, <2>1, <2>7 DEF ViewsLive, i
  <2>8. made.pass = got[t].compatible /\ made.views = views[t]
    BY <2>5
  <2> QED BY <2>4, <2>6, <2>7, <2>8 DEF i, made
<1> QED BY <1>1, RequestInvariant, PTL

-----------------------------------------------------------------------------
(* Synchronisation inside a pass.                                          *)

\* What the client must see to, since the constructor does not: every subpass
\* that another follows writes something, as only writes make the source of a
\* chain dependency (render_pass.cpp:700-746); a subpass that reads an input
\* attachment also writes or tests one that it reads (input_attachment_read is
\* not set otherwise, render_pass.cpp:464-545); none is resolved to and read at
\* once (that makes no loop, render_pass.cpp:442-465); and no image but the
\* swapchain's comes in the layout of the present engine.
Orderable(info) ==
    /\ \A s \in DOMAIN info.subpasses :
         s + 1 \in DOMAIN info.subpasses => Drawn(info, s) \/ DepthWritten(info, s)
    /\ \A s \in DOMAIN info.subpasses :
         s # 1 /\ Used(info, s, {"input"}) => InputRead(info, s)
    /\ \A a \in DOMAIN info.attachments :
         /\ \A s \in DOMAIN info.subpasses : ~({"resolve", "input"} \subseteq Uses(info, a, s))
         /\ info.attachments[a].initial = "present"
              => info.attachments[a].domain = "swapchain"

(* The ranks of the stages.                                                *)
LEMMA RankIs ==
  /\ Rank("earlyTests") = 1 /\ Rank("fragment") = 2
  /\ Rank("lateTests") = 3 /\ Rank("colorOutput") = 4
<1>1. /\ DOMAIN Order = 1..5
      /\ Order[1] = "earlyTests" /\ Order[2] = "fragment" /\ Order[3] = "lateTests"
      /\ Order[4] = "colorOutput" /\ Order[5] = "bottom"
  BY DEF Order
<1>2. ASSUME NEW n \in 1..5, NEW stage, Order[n] = stage, \A i \in 1..5 : Order[i] = stage => i = n
      PROVE  Rank(stage) = n
  BY <1>1, <1>2 DEF Rank
<1>3. \A i \in 1..5 : i = 1 \/ i = 2 \/ i = 3 \/ i = 4 \/ i = 5
  OBVIOUS
<1>4. Rank("earlyTests") = 1
  BY <1>1, <1>2, <1>3
<1>5. Rank("fragment") = 2
  BY <1>1, <1>2, <1>3
<1>6. Rank("lateTests") = 3
  BY <1>1, <1>2, <1>3
<1>7. Rank("colorOutput") = 4
  BY <1>1, <1>2, <1>3
<1> QED BY <1>4, <1>5, <1>6, <1>7

(* What the last stages of a subpass wait for.                             *)
LEMMA LateStagesWait ==
  ASSUME NEW src, NEW stages
  PROVE  /\ "colorOutput" \in src /\ stages \subseteq Tests \cup {"fragment", "colorOutput"}
              => WaitsFor(src, stages)
         /\ "lateTests" \in src /\ stages \subseteq Tests \cup {"fragment"}
              => WaitsFor(src, stages)
<1>1. \A x \in Tests \cup {"fragment", "colorOutput"} : Rank(x) <= Rank("colorOutput")
  BY RankIs DEF Tests
<1>2. \A x \in Tests \cup {"fragment"} : Rank(x) <= Rank("lateTests")
  BY RankIs DEF Tests
<1> QED BY <1>1, <1>2 DEF WaitsFor

(* The dependency between a subpass and the next one is that of the chain. *)
LEMMA BetweenIs ==
  ASSUME NEW info, NEW pass, MadeOf(pass, info), IsList(info.subpasses),
         NEW k \in DOMAIN info.subpasses, k + 1 \in DOMAIN info.subpasses
  PROVE  (CHOOSE d \in pass.dependencies : d.src = k /\ d.dst = k + 1)
           = ChainDependency(info, k + 1)
<1> DEFINE P == DOMAIN info.subpasses
           D == pass.dependencies
<1>1. P \subseteq Nat \ {0}
  BY DEF IsList
<1>2. D = ExternalDependencies(info, Walks(info))
            \cup SelfDependencies(info) \cup ChainDependencies(info)
  BY DEF MadeOf
<1> HIDE DEF D
<1>3. \A s : /\ ChainDependency(info, s).src = s - 1 /\ ChainDependency(info, s).dst = s
             /\ SelfDependency(info, s).src = s /\ SelfDependency(info, s).dst = s
             /\ ExternalDependency(info, Walks(info), s).src = External
  BY DEF ChainDependency, SelfDependency, ExternalDependency, Dependency
<1>4. k \in Nat \ {0} /\ k + 1 # k /\ (k + 1) - 1 = k /\ k + 1 # 1
  BY <1>1
<1>5. ChainDependency(info, k + 1) \in D
  BY <1>2, <1>4 DEF ChainDependencies
<1>6. ASSUME NEW d \in D, d.src = k, d.dst = k + 1
      PROVE  d = ChainDependency(info, k + 1)
  <2>1. d \notin ExternalDependencies(info, Walks(info))
    BY <1>3, <1>4, <1>6 DEF ExternalDependencies, External
  <2>2. d \notin SelfDependencies(info)
    BY <1>3, <1>4, <1>6 DEF SelfDependencies
  <2>3. d \in ChainDependencies(info)
    BY <2>1, <2>2, <1>2
  <2>4. PICK s \in P : d = ChainDependency(info, s)
    BY <2>3 DEF ChainDependencies
  <2>5. s = k + 1
    BY <2>4, <1>3, <1>6
  <2> QED BY <2>4, <2>5
<1>7. ChainDependency(info, k + 1).src = k /\ ChainDependency(info, k + 1).dst = k + 1
  BY <1>3, <1>4
<1> HIDE DEF P
<1> QED BY <1>5, <1>6, <1>7 DEF D

(* What a use says of its subpass, and what it needs.                      *)
LEMMA UsesTell ==
  ASSUME NEW info, NEW a \in DOMAIN info.attachments, NEW s, NEW use \in Uses(info, a, s)
  PROVE  /\ use \in {"color", "resolve", "input", "depth"}
         /\ use \in {"color", "resolve"} =>
              /\ Drawn(info, s) /\ UseStages(use) = {"colorOutput"}
              /\ ReadAccess(use) \subseteq {"colorRead", "colorWrite"}
              /\ WriteAccess(info, s, use) = {"colorWrite"}
         /\ use = "depth" =>
              /\ Used(info, s, {"depth"}) /\ UseStages(use) = Tests
              /\ ReadAccess(use) = {"depthRead"}
              /\ WriteAccess(info, s, use) = When(DepthWritten(info, s), {"depthWrite"})
         /\ use = "input" =>
              /\ Used(info, s, {"input"}) /\ UseStages(use) = {"fragment"}
              /\ ReadAccess(use) = {"inputRead"} /\ WriteAccess(info, s, use) = {}
<1>1. use \in {"color", "resolve", "input", "depth"}
  BY DEF Uses
<1>2. ASSUME NEW kinds, use \in kinds PROVE Used(info, s, kinds)
  BY <1>2 DEF Used
<1>3. CASE use \in {"color", "resolve"}
  <2>1. Drawn(info, s)
    BY <1>2, <1>3 DEF Drawn
  <2>2. use # "input" /\ use # "depth"
    BY <1>3
  <2>3. UseStages(use) = {"colorOutput"} /\ WriteAccess(info, s, use) = {"colorWrite"}
    BY <2>2 DEF UseStages, WriteAccess
  <2>4. ReadAccess(use) \subseteq {"colorRead", "colorWrite"}
    BY <1>3 DEF ReadAccess
  <2> QED BY <2>1, <2>2, <2>3, <2>4, <1>1
<1>4. CASE use = "depth"
  <2>1. Used(info, s, {"depth"})
    BY <1>2, <1>4
  <2>2. UseStages(use) = Tests /\ ReadAccess(use) = {"depthRead"}
    BY <1>4 DEF UseStages, ReadAccess
  <2>3. WriteAccess(info, s, use) = When(DepthWritten(info, s), {"depthWrite"})
    BY <1>4, <2>1 DEF WriteAccess, When, DepthWritten
  <2> QED BY <2>1, <2>2, <2>3, <1>4
<1>5. CASE use = "input"
  <2>1. Used(info, s, {"input"})
    BY <1>2, <1>5
  <2>2. /\ UseStages(use) = {"fragment"} /\ ReadAccess(use) = {"inputRead"}
        /\ WriteAccess(info, s, use) = {}
    BY <1>5 DEF UseStages, ReadAccess, WriteAccess
  <2> QED BY <2>1, <2>2, <1>5
<1> QED BY <1>1, <1>3, <1>4, <1>5

(* The dependency that leads to a subpass reaches all that is used in it.  *)
LEMMA ChainReaches ==
  ASSUME NEW info, Orderable(info), NEW a \in DOMAIN info.attachments,
         NEW s \in DOMAIN info.subpasses \ {1}
  PROVE  Reaches(ChainDependency(info, s), info, a, s)
<1> DEFINE d == ChainDependency(info, s)
<1>1. /\ d.dstStages = When(Drawn(info, s), {"colorOutput"})
                         \cup When(Used(info, s, {"depth"}), Tests)
                         \cup When(InputRead(info, s), {"fragment"})
      /\ d.dstAccess = When(Drawn(info, s), {"colorRead", "colorWrite"})
                         \cup When(Used(info, s, {"depth"}), {"depthRead"})
                         \cup When(DepthWritten(info, s), {"depthWrite"})
                         \cup When(InputRead(info, s), {"inputRead"})
  BY DEF ChainDependency, Dependency
<1> HIDE DEF d
<1>2. ASSUME NEW use \in Uses(info, a, s)
      PROVE  /\ UseStages(use) \subseteq d.dstStages
             /\ ReadAccess(use) \cup WriteAccess(info, s, use) \subseteq d.dstAccess
  <2>1. CASE use \in {"color", "resolve"}
    BY <1>1, <2>1, UsesTell DEF When
  <2>2. CASE use = "depth"
    BY <1>1, <2>2, UsesTell DEF When
  <2>3. CASE use = "input"
    <3>1. InputRead(info, s)
      BY <2>3, UsesTell DEF Orderable
    <3> QED BY <1>1, <2>3, <3>1, UsesTell DEF When
  <2> QED BY <2>1, <2>2, <2>3, UsesTell
<1> QED BY <1>2 DEF Reaches, d

(* The one that leads out of a subpass waits for all that it wrote.        *)
LEMMA ChainWaits ==
  ASSUME NEW info, Orderable(info), NEW a \in DOMAIN info.attachments,
         NEW s \in DOMAIN info.subpasses, s + 1 \in DOMAIN info.subpasses, s \in Nat
  PROVE  LET d == ChainDependency(info, s + 1)
         IN /\ \A use \in Uses(info, a, s) : /\ WaitsFor(d.srcStages, UseStages(use))
                                             /\ WriteAccess(info, s, use) \subseteq d.srcAccess
            /\ s # 1 => \E stage \in ChainDependency(info, s).dstStages :
                          WaitsFor(d.srcStages, {stage})
<1> DEFINE d == ChainDependency(info, s + 1)
           c == ChainDependency(info, s)
<1>1. /\ d.srcStages = When(Drawn(info, s), {"colorOutput"})
                         \cup When(DepthWritten(info, s), Tests)
      /\ d.srcAccess = When(Drawn(info, s), {"colorWrite"})
                         \cup When(DepthWritten(info, s), {"depthWrite"})
  <2>1. (s + 1) - 1 = s
    OBVIOUS
  <2> QED BY <2>1 DEF ChainDependency, Dependency
<1>2. c.dstStages = When(Drawn(info, s), {"colorOutput"})
                      \cup When(Used(info, s, {"depth"}), Tests)
                      \cup When(InputRead(info, s), {"fragment"})
  BY DEF ChainDependency, Dependency
<1>3. Drawn(info, s) \/ DepthWritten(info, s)
  BY DEF Orderable
<1> HIDE DEF d, c
<1>4. ASSUME NEW use \in Uses(info, a, s)
      PROVE  WaitsFor(d.srcStages, UseStages(use)) /\ WriteAccess(info, s, use) \subseteq d.srcAccess
  <2>1. UseStages(use) \subseteq Tests \cup {"fragment", "colorOutput"}
    BY UsesTell
  <2>2. CASE Drawn(info, s)
    <3>1. WaitsFor(d.srcStages, UseStages(use))
      BY <2>1, <2>2, <1>1, LateStagesWait DEF When
    <3>2. WriteAccess(info, s, use) \subseteq d.srcAccess
      BY <2>2, <1>1, UsesTell DEF When
    <3> QED BY <3>1, <3>2
  <2>3. CASE ~Drawn(info, s)
    <3>1. use \notin {"color", "resolve"} /\ DepthWritten(info, s)
      BY <2>3, <1>3, UsesTell
    <3>2. UseStages(use) \subseteq Tests \cup {"fragment"}
      BY <3>1, UsesTell
    <3>3. "lateTests" \in d.srcStages
      BY <3>1, <1>1 DEF When, Tests
    <3>4. WaitsFor(d.srcStages, UseStages(use))
      BY <3>2, <3>3, LateStagesWait
    <3>5. WriteAccess(info, s, use) \subseteq d.srcAccess
      BY <3>1, <1>1, UsesTell DEF When
    <3> QED BY <3>4, <3>5
  <2> QED BY <2>2, <2>3
<1>5. \E stage \in c.dstStages : WaitsFor(d.srcStages, {stage})
  <2>1. CASE Drawn(info, s)
    <3>1. "colorOutput" \in c.dstStages /\ "colorOutput" \in d.srcStages
      BY <2>1, <1>1, <1>2 DEF When
    <3>2. WaitsFor(d.srcStages, {"colorOutput"})
      BY <3>1, LateStagesWait
    <3> QED BY <3>1, <3>2
  <2>2. CASE DepthWritten(info, s)
    <3>1. "lateTests" \in c.dstStages /\ "lateTests" \in d.srcStages
      BY <2>2, <1>1, <1>2 DEF When, Tests, DepthWritten
    <3>2. WaitsFor(d.srcStages, {"lateTests"})
      BY <3>1, LateStagesWait DEF Tests
    <3> QED BY <3>1, <3>2
  <2> QED BY <2>1, <2>2, <1>3
<1> QED BY <1>4, <1>5 DEF d, c

(* So a later use of an attachment waits for an earlier one.               *)
LEMMA ChainOrders ==
  ASSUME NEW info, NEW pass, MadeOf(pass, info), IsList(info.subpasses), Orderable(info),
         NEW a \in DOMAIN info.attachments,
         NEW before \in DOMAIN info.subpasses, NEW s \in DOMAIN info.subpasses, before < s
  PROVE  Ordered(info, pass, a, before, s)
<1> DEFINE P == DOMAIN info.subpasses
           between(k) == CHOOSE d \in pass.dependencies : d.src = k /\ d.dst = k + 1
<1>1. /\ P \subseteq Nat \ {0} /\ before \in Nat \ {0} /\ s \in Nat \ {0}
      /\ \A k \in before..s - 1 : k \in P /\ k + 1 \in P /\ k \in Nat \ {0}
  BY DEF IsList
<1>2. \A k \in before..s - 1 : between(k) = ChainDependency(info, k + 1)
  BY <1>1, BetweenIs
<1>3. before \in before..s - 1 /\ s - 1 \in before..s - 1 /\ (s - 1) + 1 = s /\ s # 1
  BY <1>1
<1> HIDE DEF P, between
<1>4. \A use \in Uses(info, a, before) :
        /\ WaitsFor(between(before).srcStages, UseStages(use))
        /\ WriteAccess(info, before, use) \subseteq between(before).srcAccess
  BY <1>1, <1>2, <1>3, ChainWaits DEF P
<1>5. ASSUME NEW k \in before..s - 2
      PROVE  \E stage \in between(k).dstStages : WaitsFor(between(k + 1).srcStages, {stage})
  <2>1. k \in before..s - 1 /\ k + 1 \in before..s - 1 /\ k + 1 # 1 /\ k + 1 \in Nat
    BY <1>1
  <2>2. between(k) = ChainDependency(info, k + 1) /\ between(k + 1) = ChainDependency(info, k + 1 + 1)
    BY <2>1, <1>2
  <2>3. k + 1 \in DOMAIN info.subpasses /\ k + 1 + 1 \in DOMAIN info.subpasses
    BY <2>1, <1>1 DEF P
  <2> QED BY <2>1, <2>2, <2>3, ChainWaits
<1>6. Reaches(between(s - 1), info, a, s)
  BY <1>2, <1>3, ChainReaches
<1> QED BY <1>4, <1>5, <1>6 DEF Ordered, between

(* Only a swapchain image that is loaded comes from the present engine.    *)
LEMMA PresentIsLoaded ==
  ASSUME NEW info, Orderable(info), NEW a \in DOMAIN info.attachments,
         Describe(info, a).initial = "present"
  PROVE  BottomOfPipe(info, a)
<1> DEFINE att == info.attachments[a]
<1>1. att.initial = "present" => att.domain = "swapchain"
  BY DEF Orderable
<1>2. CASE att.domain = "swapchain"
  <2>1. Describe(info, a).initial = IF att.load = "load" THEN "present" ELSE "undefined"
    BY <1>2 DEF Describe
  <2> QED BY <2>1, <1>2 DEF BottomOfPipe
<1>3. CASE att.domain # "swapchain"
  <2>1. Describe(info, a).initial \in {"undefined", att.initial}
    BY <1>3 DEF Describe
  <2> QED BY <2>1, <1>1, <1>3
<1> QED BY <1>2, <1>3

(* A first use that changes the layout waits for what came before the      *)
(* pass.                                                                   *)
LEMMA FirstUseReached ==
  ASSUME NEW info, NEW pass, MadeOf(pass, info), IsList(info.subpasses), Orderable(info),
         NEW a \in DOMAIN info.attachments, NEW s \in UsedIn(info, a),
         \A k \in UsedIn(info, a) : ~(k < s),
         pass.attachments[a].initial # pass.layouts[a][s]
  PROVE  \E d \in pass.dependencies :
           /\ d.src = External /\ d.dst = s /\ Reaches(d, info, a, s)
           /\ pass.attachments[a].initial = "present" => "bottom" \in d.srcStages
<1> DEFINE walks == Walks(info)
           w == Walk(info, a)
           used == UsedIn(info, a)
           uses == Uses(info, a, s)
           mode == info.subpasses[s].mode
           d == ExternalDependency(info, walks, s)
<1>1. /\ used \subseteq DOMAIN info.subpasses /\ used \subseteq Nat /\ s \in Nat
      /\ s \in DOMAIN info.subpasses /\ uses # {}
  BY DEF UsedIn, IsList
<1>2. /\ w.layouts[s] \in {"general", Preferred(uses, mode)}
      /\ w.initial = "present" => Describe(info, a).initial = "present"
      /\ \E f \in used : /\ \A k \in used : f <= k
                         /\ w.first = {f} /\ w.moved = (w.initial # w.layouts[f])
  BY WalkOfInfo
<1>3. DOMAIN walks = DOMAIN info.attachments /\ walks[a] = w
  BY DEF Walks
<1>4. /\ pass.layouts[a] = w.layouts
      /\ \/ pass.attachments[a].initial = w.initial
         \/ w.initial = "undefined" /\ pass.attachments[a].initial = "colorAttachment"
      /\ ExternalDependencies(info, walks) \subseteq pass.dependencies
  BY DEF MadeOf
<1> HIDE DEF w, walks, used, uses, mode
<1>5. w.layouts[s] # "undefined"
  BY <1>2 DEF Preferred
<1>6. w.first = {s} /\ w.moved
  <2>1. PICK f \in used : /\ \A k \in used : f <= k
                          /\ w.first = {f} /\ w.moved = (w.initial # w.layouts[f])
    BY <1>2
  <2>2. s \in used /\ ~(f < s)
    BY DEF used
  <2>3. f = s
    BY <2>1, <2>2, <1>1
  <2>4. w.initial # w.layouts[s]
    BY <1>4, <1>5
  <2> QED BY <2>1, <2>3, <2>4
<1>7. ASSUME NEW kinds, uses \cap kinds # {} PROVE NeedsExternal(info, walks, s, kinds)
  <2>1. a \in DOMAIN walks /\ s \in walks[a].first /\ walks[a].moved
    BY <1>3, <1>6
  <2> QED BY <2>1, <1>7 DEF NeedsExternal, uses
<1>8. uses \subseteq {"color", "resolve", "depth", "input"}
  BY DEF uses, Uses
<1>9. NeedsExternal(info, walks, s, {"color", "resolve", "depth", "input"})
  BY <1>1, <1>7, <1>8
<1>10. d \in pass.dependencies
  BY <1>1, <1>4, <1>9 DEF ExternalDependencies
<1> DEFINE color == NeedsExternal(info, walks, s, {"color", "resolve"})
           depth == NeedsExternal(info, walks, s, {"depth"})
           input == NeedsExternal(info, walks, s, {"input"})
           bottom == \E b \in DOMAIN walks : BottomOfPipe(info, b) /\ s \in walks[b].first
<1>11. /\ d.src = External /\ d.dst = s
       /\ bottom => "bottom" \in d.srcStages
       /\ color => "colorOutput" \in d.dstStages /\ {"colorRead", "colorWrite"} \subseteq d.dstAccess
       /\ depth => Tests \subseteq d.dstStages /\ {"depthRead", "depthWrite"} \subseteq d.dstAccess
       /\ input => "fragment" \in d.dstStages /\ "inputRead" \in d.dstAccess
  BY DEF ExternalDependency, Dependency, When
<1>12. /\ uses \cap {"color", "resolve"} # {} => color
       /\ "depth" \in uses => depth
       /\ "input" \in uses => input
  BY <1>7
<1>13. pass.attachments[a].initial = "present" => bottom
  <2>1. pass.attachments[a].initial = "present" => Describe(info, a).initial = "present"
    BY <1>2, <1>4
  <2>2. s \in walks[a].first /\ a \in DOMAIN walks
    BY <1>3, <1>6
  <2> QED BY <2>1, <2>2, PresentIsLoaded
<1> HIDE DEF d, color, depth, input, bottom
<1>14. ASSUME NEW use \in uses
       PROVE  /\ UseStages(use) \subseteq d.dstStages
              /\ ReadAccess(use) \cup WriteAccess(info, s, use) \subseteq d.dstAccess
  <2>1. CASE use \in {"color", "resolve"}
    BY <2>1, <1>11, <1>12, UsesTell DEF uses
  <2>2. CASE use = "depth"
    <3>1. WriteAccess(info, s, use) \subseteq {"depthWrite"}
      BY <2>2, UsesTell DEF When, uses
    <3> QED BY <3>1, <2>2, <1>11, <1>12, UsesTell DEF uses
  <2>3. CASE use = "input"
    BY <2>3, <1>11, <1>12, UsesTell DEF uses
  <2> QED BY <2>1, <2>2, <2>3, <1>8
<1>15. Reaches(d, info, a, s)
  BY <1>14 DEF Reaches, uses
<1> QED BY <1>10, <1>11, <1>13, <1>15

(* A subpass that writes what it reads as an input depends on itself.      *)
LEMMA LoopReached ==
  ASSUME NEW info, NEW pass, MadeOf(pass, info), Orderable(info),
         NEW a \in DOMAIN info.attachments, NEW s \in DOMAIN info.subpasses,
         "input" \in Uses(info, a, s), Writes(info, a, s)
  PROVE  \E d \in pass.dependencies : d.src = s /\ d.dst = s /\ "inputRead" \in d.dstAccess
<1> DEFINE d == SelfDependency(info, s)
<1>1. "resolve" \notin Uses(info, a, s)
  BY DEF Orderable
<1>2. PICK use \in Uses(info, a, s) : WriteAccess(info, s, use) # {}
  BY DEF Writes
<1>3. ColorLoops(info, s) \/ DepthLoops(info, s)
  <2>1. CASE use = "color"
    BY <2>1, <1>1 DEF ColorLoops, Loops
  <2>2. CASE use = "depth"
    <3>1. info.subpasses[s].mode = "readWrite"
      BY <2>2, <1>2 DEF WriteAccess, When
    <3>2. Loops(info, s, "depth")
      BY <2>2, <1>1 DEF Loops
    <3> QED BY <3>1, <3>2 DEF DepthLoops
  <2>3. use \notin {"resolve", "input"}
    BY <1>1, <1>2, UsesTell
  <2> QED BY <2>1, <2>2, <2>3, UsesTell
<1>4. d \in pass.dependencies
  BY <1>3 DEF MadeOf, SelfDependencies
<1>5. d.src = s /\ d.dst = s /\ "inputRead" \in d.dstAccess
  BY DEF SelfDependency, Dependency
<1> QED BY <1>4, <1>5

(* The pass that the constructor makes of such an info is synchronised.    *)
LEMMA BuildSynchronises ==
  ASSUME NEW info, IsList(info.subpasses), Orderable(info)
  PROVE  Synchronised(info, Build(info, Workarounds))
<1> DEFINE pass == Build(info, Workarounds)
<1>1. MadeOf(pass, info)
  BY BuildIs
<1> HIDE DEF pass
<1>2. ASSUME NEW a \in DOMAIN info.attachments, NEW s \in UsedIn(info, a)
      PROVE  LET layout == pass.layouts[a]
                 initial == pass.attachments[a].initial
                 earlier == {k \in UsedIn(info, a) : k < s}
             IN /\ earlier = {} /\ initial # layout[s] =>
                     \E d \in pass.dependencies :
                         /\ d.src = External /\ d.dst = s /\ Reaches(d, info, a, s)
                         /\ initial = "present" => "bottom" \in d.srcStages
                /\ \A before \in earlier :
                     Writes(info, a, before) \/ Writes(info, a, s) \/ layout[before] # layout[s]
                       => Ordered(info, pass, a, before, s)
                /\ "input" \in Uses(info, a, s) /\ Writes(info, a, s) =>
                     \E d \in pass.dependencies :
                         d.src = s /\ d.dst = s /\ "inputRead" \in d.dstAccess
  <2> DEFINE earlier == {k \in UsedIn(info, a) : k < s}
  <2>1. s \in DOMAIN info.subpasses /\ \A k \in earlier : k \in DOMAIN info.subpasses /\ k < s
    BY DEF UsedIn
  <2>2. earlier = {} => \A k \in UsedIn(info, a) : ~(k < s)
    OBVIOUS
  <2>3. earlier = {} /\ pass.attachments[a].initial # pass.layouts[a][s] =>
          \E d \in pass.dependencies :
            /\ d.src = External /\ d.dst = s /\ Reaches(d, info, a, s)
            /\ pass.attachments[a].initial = "present" => "bottom" \in d.srcStages
    BY <1>1, <2>2, FirstUseReached
  <2>4. \A before \in earlier : Ordered(info, pass, a, before, s)
    <3> HIDE DEF earlier
    <3> QED BY <1>1, <2>1, ChainOrders
  <2>5. "input" \in Uses(info, a, s) /\ Writes(info, a, s) =>
          \E d \in pass.dependencies : d.src = s /\ d.dst = s /\ "inputRead" \in d.dstAccess
    BY <1>1, <2>1, LoopReached
  <2> QED BY <2>3, <2>4, <2>5
<1> QED BY <1>2 DEF Synchronised, pass

(* Synchronisation is a matter of the shape and the pass alone.            *)
LEMMA SynchronisedAgrees ==
  ASSUME NEW i, NEW j, SameShape(i, j), NEW pass, Synchronised(j, pass)
  PROVE  Synchronised(i, pass)
<1>1. /\ DOMAIN i.attachments = DOMAIN j.attachments /\ i.subpasses = j.subpasses
      /\ \A a \in DOMAIN i.attachments : \A s : Uses(i, a, s) = Uses(j, a, s)
  BY PartsAgree DEF SameShape
<1>2. \A s, use : WriteAccess(i, s, use) = WriteAccess(j, s, use)
  BY <1>1 DEF WriteAccess
<1> SUFFICES ASSUME NEW a \in DOMAIN i.attachments, NEW s \in UsedIn(i, a)
             PROVE  LET layout == pass.layouts[a]
                        initial == pass.attachments[a].initial
                        earlier == {k \in UsedIn(i, a) : k < s}
                    IN /\ earlier = {} /\ initial # layout[s] =>
                            \E d \in pass.dependencies :
                                /\ d.src = External /\ d.dst = s /\ Reaches(d, i, a, s)
                                /\ initial = "present" => "bottom" \in d.srcStages
                       /\ \A before \in earlier :
                            Writes(i, a, before) \/ Writes(i, a, s)
                              \/ layout[before] # layout[s]
                              => Ordered(i, pass, a, before, s)
                       /\ "input" \in Uses(i, a, s) /\ Writes(i, a, s) =>
                            \E d \in pass.dependencies :
                                d.src = s /\ d.dst = s /\ "inputRead" \in d.dstAccess
  BY DEF Synchronised
<1>3. a \in DOMAIN j.attachments /\ \A k : Uses(i, a, k) = Uses(j, a, k)
  BY <1>1
<1>4. UsedIn(i, a) = UsedIn(j, a)
  BY <1>1, <1>3 DEF UsedIn
<1>5. \A k : Writes(i, a, k) = Writes(j, a, k)
  BY <1>2, <1>3 DEF Writes
<1>6. \A d, k : Reaches(d, i, a, k) = Reaches(d, j, a, k)
  BY <1>2, <1>3 DEF Reaches
<1>7. \A before, k : Ordered(j, pass, a, before, k) => Ordered(i, pass, a, before, k)
  BY <1>2, <1>3, <1>6 DEF Ordered
<1> DEFINE earlier == {k \in UsedIn(i, a) : k < s}
<1>8. /\ earlier = {} /\ pass.attachments[a].initial # pass.layouts[a][s] =>
           \E d \in pass.dependencies :
             /\ d.src = External /\ d.dst = s /\ Reaches(d, j, a, s)
             /\ pass.attachments[a].initial = "present" => "bottom" \in d.srcStages
      /\ \A before \in earlier :
           Writes(j, a, before) \/ Writes(j, a, s)
             \/ pass.layouts[a][before] # pass.layouts[a][s]
             => Ordered(j, pass, a, before, s)
      /\ "input" \in Uses(j, a, s) /\ Writes(j, a, s) =>
           \E d \in pass.dependencies : d.src = s /\ d.dst = s /\ "inputRead" \in d.dstAccess
  BY <1>3, <1>4 DEF Synchronised
<1> HIDE DEF earlier
<1>9. earlier = {} /\ pass.attachments[a].initial # pass.layouts[a][s] =>
        \E d \in pass.dependencies :
          /\ d.src = External /\ d.dst = s /\ Reaches(d, i, a, s)
          /\ pass.attachments[a].initial = "present" => "bottom" \in d.srcStages
  BY <1>6, <1>8
<1>10. \A before \in earlier :
         Writes(i, a, before) \/ Writes(i, a, s)
           \/ pass.layouts[a][before] # pass.layouts[a][s]
           => Ordered(i, pass, a, before, s)
  BY <1>5, <1>7, <1>8
<1>11. "input" \in Uses(i, a, s) /\ Writes(i, a, s) =>
         \E d \in pass.dependencies : d.src = s /\ d.dst = s /\ "inputRead" \in d.dstAccess
  BY <1>3, <1>5, <1>8
<1> QED BY <1>9, <1>10, <1>11 DEF earlier

(* If the client's infos are orderable, a thread records in a pass that    *)
(* orders the uses of its attachments: the first use waits for what came   *)
(* before the pass when the layout changes, and whatever a subpass writes  *)
(* is visible to those that use it later (render_pass.cpp:637-746).        *)
THEOREM PassSynchronisedHolds ==
  ASSUME \A n \in ValidNames : Orderable(InfoNamed(n))
  PROVE  Spec => []PassSynchronised
<1>1. RequestInv => PassSynchronised
  <2> SUFFICES ASSUME RequestInv, NEW t \in Recording
               PROVE  Synchronised(Info(t), Built(got[t].actual))
    BY DEF PassSynchronised
  <2> DEFINE i == Info(t)
             h == got[t].actual
             j == InfoNamed(built[h])
  <2>1. /\ HashersSound /\ PassesKeyed /\ h \in DOMAIN built
        /\ Stands(hashed.passes, h, HashedFields(i, FALSE))
    BY RecordingHas
  <2> HIDE DEF i, h
  <2>2. built[h] \in ValidNames /\ IsList(j.subpasses) /\ SameShape(i, j)
    BY <2>1, BuiltAgrees
  <2>3. Orderable(j)
    BY <2>2
  <2> HIDE DEF j
  <2>4. Synchronised(j, Build(j, Workarounds))
    BY <2>2, <2>3, BuildSynchronises
  <2>5. Synchronised(i, Build(j, Workarounds))
    BY <2>2, <2>4, SynchronisedAgrees
  <2> QED BY <2>5 DEF Built, i, j, h
<1> QED BY <1>1, RequestInvariant, PTL
=============================================================================
